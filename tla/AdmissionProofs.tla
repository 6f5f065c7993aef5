-------------------------- MODULE AdmissionProofs ---------------------------
(***************************************************************************)
(* Admission, for any number of handlers, requests, objects and            *)
(* constraints, any configurations and any length of the history: lemmas   *)
(* about its operators, the type invariant, the status of the MIPs, the    *)
(* deny Events and the response.                                           *)
(***************************************************************************)
EXTENDS Admission, TLAPS

-----------------------------------------------------------------------------
(* The operators *)

\* RequestHandler always ends with a result, reported or not.
LEMMA HandleType ==
    ASSUME NEW facts \in AllFacts, NEW action \in Actions, NEW config \in AllConfigs
    PROVE  Handle(facts, action, config) \in [allow : BOOLEAN, report : BOOLEAN]
BY Zenon DEF Handle, makeResultFromRequestHandler, EffectiveConfig, AllConfigs

\* The decision chain of RequestHandler, with its order and its early returns,
\* refuses exactly what the policy asks to refuse.
LEMMA HandleIsPolicy ==
    ASSUME NEW facts \in AllFacts, NEW action \in Actions, NEW config \in AllConfigs
    PROVE  ~Handle(facts, action, config).allow
             <=> PolicyRefuses([facts |-> facts, action |-> action, config |-> config])
BY ZenonT(60) DEF Handle, makeResultFromRequestHandler, Enforce, EffectiveConfig, Verdict,
       SkippedUser, SignaturesAccepted, CommonFilter, PolicyRefuses,
       AllFacts, MutationOutcomes, SignatureOutcomes, ImageOutcomes, AllConfigs, Actions

\* A truncated history is a history.
LEMMA TruncateType ==
    ASSUME NEW s \in Seq(Requests)
    PROVE  Truncate(s) \in Seq(Requests)
BY AdmissionAssumption DEF Truncate

\* Nothing is truncated from an empty history.
LEMMA TruncateEmpty == Truncate(<<>>) = <<>>
BY AdmissionAssumption DEF Truncate

\* Only the latest MaxHistory violations matter for the next history: to drop
\* older ones before prepending loses nothing.
LEMMA TruncateAgain ==
    ASSUME NEW s \in Seq(Requests), NEW r \in Requests
    PROVE  Truncate(<<r>> \o Truncate(s)) = Truncate(<<r>> \o s)
<1> DEFINE t == <<r>> \o Truncate(s)
           u == <<r>> \o s
<1>1. t \in Seq(Requests) /\ u \in Seq(Requests)
  BY TruncateType
<1>2. Len(Truncate(s)) = IF Len(s) > MaxHistory THEN MaxHistory ELSE Len(s)
  BY AdmissionAssumption DEF Truncate
<1>3. /\ Len(t) = Len(Truncate(s)) + 1
      /\ Len(u) = Len(s) + 1
  BY TruncateType
<1>4. \A i \in 1..Len(Truncate(s)) : Truncate(s)[i] = s[i]
  BY AdmissionAssumption DEF Truncate
<1>5. \A i \in 1..Len(t) : t[i] = u[i]
  BY <1>2, <1>3, <1>4, TruncateType, AdmissionAssumption
<1>6. Len(Truncate(t)) = Len(Truncate(u))
  BY <1>1, <1>2, <1>3, AdmissionAssumption DEF Truncate
<1>7. \A i \in 1..Len(Truncate(t)) : Truncate(t)[i] = Truncate(u)[i]
  BY <1>1, <1>2, <1>3, <1>5, AdmissionAssumption DEF Truncate
<1>8. Truncate(t) \in Seq(Requests) /\ Truncate(u) \in Seq(Requests)
  BY ZenonT(60), <1>1, TruncateType
<1> QED
  BY SMTT(60), <1>6, <1>7, <1>8

-----------------------------------------------------------------------------
(* Types *)

\* A handler that is not idle works on a request.
Working == \A h \in Handlers : pc[h] # "idle" => req[h] \in Requests

Typed == TypeOK /\ Working

\* The initial state is type correct, and no handler is at work.
LEMMA TypedInit == Init => Typed
<1> SUFFICES ASSUME Init PROVE Typed
  BY Zenon
<1>1. mip \in [Constraints -> MIPs]
  <2>1. NoMIP \in MIPs
    BY DEF NoMIP, GoneMIP, MIPs, Actions
  <2>2. \A a \in Actions : WithAction(NoMIP, a) \in MIPs
    BY <2>1 DEF WithAction, MIPs
  <2> QED
    BY <2>1, <2>2 DEF Init
<1>2. event \in [Objects -> Events] /\ eventCopy \in [Handlers -> Events]
  BY Zenon DEF Init, NoEvent, GoneEvent, Events
<1>3. /\ acConfig \in ACConfigs /\ rhConfig \in AllConfigs
      /\ ac \in [Handlers -> ACConfigs]
  BY AdmissionAssumption, Zenon DEF Init, NoConfig, ACConfigs
<1>4. recorded \in [Constraints -> Seq(Requests)]
  BY DEF Init
<1> QED
  BY <1>1, <1>2, <1>3, <1>4, Zenon DEF Init, Typed, TypeOK, Working, PCs

\* Failed reads of the ConfigMaps have the type of configurations.
LEMMA ConfigTypes ==
    {NoConfig, NilConfig} \subseteq ACConfigs /\ {LoadError, NilResult} \subseteq AllConfigs
BY DEF NoConfig, NilConfig, LoadError, NilResult, ACConfigs, AllConfigs

\* What GetEvent finds when there is no Event has the type of one.
LEMMA NoEventType == NoEvent \in Events
BY Zenon DEF NoEvent, GoneEvent, Events

\* LoadConstraints leaves the constraints to check typed.
LEMMA LoadedType ==
    ASSUME NEW h \in Handlers, LoadConstraints(h), mip \in [Constraints -> MIPs],
           todo \in [Handlers -> SUBSET [constraint : Constraints, action : Actions]]
    PROVE  todo' \in [Handlers -> SUBSET [constraint : Constraints, action : Actions]]
<1>1. PICK listed \in OrFailed({c \in Constraints : mip[c].live}, {{}}) :
        todo' = [todo EXCEPT ![h] =
                   {[constraint |-> c, action |-> mip[c].action] : c \in listed}]
  BY ZenonT(60) DEF LoadConstraints
<1>2. listed \subseteq Constraints
  BY Zenon DEF OrFailed
<1>3. \A c \in Constraints :
        [constraint |-> c, action |-> mip[c].action] \in [constraint : Constraints, action : Actions]
  BY Zenon DEF MIPs
<1> QED
  BY Zenon, <1>1, <1>2, <1>3

\* CheckConstraint leaves the constraints to check, results, refusals and
\* program counters typed.
LEMMA CheckedType ==
    ASSUME NEW h \in Handlers, CheckConstraint(h), req[h] \in Requests,
           rhConfig \in AllConfigs, pc \in [Handlers -> PCs],
           todo \in [Handlers -> SUBSET [constraint : Constraints, action : Actions]],
           results \in [Handlers -> SUBSET Results],
           refused \in [Constraints -> SUBSET Requests]
    PROVE  /\ todo' \in [Handlers -> SUBSET [constraint : Constraints, action : Actions]]
           /\ results' \in [Handlers -> SUBSET Results]
           /\ refused' \in [Constraints -> SUBSET Requests]
           /\ pc' \in [Handlers -> PCs] /\ (\A g \in Handlers : g # h => pc'[g] = pc[g])
<1> DEFINE unmatched(t) == [constraint |-> t.constraint, allow |-> TRUE, basis |-> {}]
           checked(t, facts, config) ==
              [constraint |-> t.constraint,
               allow |-> Handle(facts, t.action, config).allow,
               basis |-> {[facts |-> facts, action |-> t.action, config |-> config]}]
<1>1. PICK t \in todo[h] :
         \/ /\ results' = [results EXCEPT ![h] = @ \union {unmatched(t)}]
            /\ UNCHANGED <<refused, pc>>
         \/ \E facts \in Facts, config \in OrFailed(rhConfig, {LoadError, NilResult}) :
              /\ results' = [results EXCEPT ![h] = @ \union {checked(t, facts, config)}]
              /\ refused' = IF Handle(facts, t.action, config).allow THEN refused
                            ELSE [refused EXCEPT ![t.constraint] = @ \union {req[h]}]
              /\ Go(h, IF Handle(facts, t.action, config).report THEN "eventGet" ELSE "check")
  BY ZenonT(60) DEF CheckConstraint
<1>2. t.constraint \in Constraints /\ t.action \in Actions
  OBVIOUS
<1>3. todo' \in [Handlers -> SUBSET [constraint : Constraints, action : Actions]]
  <2>1. PICK u : todo' = [todo EXCEPT ![h] = @ \ {u}]
    BY ZenonT(60) DEF CheckConstraint
  <2> QED
    BY <2>1, Zenon
<1>4. CASE /\ results' = [results EXCEPT ![h] = @ \union {unmatched(t)}]
           /\ UNCHANGED <<refused, pc>>
  <2>1. unmatched(t) \in Results
    BY <1>2, Zenon DEF Results
  <2> QED
    BY ZenonT(60), <1>3, <1>4, <2>1
<1>5. ASSUME NEW facts \in Facts, NEW config \in OrFailed(rhConfig, {LoadError, NilResult}),
             results' = [results EXCEPT ![h] = @ \union {checked(t, facts, config)}],
             refused' = IF Handle(facts, t.action, config).allow THEN refused
                        ELSE [refused EXCEPT ![t.constraint] = @ \union {req[h]}],
             Go(h, IF Handle(facts, t.action, config).report THEN "eventGet" ELSE "check")
      PROVE  /\ results' \in [Handlers -> SUBSET Results]
             /\ refused' \in [Constraints -> SUBSET Requests]
             /\ pc' \in [Handlers -> PCs] /\ (\A g \in Handlers : g # h => pc'[g] = pc[g])
  <2>1. config \in AllConfigs
    BY ConfigTypes, Zenon DEF OrFailed
  <2>2. Handle(facts, t.action, config).allow \in BOOLEAN
    BY Zenon, <1>2, <2>1, HandleType, AdmissionAssumption
  <2>3. checked(t, facts, config) \in Results
    BY <1>2, <2>1, <2>2 DEF Results
  <2>4. results' \in [Handlers -> SUBSET Results]
    BY ZenonT(60), <1>5, <2>3
  <2>5. refused' \in [Constraints -> SUBSET Requests]
    BY Zenon, <1>5
  <2>6. pc' \in [Handlers -> PCs] /\ (\A g \in Handlers : g # h => pc'[g] = pc[g])
    BY <1>5, Zenon DEF Go, PCs
  <2> QED
    BY <2>4, <2>5, <2>6, Zenon
<1> QED
  BY ZenonT(60), <1>1, <1>3, <1>4, <1>5

\* PutEvent leaves the Events typed.
LEMMA PutEventType ==
    ASSUME NEW h \in Handlers, PutEvent(h), event \in [Objects -> Events],
           eventCopy \in [Handlers -> Events], counted \in [Objects -> Nat]
    PROVE  event' \in [Objects -> Events] /\ counted' \in [Objects -> Nat]
<1> DEFINE o == ObjectOf[req[h]]
           written == [live |-> TRUE, rv |-> event[o].rv + 1, count |-> eventCopy[h].count + 1]
<1>1. \/ /\ event' = [event EXCEPT ![o] = written]
         /\ counted' = [counted EXCEPT ![o] = @ + 1]
      \/ UNCHANGED <<event, counted>>
  BY Zenon DEF PutEvent
<1>2. o \in Objects => written \in Events
  BY SMTT(60) DEF Events
<1>3. event' \in [Objects -> Events]
  BY <1>1, <1>2, Zenon
<1>4. counted' \in [Objects -> Nat]
  BY <1>1
<1> QED
  BY Zenon, <1>3, <1>4

\* GetMIP leaves the copies and the pending updates typed.
LEMMA GetMIPType ==
    ASSUME NEW h \in Handlers, GetMIP(h), mip \in [Constraints -> MIPs],
           mipCopy \in [Handlers -> SUBSET [name : Constraints, object : MIPs]],
           denied \in [Handlers -> SUBSET Constraints]
    PROVE  /\ mipCopy' \in [Handlers -> SUBSET [name : Constraints, object : MIPs]]
           /\ denied' \in [Handlers -> SUBSET Constraints]
           /\ \E label \in {"status", "statusPut", "reply"} : Go(h, label)
<1>1. PICK c \in denied[h] :
        \/ /\ mipCopy' = [mipCopy EXCEPT ![h] = {[name |-> c, object |-> mip[c]]}]
           /\ Go(h, "statusPut")
           /\ denied' = denied
        \/ /\ denied' = [denied EXCEPT ![h] = @ \ {c}]
           /\ Go(h, AfterStatus(denied'[h]))
           /\ mipCopy' = mipCopy
  BY Zenon DEF GetMIP
<1>2. [name |-> c, object |-> mip[c]] \in [name : Constraints, object : MIPs]
  BY Zenon
<1>3. \E label \in {"status", "statusPut", "reply"} : Go(h, label)
  BY <1>1, Zenon DEF AfterStatus
<1> QED
  BY <1>1, <1>2, <1>3

\* PutMIP leaves the MIPs and their history typed.
LEMMA PutMIPType ==
    ASSUME NEW h \in Handlers, PutMIP(h), req[h] \in Requests,
           mip \in [Constraints -> MIPs], recorded \in [Constraints -> Seq(Requests)],
           mipCopy \in [Handlers -> SUBSET [name : Constraints, object : MIPs]],
           denied \in [Handlers -> SUBSET Constraints]
    PROVE  /\ mip' \in [Constraints -> MIPs]
           /\ recorded' \in [Constraints -> Seq(Requests)]
           /\ denied' \in [Handlers -> SUBSET Constraints]
           /\ \E label \in {"status", "reply"} : Go(h, label)
<1> DEFINE written(copy) == Stored(UpdateStatus(copy.object, req[h]), mip[copy.name].rv + 1)
<1>1. PICK copy \in mipCopy[h] :
        /\ \/ /\ mip' = [mip EXCEPT ![copy.name] = written(copy)]
              /\ recorded' = [recorded EXCEPT ![copy.name] = <<req[h]>> \o @]
           \/ UNCHANGED <<mip, recorded>>
        /\ denied' = [denied EXCEPT ![h] = @ \ {copy.name}]
  BY ZenonT(60) DEF PutMIP
<1>2. copy.name \in Constraints /\ copy.object \in MIPs /\ mip[copy.name] \in MIPs
  OBVIOUS
<1>3. copy.object.violations \in Seq(Requests)
  BY <1>2, Zenon DEF MIPs
<1>4. Truncate(<<req[h]>> \o copy.object.violations) \in Seq(Requests)
  <2>1. <<req[h]>> \o copy.object.violations \in Seq(Requests)
    BY SMTT(60), <1>3
  <2> QED
    BY ZenonT(60), <2>1, TruncateType
<1>5. written(copy) \in MIPs
  BY SMTT(60), <1>2, <1>4 DEF Stored, UpdateStatus, MIPs
<1>6. mip' \in [Constraints -> MIPs]
  BY ZenonT(60), <1>1, <1>2, <1>5
<1>7. <<req[h]>> \o recorded[copy.name] \in Seq(Requests)
  BY <1>2
<1>8. recorded' \in [Constraints -> Seq(Requests)]
  BY ZenonT(60), <1>1, <1>7
<1>9. \E label \in {"status", "reply"} : Go(h, label)
  <2>1. Go(h, AfterStatus(denied'[h]))
    BY Zenon DEF PutMIP
  <2>2. AfterStatus(denied'[h]) \in {"status", "reply"}
    BY Zenon DEF AfterStatus
  <2> QED
    BY Zenon, <2>1, <2>2
<1> QED
  BY <1>1, <1>6, <1>8, <1>9, Zenon

\* An edit by an admin leaves the MIPs and their history typed.
LEMMA EditConstraintType ==
    ASSUME NEW c \in Constraints, EditConstraint(c), mip \in [Constraints -> MIPs],
           recorded \in [Constraints -> Seq(Requests)]
    PROVE  /\ mip' \in [Constraints -> MIPs]
           /\ recorded' \in [Constraints -> Seq(Requests)]
<1>1. \A a \in Actions : WithAction(mip[c], a) \in MIPs
  BY SMTT(60) DEF WithAction, MIPs
<1>2. GoneMIP(mip[c].rv + 1) \in MIPs
  BY SMTT(60) DEF GoneMIP, MIPs, Actions
<1>3. mip' \in [Constraints -> MIPs]
  BY Zenon, <1>1, <1>2 DEF EditConstraint
<1>4. recorded' \in [Constraints -> Seq(Requests)]
  <2>1. <<>> \in Seq(Requests)
    OBVIOUS
  <2> QED
    BY ZenonT(60), <2>1 DEF EditConstraint
<1> QED
  BY Zenon, <1>3, <1>4

\* Every step preserves the type invariant and who is at work.
LEMMA TypedNext == Typed /\ [Next]_vars => Typed'
<1> SUFFICES ASSUME Typed, [Next]_vars PROVE Typed'
  BY Zenon
<1> USE DEF Go, Answering, Typed, TypeOK, Working, store, configs, locals
<1>1. ASSUME NEW h \in Handlers, Receive(h) PROVE Typed'
  BY SMTT(60), <1>1 DEF Receive, PCs
<1>2. ASSUME NEW h \in Handlers, LoadAdmissionControllerConfig(h) PROVE Typed'
  <2> PICK config \in OrFailed(acConfig, {NoConfig, NilConfig}) :
             /\ ac' = [ac EXCEPT ![h] = config]
             /\ \/ Answering(h, "allow") \/ Answering(h, "abort")
                \/ Go(h, "list") /\ UNCHANGED reply
    BY ZenonT(60), <1>2 DEF LoadAdmissionControllerConfig
  <2>1. config \in ACConfigs
    BY Zenon, ConfigTypes DEF OrFailed
  <2> QED
    BY ZenonT(60), <1>2, <2>1 DEF LoadAdmissionControllerConfig, PCs
<1>3. ASSUME NEW h \in Handlers, LoadConstraints(h) PROVE Typed'
  <2>1. todo' \in [Handlers -> SUBSET [constraint : Constraints, action : Actions]]
    BY ZenonT(60), <1>3, LoadedType
  <2> QED
    BY ZenonT(60), <1>3, <2>1 DEF LoadConstraints, PCs
<1>4. ASSUME NEW h \in Handlers, CheckConstraint(h) PROVE Typed'
  <2>1. req[h] \in Requests
    BY ZenonT(60), <1>4 DEF CheckConstraint
  <2>2. /\ todo' \in [Handlers -> SUBSET [constraint : Constraints, action : Actions]]
        /\ results' \in [Handlers -> SUBSET Results]
        /\ refused' \in [Constraints -> SUBSET Requests]
        /\ pc' \in [Handlers -> PCs] /\ (\A g \in Handlers : g # h => pc'[g] = pc[g])
    BY ZenonT(60), <1>4, <2>1, CheckedType
  <2> QED
    BY ZenonT(60), <1>4, <2>1, <2>2 DEF CheckConstraint
<1>5. ASSUME NEW h \in Handlers, GetEvent(h) PROVE Typed'
  BY SMTT(60), <1>5, AdmissionAssumption DEF GetEvent, PCs, OrFailed, NoEvent, GoneEvent, Events
<1>6. ASSUME NEW h \in Handlers, PutEvent(h) PROVE Typed'
  <2>1. event' \in [Objects -> Events] /\ counted' \in [Objects -> Nat]
    BY ZenonT(60), <1>6, PutEventType
  <2> QED
    BY Zenon, <1>6, <2>1, NoEventType DEF PutEvent, PCs
<1>7. ASSUME NEW h \in Handlers, Accumulate(h) PROVE Typed'
  BY SMTT(60), <1>7 DEF Accumulate, AfterStatus, getAccumulatedResult, DeniedBy, PCs, Results
<1>8. ASSUME NEW h \in Handlers, GetMIP(h) PROVE Typed'
  <2>1. /\ mipCopy' \in [Handlers -> SUBSET [name : Constraints, object : MIPs]]
        /\ denied' \in [Handlers -> SUBSET Constraints]
        /\ \E label \in {"status", "statusPut", "reply"} : Go(h, label)
    BY ZenonT(60), <1>8, GetMIPType
  <2> QED
    BY SMTT(60), <1>8, <2>1 DEF GetMIP, PCs
<1>9. ASSUME NEW h \in Handlers, PutMIP(h) PROVE Typed'
  <2>1. req[h] \in Requests
    BY Zenon, <1>9 DEF PutMIP
  <2>2. /\ mip' \in [Constraints -> MIPs]
        /\ recorded' \in [Constraints -> Seq(Requests)]
        /\ denied' \in [Handlers -> SUBSET Constraints]
        /\ \E label \in {"status", "reply"} : Go(h, label)
    BY ZenonT(60), <1>9, <2>1, PutMIPType
  <2> QED
    BY Zenon, <1>9, <2>2 DEF PutMIP, PCs
<1>10. ASSUME NEW h \in Handlers, Respond(h) PROVE Typed'
  BY Zenon, <1>10 DEF Respond, PCs, NoConfig, ACConfigs
<1>11. ASSUME NEW r \in Requests, Timeout(r) PROVE Typed'
  BY Zenon, <1>11 DEF Timeout
<1>12. ASSUME NEW c \in Constraints, EditConstraint(c) PROVE Typed'
  <2>1. /\ mip' \in [Constraints -> MIPs]
        /\ recorded' \in [Constraints -> Seq(Requests)]
    BY Zenon, <1>12, EditConstraintType
  <2>2. edits' = edits + 1 /\ UNCHANGED <<event, counted, refused, acConfig, rhConfig, locals, pc, answer>>
    BY Zenon, <1>12 DEF EditConstraint, Edit
  <2> QED
    BY SMTT(60), <2>1, <2>2
<1>13. ASSUME EditConfigs PROVE Typed'
  BY SMTT(60), <1>13, AdmissionAssumption DEF EditConfigs, Edit
<1>14. ASSUME NEW o \in Objects, ExpireEvent(o) PROVE Typed'
  BY SMTT(60), <1>14 DEF ExpireEvent, Edit, GoneEvent, Events
<1>15. ASSUME UNCHANGED vars PROVE Typed'
  BY Zenon, <1>15 DEF vars
<1> QED
  BY ZenonT(60), <1>1, <1>2, <1>3, <1>4, <1>5, <1>6, <1>7, <1>8, <1>9, <1>10, <1>11, <1>12,
     <1>13, <1>14, <1>15 DEF Next, Environment, Step

\* Every reachable state of the admission controller is type correct.
THEOREM TypeCorrect == Spec => []TypeOK
<1>1. Spec => []Typed
  BY TypedInit, TypedNext, PTL DEF Spec
<1> QED
  BY <1>1, PTL DEF Typed

-----------------------------------------------------------------------------
(* The status of the MIPs: optimistic concurrency protects what was written *)

\* A copy of a MIP is never newer than the MIP; if no write came between, it
\* is the MIP.
MIPCopies ==
    \A h \in Handlers : \A copy \in mipCopy[h] :
        /\ copy.object.rv <= mip[copy.name].rv
        /\ copy.object.rv = mip[copy.name].rv => copy.object = mip[copy.name]

StatusInv == Typed /\ MIPCopies /\ StatusIsExact

\* A MIP is created with an empty status and nobody holds a copy.
LEMMA StatusInit == Init => StatusInv
<1> SUFFICES ASSUME Init PROVE StatusInv
  OBVIOUS
<1>1. Typed
  BY Zenon, TypedInit
<1>2. \A c \in Constraints : mip[c].denyCount = 0 /\ mip[c].violations = <<>>
  BY SMTT(60) DEF Init, NoMIP, GoneMIP, WithAction
<1>3. StatusIsExact
  BY Zenon, <1>2, TruncateEmpty DEF Init, StatusIsExact
<1>4. MIPCopies
  BY Zenon DEF Init, MIPCopies
<1> QED
  BY <1>1, <1>3, <1>4, Zenon DEF StatusInv

\* PutMIP writes what it read plus one violation, because it read the last write.
LEMMA StatusPut ==
    ASSUME StatusInv, NEW h \in Handlers, PutMIP(h)
    PROVE  MIPCopies' /\ StatusIsExact'
<1> USE DEF StatusInv, Typed
<1> DEFINE written(copy) == Stored(UpdateStatus(copy.object, req[h]), mip[copy.name].rv + 1)
<1>1. PICK copy \in mipCopy[h] :
        \/ /\ MIPWritable(mip[copy.name], copy.object)
           /\ mip' = [mip EXCEPT ![copy.name] = written(copy)]
           /\ recorded' = [recorded EXCEPT ![copy.name] = <<req[h]>> \o @]
        \/ UNCHANGED <<mip, recorded>>
  BY Zenon DEF PutMIP
<1>2. mipCopy' = [mipCopy EXCEPT ![h] = {}] /\ req[h] \in Requests
  BY Zenon DEF PutMIP, Working
<1>3. /\ copy.name \in Constraints /\ copy.object \in MIPs
      /\ mip \in [Constraints -> MIPs] /\ recorded \in [Constraints -> Seq(Requests)]
      /\ mipCopy \in [Handlers -> SUBSET [name : Constraints, object : MIPs]]
  BY SMTT(60) DEF TypeOK
<1>4. CASE UNCHANGED <<mip, recorded>>
  BY Zenon, <1>2, <1>3, <1>4 DEF MIPCopies, StatusIsExact
<1>5. CASE /\ MIPWritable(mip[copy.name], copy.object)
           /\ mip' = [mip EXCEPT ![copy.name] = written(copy)]
           /\ recorded' = [recorded EXCEPT ![copy.name] = <<req[h]>> \o @]
  <2>1. copy.object = mip[copy.name]
    BY Zenon, <1>3, <1>5 DEF MIPWritable, MIPCopies
  <2>2. MIPCopies'
    <3> SUFFICES ASSUME NEW g \in Handlers, NEW other \in mipCopy'[g]
                 PROVE  /\ other.object.rv <= mip'[other.name].rv
                        /\ other.object.rv = mip'[other.name].rv
                             => other.object = mip'[other.name]
      BY Zenon DEF MIPCopies
    <3>1. /\ other \in mipCopy[g]
          /\ other.name \in Constraints /\ other.object \in MIPs
      BY SMTT(60), <1>2, <1>3
    <3>2. other.object.rv <= mip[other.name].rv
      BY Zenon, <3>1 DEF MIPCopies
    <3>3. CASE other.name = copy.name
      <4>1. mip'[other.name].rv = mip[other.name].rv + 1
        BY Zenon, <1>3, <1>5, <3>3 DEF Stored
      <4> QED
        BY SMTT(60), <1>3, <3>1, <3>2, <4>1 DEF MIPs
    <3>4. CASE other.name # copy.name
      BY Zenon, <1>3, <1>5, <3>1, <3>4 DEF MIPCopies
    <3> QED
      BY Zenon, <3>3, <3>4
  <2>3. ASSUME NEW c \in Constraints
        PROVE  /\ mip'[c].denyCount = Len(recorded'[c])
               /\ mip'[c].violations = Truncate(recorded'[c])
    <3>1. CASE c # copy.name
      BY Zenon, <1>3, <1>5, <3>1 DEF StatusIsExact
    <3>2. CASE c = copy.name
      <4>1. mip[c].denyCount = Len(recorded[c]) /\ mip[c].violations = Truncate(recorded[c])
        BY Zenon DEF StatusIsExact
      <4>2. /\ mip'[c].denyCount = mip[c].denyCount + 1
            /\ mip'[c].violations = Truncate(<<req[h]>> \o mip[c].violations)
        BY Zenon, <1>3, <1>5, <2>1, <3>2 DEF Stored, UpdateStatus
      <4>3. recorded'[c] = <<req[h]>> \o recorded[c] /\ recorded[c] \in Seq(Requests)
        BY Zenon, <1>3, <1>5, <3>2
      <4>4. Len(recorded'[c]) = Len(recorded[c]) + 1
        BY SMTT(60), <1>2, <4>3
      <4>5. Truncate(<<req[h]>> \o Truncate(recorded[c])) = Truncate(<<req[h]>> \o recorded[c])
        BY <1>2, <4>3, TruncateAgain, Zenon
      <4> QED
        BY Zenon, <4>1, <4>2, <4>3, <4>4, <4>5
    <3> QED
      BY Zenon, <3>1, <3>2
  <2> QED
    BY Zenon, <2>2, <2>3 DEF StatusIsExact
<1> QED
  BY Zenon, <1>1, <1>4, <1>5

\* An edit by an admin makes every copy older than the MIP.
LEMMA StatusEdit ==
    ASSUME StatusInv, NEW c \in Constraints, EditConstraint(c)
    PROVE  MIPCopies' /\ StatusIsExact'
<1> USE DEF StatusInv, Typed
<1>1. /\ mip \in [Constraints -> MIPs] /\ recorded \in [Constraints -> Seq(Requests)]
      /\ mipCopy \in [Handlers -> SUBSET [name : Constraints, object : MIPs]]
  BY Zenon DEF TypeOK
<1>2. mipCopy' = mipCopy
  BY Zenon DEF EditConstraint, locals
<1>3. \/ /\ \E a \in Actions : mip' = [mip EXCEPT ![c] = WithAction(@, a)]
         /\ recorded' = recorded
      \/ /\ mip' = [mip EXCEPT ![c] = GoneMIP(@.rv + 1)]
         /\ recorded' = [recorded EXCEPT ![c] = <<>>]
  BY Zenon DEF EditConstraint
<1>4. mip'[c].rv = mip[c].rv + 1 /\ (\A d \in Constraints : d # c => mip'[d] = mip[d])
  BY SMTT(60), <1>1, <1>3 DEF WithAction, GoneMIP
<1>5. MIPCopies'
  <2> SUFFICES ASSUME NEW g \in Handlers, NEW other \in mipCopy[g]
               PROVE  /\ other.object.rv <= mip'[other.name].rv
                      /\ other.object.rv = mip'[other.name].rv
                           => other.object = mip'[other.name]
    BY Zenon, <1>2 DEF MIPCopies
  <2>1. other.name \in Constraints /\ other.object \in MIPs
    BY SMTT(60), <1>1
  <2>2. /\ other.object.rv <= mip[other.name].rv
        /\ other.object.rv = mip[other.name].rv => other.object = mip[other.name]
    BY Zenon DEF MIPCopies
  <2>3. other.object.rv \in Nat /\ mip[other.name].rv \in Nat
    BY Zenon, <1>1, <2>1 DEF MIPs
  <2>4. CASE other.name = c
    <3>1. mip'[other.name].rv = mip[other.name].rv + 1
      BY Zenon, <1>4, <2>4
    <3> QED
      BY SMTT(60), <2>2, <2>3, <3>1
  <2>5. CASE other.name # c
    <3>1. mip'[other.name] = mip[other.name]
      BY Zenon, <1>4, <2>1, <2>5
    <3> QED
      BY <2>2, <3>1, Zenon
  <2> QED
    BY Zenon, <2>4, <2>5
<1>6. StatusIsExact'
  <2> SUFFICES ASSUME NEW d \in Constraints
               PROVE  /\ mip'[d].denyCount = Len(recorded'[d])
                      /\ mip'[d].violations = Truncate(recorded'[d])
    BY Zenon DEF StatusIsExact
  <2>1. /\ mip[d].denyCount = Len(recorded[d])
        /\ mip[d].violations = Truncate(recorded[d])
    BY Zenon DEF StatusIsExact
  <2>2. CASE /\ \E a \in Actions : mip' = [mip EXCEPT ![c] = WithAction(@, a)]
             /\ recorded' = recorded
    <3>1. mip'[d].denyCount = mip[d].denyCount /\ mip'[d].violations = mip[d].violations
      BY SMTT(60), <1>1, <2>2 DEF WithAction
    <3> QED
      BY Zenon, <2>1, <2>2, <3>1
  <2>3. CASE /\ mip' = [mip EXCEPT ![c] = GoneMIP(@.rv + 1)]
             /\ recorded' = [recorded EXCEPT ![c] = <<>>]
    <3>1. CASE d = c
      <4>1. mip'[d].denyCount = 0 /\ mip'[d].violations = <<>> /\ recorded'[d] = <<>>
        BY Zenon, <1>1, <2>3, <3>1 DEF GoneMIP
      <4>2. Len(<<>>) = 0
        BY Zenon
      <4> QED
        BY Zenon, <4>1, <4>2, TruncateEmpty
    <3>2. CASE d # c
      BY Zenon, <1>1, <2>1, <2>3, <3>2
    <3> QED
      BY Zenon, <3>1, <3>2
  <2> QED
    BY Zenon, <1>3, <2>2, <2>3
<1> QED
  BY Zenon, <1>5, <1>6

\* Every step preserves the invariant of the status.
LEMMA StatusNext == StatusInv /\ [Next]_vars => StatusInv'
<1> SUFFICES ASSUME StatusInv, [Next]_vars PROVE StatusInv'
  OBVIOUS
<1>1. Typed'
  BY Zenon, TypedNext DEF StatusInv
<1>2. ASSUME UNCHANGED <<mip, recorded, mipCopy>> PROVE MIPCopies' /\ StatusIsExact'
  BY Zenon, <1>2 DEF StatusInv, MIPCopies, StatusIsExact
<1>3. ASSUME NEW h \in Handlers, GetMIP(h) PROVE MIPCopies' /\ StatusIsExact'
  <2>1. UNCHANGED <<mip, recorded>>
    BY Zenon, <1>3 DEF GetMIP, store
  <2>2. PICK c \in denied[h] :
          \/ mipCopy' = [mipCopy EXCEPT ![h] = {[name |-> c, object |-> mip[c]]}]
          \/ mipCopy' = mipCopy
    BY Zenon, <1>3 DEF GetMIP
  <2>3. /\ c \in Constraints /\ mip \in [Constraints -> MIPs]
        /\ mipCopy \in [Handlers -> SUBSET [name : Constraints, object : MIPs]]
    BY Zenon DEF StatusInv, Typed, TypeOK
  <2>4. MIPCopies'
    <3> SUFFICES ASSUME NEW g \in Handlers, NEW copy \in mipCopy'[g]
                 PROVE  /\ copy.object.rv <= mip[copy.name].rv
                        /\ copy.object.rv = mip[copy.name].rv
                             => copy.object = mip[copy.name]
      BY Zenon, <2>1 DEF MIPCopies
    <3>1. copy \in mipCopy[g] \/ copy = [name |-> c, object |-> mip[c]]
      BY Zenon, <2>2, <2>3
    <3>2. CASE copy \in mipCopy[g]
      BY Zenon, <3>2 DEF StatusInv, MIPCopies
    <3>3. CASE copy = [name |-> c, object |-> mip[c]]
      BY SMTT(60), <2>3, <3>3 DEF MIPs
    <3> QED
      BY Zenon, <3>1, <3>2, <3>3
  <2> QED
    BY Zenon, <2>1, <2>4 DEF StatusInv, StatusIsExact
<1>4. ASSUME NEW h \in Handlers, Step(h) PROVE MIPCopies' /\ StatusIsExact'
  BY ZenonT(60), <1>2, <1>3, <1>4, StatusPut
     DEF Step, Receive, LoadAdmissionControllerConfig, LoadConstraints, CheckConstraint,
         GetEvent, PutEvent, Accumulate, Respond, store
<1>5. ASSUME Environment PROVE MIPCopies' /\ StatusIsExact'
  BY ZenonT(60), <1>2, <1>5, StatusEdit
     DEF Environment, Timeout, EditConfigs, ExpireEvent, store, locals
<1>6. ASSUME UNCHANGED vars PROVE MIPCopies' /\ StatusIsExact'
  BY Zenon, <1>2, <1>6 DEF vars, store, locals
<1>7. MIPCopies' /\ StatusIsExact'
  BY <1>4, <1>5, <1>6, Zenon DEF Next
<1> QED
  BY <1>1, <1>7, Zenon DEF StatusInv

\* The invariant of the status holds in every reachable state.
LEMMA StatusInvHolds == Spec => []StatusInv
BY StatusInit, StatusNext, PTL DEF Spec

\* The status of every MIP is exactly what the webhook wrote to it: no write is
\* lost, repeated or applied to an outdated copy by updateConstraintStatus,
\* however the handlers and the admin interleave.
THEOREM StatusExact == Spec => []StatusIsExact
BY StatusInvHolds, PTL DEF StatusInv

\* One step: where DenyCount grows, the spec of the MIP stays.
LEMMA StatusStepKeepsSpec ==
    ASSUME StatusInv, [Next]_vars
    PROVE  \A c \in Constraints :
             mip'[c].denyCount > mip[c].denyCount => mip'[c].action = mip[c].action
<1> DEFINE Kept == \A c \in Constraints :
             mip'[c].denyCount > mip[c].denyCount => mip'[c].action = mip[c].action
<1>1. mip \in [Constraints -> MIPs]
  BY Zenon DEF StatusInv, Typed, TypeOK
<1>2. ASSUME UNCHANGED mip PROVE Kept
  BY Zenon, <1>1, <1>2 DEF MIPs
<1>3. ASSUME NEW h \in Handlers, PutMIP(h) PROVE Kept
  <2>1. PICK copy \in mipCopy[h] :
          \/ /\ MIPWritable(mip[copy.name], copy.object)
             /\ mip' = [mip EXCEPT ![copy.name] =
                  Stored(UpdateStatus(copy.object, req[h]), mip[copy.name].rv + 1)]
          \/ UNCHANGED mip
    BY Zenon, <1>3 DEF PutMIP
  <2>2. CASE UNCHANGED mip
    BY <1>2, <2>2, Zenon
  <2>3. CASE /\ MIPWritable(mip[copy.name], copy.object)
             /\ mip' = [mip EXCEPT ![copy.name] =
                  Stored(UpdateStatus(copy.object, req[h]), mip[copy.name].rv + 1)]
    <3>1. copy.object = mip[copy.name]
      BY Zenon, <2>3 DEF MIPWritable, StatusInv, MIPCopies
    <3>2. \A c \in Constraints : mip'[c].action = mip[c].action
      BY Zenon, <1>1, <2>3, <3>1 DEF Stored, UpdateStatus
    <3> QED
      BY Zenon, <3>2
  <2> QED
    BY Zenon, <2>1, <2>2, <2>3
<1>4. ASSUME NEW c \in Constraints, EditConstraint(c) PROVE Kept
  <2>1. \A d \in Constraints : mip'[d].denyCount = mip[d].denyCount \/ mip'[d].denyCount = 0
    BY SMTT(60), <1>1, <1>4 DEF EditConstraint, WithAction, GoneMIP
  <2>2. \A d \in Constraints : mip[d].denyCount \in Nat
    BY <1>1, Zenon DEF MIPs
  <2> QED
    BY SMTT(60), <2>1, <2>2
<1>5. ASSUME NEW h \in Handlers, Step(h) PROVE Kept
  BY ZenonT(60), <1>2, <1>3, <1>5
     DEF Step, Receive, LoadAdmissionControllerConfig, LoadConstraints, CheckConstraint,
         GetEvent, PutEvent, Accumulate, GetMIP, Respond, store
<1>6. ASSUME Environment PROVE Kept
  BY ZenonT(60), <1>2, <1>4, <1>6 DEF Environment, Timeout, EditConfigs, ExpireEvent, store
<1>7. ASSUME UNCHANGED vars PROVE Kept
  BY Zenon, <1>2, <1>7 DEF vars, store
<1> QED
  BY Zenon, <1>5, <1>6, <1>7 DEF Next

\* No status write undoes an edit of the spec of a MIP, although
\* updateConstraintStatus sends the whole object it read before.
THEOREM SpecKept == Spec => StatusWriteKeepsSpec
<1>1. StatusInv /\ [Next]_vars =>
        [\A c \in Constraints :
           mip'[c].denyCount > mip[c].denyCount => mip'[c].action = mip[c].action]_vars
  BY Zenon, StatusStepKeepsSpec
<1> QED
  BY <1>1, StatusInvHolds, PTL DEF Spec, StatusWriteKeepsSpec

-----------------------------------------------------------------------------
(* The count of the deny Events *)

\* A copy of an Event is never newer than the Event; if no write came between,
\* it is the Event. The copy of no Event starts a new count.
EventCopies ==
    \A h \in Handlers : pc[h] = "eventPut" =>
        /\ eventCopy[h].rv <= event[ObjectOf[req[h]]].rv
        /\ eventCopy[h].live /\ eventCopy[h].rv = event[ObjectOf[req[h]]].rv
             => eventCopy[h] = event[ObjectOf[req[h]]]
        /\ ~eventCopy[h].live => eventCopy[h].count = 0

\* An Event that does not exist has no count.
GoneEventsAreEmpty == \A o \in Objects : ~event[o].live => event[o].count = 0

EventInv == Typed /\ EventCopies /\ GoneEventsAreEmpty /\ EventCountIsExact

EventParts == EventCopies /\ GoneEventsAreEmpty /\ EventCountIsExact

\* No Event exists and nobody holds a copy.
LEMMA EventInit == Init => EventInv
<1> SUFFICES ASSUME Init PROVE EventInv
  OBVIOUS
<1>1. GoneEventsAreEmpty /\ EventCountIsExact
  BY Zenon DEF Init, GoneEventsAreEmpty, EventCountIsExact, NoEvent, GoneEvent
<1>2. EventCopies
  BY Zenon DEF Init, EventCopies
<1> QED
  BY <1>1, <1>2, TypedInit, Zenon DEF EventInv

\* A write of the Event of o that raises its resourceVersion keeps EventCopies,
\* if no handler starts to write.
LEMMA CopiesAge ==
    ASSUME EventInv, NEW o \in Objects,
           event' \in [Objects -> Events], event'[o].rv = event[o].rv + 1,
           \A x \in Objects : x # o => event'[x] = event[x],
           req' = req,
           \A g \in Handlers : pc'[g] = "eventPut" =>
               pc[g] = "eventPut" /\ eventCopy'[g] = eventCopy[g]
    PROVE  EventCopies'
<1> SUFFICES ASSUME NEW g \in Handlers, pc'[g] = "eventPut"
             PROVE  /\ eventCopy[g].rv <= event'[ObjectOf[req[g]]].rv
                    /\ eventCopy[g].live /\ eventCopy[g].rv = event'[ObjectOf[req[g]]].rv
                         => eventCopy[g] = event'[ObjectOf[req[g]]]
                    /\ ~eventCopy[g].live => eventCopy[g].count = 0
  BY SMTT(60) DEF EventCopies
<1> DEFINE x == ObjectOf[req[g]]
<1>1. pc[g] = "eventPut" /\ req[g] \in Requests /\ x \in Objects
  BY Zenon, AdmissionAssumption DEF EventInv, Typed, Working
<1>2. /\ eventCopy[g].rv <= event[x].rv
      /\ eventCopy[g].live /\ eventCopy[g].rv = event[x].rv => eventCopy[g] = event[x]
      /\ ~eventCopy[g].live => eventCopy[g].count = 0
  BY Zenon, <1>1 DEF EventInv, EventCopies
<1>3. eventCopy[g].rv \in Nat /\ event[x].rv \in Nat
  BY ZenonT(60), <1>1 DEF EventInv, Typed, TypeOK, Events
<1>4. CASE x = o
  <2>1. event'[x].rv = event[x].rv + 1
    BY Zenon, <1>4
  <2> QED
    BY SMTT(60), <1>2, <1>3, <2>1
<1>5. CASE x # o
  <2>1. event'[x] = event[x]
    BY Zenon, <1>1, <1>5
  <2> QED
    BY Zenon, <1>2, <2>1
<1> QED
  BY Zenon, <1>4, <1>5

\* PutEvent adds one to the stored count, because it read the last write.
LEMMA EventPut ==
    ASSUME EventInv, NEW h \in Handlers, PutEvent(h)
    PROVE  EventParts'
<1> DEFINE o == ObjectOf[req[h]]
<1>1. /\ event \in [Objects -> Events] /\ eventCopy \in [Handlers -> Events]
      /\ counted \in [Objects -> Nat] /\ pc \in [Handlers -> PCs]
      /\ pc[h] = "eventPut" /\ o \in Objects
  BY Zenon, AdmissionAssumption DEF EventInv, Typed, TypeOK, Working, PutEvent
<1>2. /\ pc' = [pc EXCEPT ![h] = "check"] /\ req' = req
      /\ eventCopy' = [eventCopy EXCEPT ![h] = NoEvent]
  BY Zenon DEF PutEvent, Go
<1>3. \A g \in Handlers : pc'[g] = "eventPut" =>
         pc[g] = "eventPut" /\ eventCopy'[g] = eventCopy[g]
  BY Zenon, <1>1, <1>2
<1>4. CASE UNCHANGED <<event, counted>>
  <2>1. EventCopies'
    BY SMTT(60), <1>2, <1>3, <1>4 DEF EventInv, EventCopies
  <2> QED
    BY Zenon, <1>4, <2>1 DEF EventInv, EventParts, GoneEventsAreEmpty, EventCountIsExact
<1>5. CASE /\ EventWritable(event[o], eventCopy[h])
           /\ event' = [event EXCEPT ![o] =
                [live |-> TRUE, rv |-> @.rv + 1, count |-> eventCopy[h].count + 1]]
           /\ counted' = [counted EXCEPT ![o] = @ + 1]
  <2>1. event' \in [Objects -> Events]
    BY Zenon, <1>1, PutEventType
  <2>2. /\ event'[o].rv = event[o].rv + 1 /\ event'[o].live
        /\ event'[o].count = eventCopy[h].count + 1
        /\ counted'[o] = counted[o] + 1
    BY Zenon, <1>1, <1>5
  <2>3. \A x \in Objects : x # o => event'[x] = event[x] /\ counted'[x] = counted[x]
    BY Zenon, <1>1, <1>5
  <2>4. EventCopies'
    BY SMTT(60), <1>1, <1>2, <1>3, <2>1, <2>2, <2>3, CopiesAge
  <2>5. eventCopy[h].count = event[o].count
    <3>1. CASE eventCopy[h].live
      BY Zenon, <1>1, <1>5, <3>1 DEF EventInv, EventCopies, EventWritable
    <3>2. CASE ~eventCopy[h].live
      BY Zenon, <1>1, <1>5, <3>2 DEF EventInv, EventCopies, EventWritable, GoneEventsAreEmpty
    <3> QED
      BY Zenon, <3>1, <3>2
  <2>6. \A x \in Objects : event'[x].count = counted'[x]
    BY <2>2, <2>3, <2>5 DEF EventInv, EventCountIsExact
  <2>7. \A x \in Objects : ~event'[x].live => event'[x].count = 0
    BY Zenon, <2>2, <2>3 DEF EventInv, GoneEventsAreEmpty
  <2> QED
    BY Zenon, <2>4, <2>6, <2>7 DEF EventParts, GoneEventsAreEmpty, EventCountIsExact
<1>6. \/ UNCHANGED <<event, counted>>
      \/ /\ EventWritable(event[o], eventCopy[h])
         /\ event' = [event EXCEPT ![o] =
              [live |-> TRUE, rv |-> @.rv + 1, count |-> eventCopy[h].count + 1]]
         /\ counted' = [counted EXCEPT ![o] = @ + 1]
  BY ZenonT(60) DEF PutEvent
<1> QED
  BY Zenon, <1>4, <1>5, <1>6

\* An expired Event makes every copy of it outdated.
LEMMA EventExpires ==
    ASSUME EventInv, NEW o \in Objects, ExpireEvent(o)
    PROVE  EventParts'
<1>1. event \in [Objects -> Events] /\ counted \in [Objects -> Nat]
  BY Zenon DEF EventInv, Typed, TypeOK
<1>2. /\ event' = [event EXCEPT ![o] = GoneEvent(@.rv + 1)]
      /\ counted' = [counted EXCEPT ![o] = 0]
      /\ req' = req /\ pc' = pc /\ eventCopy' = eventCopy
  BY Zenon DEF ExpireEvent, locals
<1>3. GoneEvent(event[o].rv + 1) \in Events
  BY SMTT(60), <1>1 DEF GoneEvent, Events
<1>4. /\ event' \in [Objects -> Events]
      /\ event'[o].rv = event[o].rv + 1 /\ event'[o].count = 0 /\ counted'[o] = 0
      /\ \A x \in Objects : x # o => event'[x] = event[x] /\ counted'[x] = counted[x]
  BY Zenon, <1>1, <1>2, <1>3 DEF GoneEvent
<1>5. EventCopies'
  BY Zenon, <1>2, <1>4, CopiesAge
<1>6. \A x \in Objects : event'[x].count = counted'[x]
  BY Zenon, <1>4 DEF EventInv, EventCountIsExact
<1>7. \A x \in Objects : ~event'[x].live => event'[x].count = 0
  BY Zenon, <1>4 DEF EventInv, GoneEventsAreEmpty
<1> QED
  BY Zenon, <1>5, <1>6, <1>7 DEF EventParts, GoneEventsAreEmpty, EventCountIsExact

\* Any other step of a handler leaves the Events and its own copy alone, or
\* takes the copy (GetEvent).
LEMMA EventElsewhere ==
    ASSUME EventInv, UNCHANGED <<event, counted, eventCopy>>,
           \A g \in Handlers : pc'[g] = "eventPut" => pc[g] = "eventPut" /\ req'[g] = req[g]
    PROVE  EventParts'
BY Zenon DEF EventInv, EventParts, EventCopies, GoneEventsAreEmpty, EventCountIsExact

\* GetEvent takes a copy of the stored Event, or finds none.
LEMMA EventGet ==
    ASSUME EventInv, NEW h \in Handlers, GetEvent(h)
    PROVE  EventParts'
<1> DEFINE o == ObjectOf[req[h]]
<1>1. /\ event \in [Objects -> Events] /\ eventCopy \in [Handlers -> Events]
      /\ pc \in [Handlers -> PCs] /\ o \in Objects
  BY Zenon, AdmissionAssumption DEF EventInv, Typed, TypeOK, Working, GetEvent
<1>2. UNCHANGED <<event, counted, req>> /\ pc' = [pc EXCEPT ![h] = "eventPut"]
  BY ZenonT(60) DEF GetEvent, store, Go
<1>3. \/ /\ event[o].live
         /\ eventCopy' = [eventCopy EXCEPT ![h] = event[o]]
      \/ eventCopy' = [eventCopy EXCEPT ![h] = NoEvent]
  BY ZenonT(60) DEF GetEvent, OrFailed, NoEvent, GoneEvent
<1>4. \A g \in Handlers : g # h => pc'[g] = pc[g] /\ eventCopy'[g] = eventCopy[g]
  BY Zenon, <1>1, <1>2, <1>3
<1>5. /\ eventCopy'[h].rv <= event[o].rv
      /\ eventCopy'[h].live => eventCopy'[h] = event[o]
      /\ ~eventCopy'[h].live => eventCopy'[h].count = 0
  BY SMTT(60), <1>1, <1>3 DEF NoEvent, GoneEvent, Events
<1>6. EventCopies'
  BY ZenonT(60), <1>2, <1>4, <1>5 DEF EventInv, EventCopies
<1> QED
  BY Zenon, <1>2, <1>6 DEF EventInv, EventParts, GoneEventsAreEmpty, EventCountIsExact

\* Every step preserves the invariant of the Events.
LEMMA EventNext == EventInv /\ [Next]_vars => EventInv'
<1> SUFFICES ASSUME EventInv, [Next]_vars PROVE EventInv'
  OBVIOUS
<1>1. Typed'
  BY TypedNext, Zenon DEF EventInv
<1>2. pc \in [Handlers -> PCs] /\ req \in [Handlers -> Requests \union {NoRequest}]
  BY Zenon DEF EventInv, Typed, TypeOK
<1>3. ASSUME NEW h \in Handlers, Step(h), ~GetEvent(h), ~PutEvent(h)
      PROVE  EventParts'
  <2>1. /\ UNCHANGED <<event, counted, eventCopy>>
        /\ \E label \in PCs \ {"eventPut"} : pc' = [pc EXCEPT ![h] = label] \/ pc' = pc
    <3>1. CASE Receive(h)
      BY ZenonT(60), <3>1 DEF Receive, store, Go, PCs
    <3>2. CASE LoadAdmissionControllerConfig(h)
      BY Zenon, <3>2 DEF LoadAdmissionControllerConfig, store, Go, Answering, PCs
    <3>3. CASE LoadConstraints(h)
      BY ZenonT(60), <3>3 DEF LoadConstraints, store, Go, PCs
    <3>4. CASE CheckConstraint(h)
      BY ZenonT(60), <3>4 DEF CheckConstraint, Go, PCs
    <3>5. CASE Accumulate(h) \/ GetMIP(h) \/ PutMIP(h)
      BY ZenonT(60), <3>5 DEF Accumulate, GetMIP, PutMIP, AfterStatus, store, Go, PCs
    <3>6. CASE Respond(h)
      BY ZenonT(60), <3>6 DEF Respond, store, Go, PCs
    <3> QED
      BY Zenon, <1>3, <3>1, <3>2, <3>3, <3>4, <3>5, <3>6 DEF Step
  <2>2. req' = req \/ (pc[h] \in {"idle", "reply"} /\ \E r : req' = [req EXCEPT ![h] = r])
    BY ZenonT(60), <1>3 DEF Step, Receive, LoadAdmissionControllerConfig, LoadConstraints,
                CheckConstraint, Accumulate, GetMIP, PutMIP, Respond
  <2>3. \A g \in Handlers : pc'[g] = "eventPut" => pc[g] = "eventPut" /\ req'[g] = req[g]
    BY Zenon, <1>2, <2>1, <2>2
  <2> QED
    BY Zenon, <2>1, <2>3, EventElsewhere
<1>4. ASSUME Environment PROVE EventParts'
  <2>1. CASE \E o \in Objects : ExpireEvent(o)
    BY <2>1, EventExpires, Zenon
  <2>2. CASE UNCHANGED <<event, counted, eventCopy, pc, req>>
    BY Zenon, <2>2, EventElsewhere
  <2> QED
    BY ZenonT(60), <1>4, <2>1, <2>2
       DEF Environment, Timeout, EditConstraint, EditConfigs, store, locals
<1>5. ASSUME UNCHANGED vars PROVE EventParts'
  BY Zenon, <1>5, EventElsewhere DEF vars, store, locals
<1>6. EventParts'
  BY Zenon, <1>3, <1>4, <1>5, EventGet, EventPut DEF Next
<1> QED
  BY <1>1, <1>6, Zenon DEF EventInv, EventParts

\* The Count of every deny Event is the number of times createOrUpdateEvent
\* wrote it: a write that started from an older copy is never accepted.
THEOREM EventExact == Spec => []EventCountIsExact
<1>1. Spec => []EventInv
  BY EventInit, EventNext, PTL DEF Spec
<1> QED
  BY <1>1, PTL DEF EventInv

-----------------------------------------------------------------------------
(* The response of the webhook follows the policy of the constraints *)

\* The results of a handler are those of the policy; before the loop over the
\* constraints there is none, after it the response is the accumulated one.
ResultsFollowPolicy ==
    \A h \in Handlers :
        /\ \A res \in results[h] : ~res.allow <=> \E b \in res.basis : PolicyRefuses(b)
        /\ pc[h] \in {"idle", "config", "list"} => results[h] = {}
        /\ pc[h] \in {"status", "statusPut", "reply"} =>
             (reply[h] = "deny" <=>
                ~ac[h].detect /\ \E res \in results[h] : ~res.allow)

PolicyInv == Typed /\ ResultsFollowPolicy

\* No handler has results yet.
LEMMA PolicyInit == Init => PolicyInv
BY ZenonT(60), TypedInit DEF Init, PolicyInv, ResultsFollowPolicy

\* Handlers that are not at the step taken keep what the invariant says of them.
LEMMA PolicyElsewhere ==
    ASSUME PolicyInv, UNCHANGED <<results, reply, ac>>,
           \A g \in Handlers :
              \/ pc'[g] = pc[g]
              \/ pc'[g] \in {"eventGet", "eventPut", "check"}
              \/ /\ pc[g] \in {"status", "statusPut"}
                 /\ pc'[g] \in {"status", "statusPut", "reply"}
              \/ /\ pc[g] \in {"idle", "config"} /\ pc'[g] \in {"config", "list"}
    PROVE  ResultsFollowPolicy'
BY Zenon DEF PolicyInv, ResultsFollowPolicy

\* CheckConstraint adds a result that follows the policy it was computed from.
LEMMA PolicyChecks ==
    ASSUME PolicyInv, NEW h \in Handlers, CheckConstraint(h)
    PROVE  ResultsFollowPolicy'
<1> DEFINE Follows(res) == ~res.allow <=> \E b \in res.basis : PolicyRefuses(b)
<1>1. /\ results \in [Handlers -> SUBSET Results] /\ pc \in [Handlers -> PCs]
      /\ todo \in [Handlers -> SUBSET [constraint : Constraints, action : Actions]]
      /\ rhConfig \in AllConfigs
  BY Zenon DEF PolicyInv, Typed, TypeOK
<1>2. PICK res :
        /\ Follows(res)
        /\ results' = [results EXCEPT ![h] = @ \union {res}]
        /\ UNCHANGED pc \/ Go(h, "eventGet") \/ Go(h, "check")
  <2>1. PICK t \in todo[h] :
         \/ /\ results' = [results EXCEPT ![h] = @ \union
                 {[constraint |-> t.constraint, allow |-> TRUE, basis |-> {}]}]
            /\ UNCHANGED pc
         \/ \E facts \in Facts, config \in OrFailed(rhConfig, {LoadError, NilResult}) :
              /\ results' = [results EXCEPT ![h] = @ \union
                   {[constraint |-> t.constraint,
                     allow |-> Handle(facts, t.action, config).allow,
                     basis |-> {[facts |-> facts, action |-> t.action, config |-> config]}]}]
              /\ Go(h, IF Handle(facts, t.action, config).report THEN "eventGet" ELSE "check")
    BY ZenonT(60) DEF CheckConstraint
  <2>2. CASE /\ results' = [results EXCEPT ![h] = @ \union
                 {[constraint |-> t.constraint, allow |-> TRUE, basis |-> {}]}]
             /\ UNCHANGED pc
    <3>1. Follows([constraint |-> t.constraint, allow |-> TRUE, basis |-> {}])
      BY Zenon
    <3> QED
      BY ZenonT(60), <2>2, <3>1
  <2>3. ASSUME NEW facts \in Facts,
               NEW config \in OrFailed(rhConfig, {LoadError, NilResult}),
               results' = [results EXCEPT ![h] = @ \union
                   {[constraint |-> t.constraint,
                     allow |-> Handle(facts, t.action, config).allow,
                     basis |-> {[facts |-> facts, action |-> t.action, config |-> config]}]}],
               Go(h, IF Handle(facts, t.action, config).report THEN "eventGet" ELSE "check")
        PROVE  \E res :
                 /\ Follows(res)
                 /\ results' = [results EXCEPT ![h] = @ \union {res}]
                 /\ UNCHANGED pc \/ Go(h, "eventGet") \/ Go(h, "check")
    <3> DEFINE b == [facts |-> facts, action |-> t.action, config |-> config]
    <3>1. config \in AllConfigs
      BY Zenon, <1>1, ConfigTypes DEF OrFailed
    <3>2. ~Handle(facts, t.action, config).allow <=> PolicyRefuses(b)
      BY SMTT(60), <1>1, <3>1, HandleIsPolicy, AdmissionAssumption
    <3> HIDE DEF b
    <3>3. Follows([constraint |-> t.constraint,
                   allow |-> Handle(facts, t.action, config).allow, basis |-> {b}])
      BY Zenon, <3>2
    <3>4. Go(h, "eventGet") \/ Go(h, "check")
      BY ZenonT(60), <2>3
    <3> QED
      BY ZenonT(60), <2>3, <3>3, <3>4 DEF b
  <2> QED
    BY ZenonT(60), <2>1, <2>2, <2>3
<1>3. UNCHANGED <<reply, ac>> /\ pc[h] = "check"
  BY ZenonT(60) DEF CheckConstraint
<1>4. /\ \A g \in Handlers : g # h => pc'[g] = pc[g] /\ results'[g] = results[g]
      /\ pc'[h] \in {"eventGet", "check"}
      /\ results'[h] = results[h] \union {res}
  BY Zenon, <1>1, <1>2, <1>3 DEF Go
<1> QED
  BY SMTT(60), <1>2, <1>3, <1>4 DEF PolicyInv, ResultsFollowPolicy

\* Every step preserves that the results follow the policy.
LEMMA PolicyNext == PolicyInv /\ [Next]_vars => PolicyInv'
<1> SUFFICES ASSUME PolicyInv, [Next]_vars PROVE PolicyInv'
  OBVIOUS
<1>1. Typed'
  BY TypedNext, Zenon DEF PolicyInv
<1>2. /\ pc \in [Handlers -> PCs] /\ results \in [Handlers -> SUBSET Results]
      /\ reply \in [Handlers -> {"none", "allow", "deny", "abort"}]
      /\ ac \in [Handlers -> ACConfigs]
  BY Zenon DEF PolicyInv, Typed, TypeOK
<1>3. ASSUME NEW h \in Handlers, Receive(h) \/ LoadConstraints(h)
      PROVE  ResultsFollowPolicy'
  BY ZenonT(60), <1>2, <1>3, PolicyElsewhere DEF Receive, LoadConstraints, Go
<1>4. ASSUME NEW h \in Handlers, LoadAdmissionControllerConfig(h)
      PROVE  ResultsFollowPolicy'
  <2>1. /\ pc[h] = "config" /\ UNCHANGED results
        /\ \E config : ac' = [ac EXCEPT ![h] = config]
        /\ \/ Answering(h, "allow") \/ Answering(h, "abort")
           \/ Go(h, "list") /\ UNCHANGED reply
    BY ZenonT(60), <1>4 DEF LoadAdmissionControllerConfig
  <2>2. results[h] = {}
    BY Zenon, <2>1 DEF PolicyInv, ResultsFollowPolicy
  <2>3. /\ \A g \in Handlers : g # h => pc'[g] = pc[g] /\ reply'[g] = reply[g] /\ ac'[g] = ac[g]
        /\ pc'[h] = "list" \/ reply'[h] # "deny"
        /\ pc'[h] \in {"list", "reply"}
    BY Zenon, <1>2, <2>1 DEF Answering, Go
  <2> QED
    BY ZenonT(60), <2>1, <2>2, <2>3 DEF PolicyInv, ResultsFollowPolicy
<1>5. ASSUME NEW h \in Handlers, GetEvent(h) \/ PutEvent(h) PROVE ResultsFollowPolicy'
  BY ZenonT(60), <1>2, <1>5, PolicyElsewhere DEF GetEvent, PutEvent, Go
<1>6. ASSUME NEW h \in Handlers, Accumulate(h) PROVE ResultsFollowPolicy'
  <2>1. /\ UNCHANGED <<results, ac>> /\ reply' = [reply EXCEPT ![h] = getAccumulatedResult(h)]
        /\ Go(h, AfterStatus(denied'[h])) /\ pc[h] = "check"
    BY ZenonT(60), <1>6 DEF Accumulate
  <2>2. getAccumulatedResult(h) = "deny"
          <=> ~ac[h].detect /\ \E res \in results[h] : ~res.allow
    BY Zenon DEF getAccumulatedResult, DeniedBy
  <2>3. /\ \A g \in Handlers : g # h => pc'[g] = pc[g] /\ reply'[g] = reply[g]
        /\ reply'[h] = getAccumulatedResult(h)
        /\ pc'[h] \in {"status", "reply"}
    BY Zenon, <1>2, <2>1 DEF Go, AfterStatus
  <2> QED
    BY SMTT(60), <2>1, <2>2, <2>3 DEF PolicyInv, ResultsFollowPolicy
<1>7. ASSUME NEW h \in Handlers, GetMIP(h) \/ PutMIP(h) PROVE ResultsFollowPolicy'
  <2>1. /\ UNCHANGED <<results, reply, ac>> /\ pc[h] \in {"status", "statusPut"}
        /\ \/ Go(h, "statusPut") \/ Go(h, "status") \/ Go(h, "reply")
    BY ZenonT(60), <1>7 DEF GetMIP, PutMIP, AfterStatus
  <2> QED
    BY Zenon, <1>2, <2>1, PolicyElsewhere DEF Go
<1>8. ASSUME NEW h \in Handlers, Respond(h) PROVE ResultsFollowPolicy'
  <2>1. /\ pc' = [pc EXCEPT ![h] = "idle"] /\ results' = [results EXCEPT ![h] = {}]
        /\ reply' = [reply EXCEPT ![h] = "none"] /\ ac' = [ac EXCEPT ![h] = NoConfig]
    BY Zenon, <1>8 DEF Respond, Go
  <2>2. /\ \A g \in Handlers : g # h => pc'[g] = pc[g] /\ reply'[g] = reply[g]
                                      /\ results'[g] = results[g] /\ ac'[g] = ac[g]
        /\ pc'[h] = "idle" /\ results'[h] = {}
    BY Zenon, <1>2, <2>1
  <2> QED
    BY ZenonT(60), <2>2 DEF PolicyInv, ResultsFollowPolicy
<1>9. ASSUME Environment \/ UNCHANGED vars PROVE ResultsFollowPolicy'
  <2>1. UNCHANGED <<results, reply, ac, pc>>
    BY ZenonT(60), <1>9 DEF Environment, Timeout, EditConstraint, EditConfigs, ExpireEvent, locals, vars
  <2> QED
    BY Zenon, <2>1, PolicyElsewhere
<1>10. ResultsFollowPolicy'
  BY Zenon, <1>3, <1>4, <1>5, <1>6, <1>7, <1>8, <1>9, PolicyChecks DEF Next, Step
<1> QED
  BY <1>1, <1>10, Zenon DEF PolicyInv

\* ProcessRequest answers "deny" exactly when the mode is not detect and some
\* matching constraint refuses under its policy, for every combination of what
\* the matchers and the signature libraries answer.
THEOREM ReplyCorrect == Spec => []ReplyMatchesPolicy
<1>1. Spec => []PolicyInv
  BY PolicyInit, PolicyNext, PTL DEF Spec
<1>2. PolicyInv => ReplyMatchesPolicy
  BY Zenon DEF PolicyInv, ResultsFollowPolicy, ReplyMatchesPolicy
<1> QED
  BY <1>1, <1>2, PTL
-----------------------------------------------------------------------------
(* A refusal can be seen *)

\* Every configuration asks for deny Events, and no mutation check fails: a
\* refusal on account of a failed one is an early return that reports nothing.
Reported ==
    /\ \A config \in Configs : config.load # "error" => EffectiveConfig(config).denyEvent
    /\ \A facts \in Facts : facts.mutation # "error"

\* A refused request has its Event, or its handler is about to write it; an
\* Event that was read is still there.
ReadIsThere ==
    \A h \in Handlers : pc[h] = "eventPut" /\ eventCopy[h].live =>
        event[ObjectOf[req[h]]].live

RefusedIsSeen ==
    \A c \in Constraints : \A r \in refused[c] :
        \/ event[ObjectOf[r]].live
        \/ \E h \in Handlers : req[h] = r /\ pc[h] \in {"eventGet", "eventPut"}

EventsComing == rhConfig \in Configs /\ ReadIsThere /\ RefusedIsSeen

VisibleInv == Typed /\ (~ApiFaults /\ edits = 0 => EventsComing)

\* What RequestHandler refuses, it reports.
LEMMA RefusalReported ==
    ASSUME Reported, NEW facts \in Facts, NEW action \in Actions, NEW config \in Configs,
           ~Handle(facts, action, config).allow
    PROVE  Handle(facts, action, config).report
<1>1. facts.mutation # "error"
  BY Zenon DEF Reported
<1>2. CASE ~facts.parsed \/ config.load = "error"
  BY ZenonT(60), <1>2 DEF Handle, makeResultFromRequestHandler
<1>3. CASE facts.mutation = "unchanged" /\ facts.parsed /\ config.load # "error"
  BY ZenonT(60), <1>3 DEF Handle, makeResultFromRequestHandler
<1>4. CASE facts.mutation # "unchanged" /\ facts.parsed /\ config.load # "error"
  <2>1. EffectiveConfig(config).denyEvent
    BY <1>4, Zenon DEF Reported
  <2> HIDE DEF EffectiveConfig
  <2> QED
    BY ZenonT(60), <1>1, <1>4, <2>1 DEF Handle
<1> QED
  BY <1>2, <1>3, <1>4, Zenon

\* A step that writes no Event and refuses nothing, and leaves the handlers alone
\* that are about to write one.
LEMMA VisibleElsewhere ==
    ASSUME EventsComing, UNCHANGED <<event, refused, rhConfig>>,
           \A g \in Handlers : pc'[g] = "eventPut" =>
               pc[g] = "eventPut" /\ eventCopy'[g] = eventCopy[g] /\ req'[g] = req[g],
           \A g \in Handlers : pc[g] \in {"eventGet", "eventPut"} =>
               pc'[g] = pc[g] /\ req'[g] = req[g]
    PROVE  EventsComing'
<1>1. ReadIsThere'
  BY Zenon DEF EventsComing, ReadIsThere
<1>2. ASSUME NEW c \in Constraints, NEW r \in refused[c], ~event[ObjectOf[r]].live
      PROVE  \E h \in Handlers : req'[h] = r /\ pc'[h] \in {"eventGet", "eventPut"}
  <2>1. PICK h \in Handlers : req[h] = r /\ pc[h] \in {"eventGet", "eventPut"}
    BY <1>2, Zenon DEF EventsComing, RefusedIsSeen
  <2> QED
    BY <2>1, Zenon
<1>3. RefusedIsSeen'
  BY SMTT(60), <1>2 DEF RefusedIsSeen
<1> QED
  BY <1>1, <1>3, Zenon DEF EventsComing

\* CheckConstraint goes on to the Event of what it refuses.
LEMMA VisibleChecks ==
    ASSUME Reported, Typed, ~ApiFaults, EventsComing, NEW h \in Handlers, CheckConstraint(h)
    PROVE  EventsComing'
<1>1. /\ pc \in [Handlers -> PCs] /\ pc[h] = "check"
      /\ refused \in [Constraints -> SUBSET Requests]
      /\ todo[h] \in SUBSET [constraint : Constraints, action : Actions]
  <2>1. pc[h] = "check"
    BY ZenonT(60) DEF CheckConstraint
  <2>2. /\ pc \in [Handlers -> PCs] /\ refused \in [Constraints -> SUBSET Requests]
        /\ todo \in [Handlers -> SUBSET [constraint : Constraints, action : Actions]]
    BY ZenonT(60) DEF Typed, TypeOK
  <2> QED
    BY ZenonT(60), <2>1, <2>2
<1>2. UNCHANGED <<event, rhConfig, eventCopy, req>>
  BY ZenonT(60) DEF CheckConstraint, configs
<1>3. CASE UNCHANGED <<refused, pc>>
  BY Zenon, <1>2, <1>3, VisibleElsewhere
<1>4. CASE UNCHANGED refused /\ \E label \in {"eventGet", "check"} : pc' = [pc EXCEPT ![h] = label]
  <2>1. \A g \in Handlers : /\ pc'[g] = "eventPut" => pc[g] = "eventPut"
                            /\ pc[g] \in {"eventGet", "eventPut"} => pc'[g] = pc[g]
    BY Zenon, <1>1, <1>4
  <2> QED
    BY Zenon, <1>2, <1>4, <2>1, VisibleElsewhere
<1>5. ASSUME NEW d \in Constraints, pc' = [pc EXCEPT ![h] = "eventGet"],
             refused' = [refused EXCEPT ![d] = @ \union {req[h]}]
      PROVE  EventsComing'
  <2>1. /\ pc'[h] = "eventGet"
        /\ \A g \in Handlers : /\ pc'[g] = "eventPut" => pc[g] = "eventPut"
                               /\ pc[g] \in {"eventGet", "eventPut"} => pc'[g] = pc[g]
    BY Zenon, <1>1, <1>5
  <2>2. \A c \in Constraints : \A r \in refused'[c] : r \in refused[c] \/ r = req[h]
    BY Zenon, <1>1, <1>5
  <2>3. \A c \in Constraints : \A r \in refused'[c] :
          \/ event[ObjectOf[r]].live
          \/ \E g \in Handlers : req[g] = r /\ pc'[g] \in {"eventGet", "eventPut"}
    BY ZenonT(60), <2>1, <2>2 DEF EventsComing, RefusedIsSeen
  <2>4. ReadIsThere'
    BY Zenon, <1>2, <2>1 DEF EventsComing, ReadIsThere
  <2>5. RefusedIsSeen'
    BY Zenon, <1>2, <2>3 DEF RefusedIsSeen
  <2> QED
    BY Zenon, <1>2, <2>4, <2>5 DEF EventsComing
<1>6. CASE ~UNCHANGED <<refused, pc>>
  <2>1. PICK t \in todo[h], facts \in Facts :
          LET verdict == Handle(facts, t.action, rhConfig) IN
          /\ refused' = IF verdict.allow THEN refused
               ELSE [refused EXCEPT ![t.constraint] = @ \union {req[h]}]
          /\ pc' = [pc EXCEPT ![h] = IF verdict.report THEN "eventGet" ELSE "check"]
    BY ZenonT(60), <1>6 DEF CheckConstraint, OrFailed, Go
  <2>2. t.constraint \in Constraints /\ t.action \in Actions /\ rhConfig \in Configs
    BY Zenon, <1>1 DEF EventsComing
  <2> DEFINE verdict == Handle(facts, t.action, rhConfig)
  <2>3. CASE verdict.allow
    <3>1. UNCHANGED refused
      BY ZenonT(60), <2>1, <2>3
    <3> QED
      BY ZenonT(60), <1>4, <2>1, <3>1
  <2>4. CASE ~verdict.allow
    <3>1. verdict.report
      BY <2>2, <2>4, RefusalReported, Zenon
    <3> QED
      BY ZenonT(60), <1>5, <2>1, <2>2, <2>4, <3>1
  <2> QED
    BY <2>3, <2>4, Zenon
<1> QED
  BY ZenonT(60), <1>3, <1>6

\* GetEvent finds the Event that is there.
LEMMA VisibleGets ==
    ASSUME Typed, ~ApiFaults, EventsComing, NEW h \in Handlers, GetEvent(h)
    PROVE  EventsComing'
<1>1. pc \in [Handlers -> PCs] /\ eventCopy \in [Handlers -> Events]
  BY ZenonT(60) DEF Typed, TypeOK
<1>2. UNCHANGED <<event, refused, rhConfig, req>> /\ pc' = [pc EXCEPT ![h] = "eventPut"]
  BY ZenonT(60) DEF GetEvent, store, configs, Go
<1>3. \/ /\ event[ObjectOf[req[h]]].live
         /\ eventCopy' = [eventCopy EXCEPT ![h] = event[ObjectOf[req[h]]]]
      \/ eventCopy' = [eventCopy EXCEPT ![h] = NoEvent]
  BY ZenonT(60) DEF GetEvent, OrFailed
<1>4. /\ \A g \in Handlers : g # h => pc'[g] = pc[g] /\ eventCopy'[g] = eventCopy[g]
      /\ pc'[h] = "eventPut"
  BY Zenon, <1>1, <1>2, <1>3
<1>5. eventCopy'[h].live => event[ObjectOf[req[h]]].live
  BY SMTT(60), <1>1, <1>3 DEF NoEvent, GoneEvent
<1>6. ReadIsThere'
  BY Zenon, <1>2, <1>4, <1>5 DEF EventsComing, ReadIsThere
<1>7. \A g \in Handlers : pc[g] \in {"eventGet", "eventPut"} => pc'[g] \in {"eventGet", "eventPut"}
  BY Zenon, <1>4
<1>8. \A c \in Constraints : \A r \in refused[c] :
         \/ event[ObjectOf[r]].live
         \/ \E g \in Handlers : req[g] = r /\ pc'[g] \in {"eventGet", "eventPut"}
  BY ZenonT(60), <1>7 DEF EventsComing, RefusedIsSeen
<1>9. RefusedIsSeen'
  BY SMTT(60), <1>2, <1>8 DEF RefusedIsSeen
<1> QED
  BY <1>2, <1>6, <1>9, Zenon DEF EventsComing

\* After PutEvent the Event is there: it was written, or the write was rejected
\* because another handler had written it.
LEMMA VisiblePuts ==
    ASSUME Typed, ~ApiFaults, EventsComing, NEW h \in Handlers, PutEvent(h)
    PROVE  EventsComing'
<1> DEFINE o == ObjectOf[req[h]]
<1>1. /\ event \in [Objects -> Events] /\ eventCopy \in [Handlers -> Events]
      /\ pc \in [Handlers -> PCs] /\ pc[h] = "eventPut" /\ o \in Objects
  BY SMTT(60), AdmissionAssumption DEF Typed, TypeOK, Working, PutEvent
<1>2. /\ pc' = [pc EXCEPT ![h] = "check"] /\ UNCHANGED <<req, refused, rhConfig>>
      /\ eventCopy' = [eventCopy EXCEPT ![h] = NoEvent]
  BY ZenonT(60) DEF PutEvent, configs, Go
<1>3. \/ event' = [event EXCEPT ![o] =
            [live |-> TRUE, rv |-> @.rv + 1, count |-> eventCopy[h].count + 1]]
      \/ UNCHANGED event /\ ~EventWritable(event[o], eventCopy[h])
  BY ZenonT(60) DEF PutEvent
<1>4. event'[o].live /\ \A x \in Objects : event[x].live => event'[x].live
  <2>1. CASE UNCHANGED event /\ ~EventWritable(event[o], eventCopy[h])
    BY Zenon, <1>1, <2>1 DEF EventWritable, EventsComing, ReadIsThere
  <2>2. CASE event' = [event EXCEPT ![o] =
               [live |-> TRUE, rv |-> @.rv + 1, count |-> eventCopy[h].count + 1]]
    BY Zenon, <1>1, <2>2
  <2> QED
    BY Zenon, <1>3, <2>1, <2>2
<1>5. \A g \in Handlers :
        /\ pc'[g] = "eventPut" => g # h /\ pc[g] = "eventPut" /\ eventCopy'[g] = eventCopy[g]
        /\ g # h => pc'[g] = pc[g]
  BY Zenon, <1>1, <1>2
<1>6. \A g \in Handlers : pc[g] = "eventPut" => ObjectOf[req[g]] \in Objects
  BY Zenon, AdmissionAssumption DEF Typed, Working
<1>7. ReadIsThere'
  BY Zenon, <1>2, <1>4, <1>5, <1>6 DEF EventsComing, ReadIsThere
<1>8. \A c \in Constraints : \A r \in refused[c] : ObjectOf[r] \in Objects
  BY Zenon, AdmissionAssumption DEF Typed, TypeOK
<1>9. ASSUME NEW c \in Constraints, NEW r \in refused[c]
      PROVE  \/ event'[ObjectOf[r]].live
             \/ \E g \in Handlers : req[g] = r /\ pc'[g] \in {"eventGet", "eventPut"}
  <2>1. CASE event[ObjectOf[r]].live
    BY Zenon, <1>4, <1>8, <2>1
  <2>2. CASE ~event[ObjectOf[r]].live
    <3>1. PICK g \in Handlers : req[g] = r /\ pc[g] \in {"eventGet", "eventPut"}
      BY Zenon, <2>2 DEF EventsComing, RefusedIsSeen
    <3>2. CASE g = h
      BY Zenon, <1>4, <3>1, <3>2
    <3>3. CASE g # h
      BY Zenon, <1>5, <3>1, <3>3
    <3> QED
      BY <3>2, <3>3, Zenon
  <2> QED
    BY <2>1, <2>2, Zenon
<1>10. RefusedIsSeen'
  BY SMTT(60), <1>2, <1>9 DEF RefusedIsSeen
<1> QED
  BY <1>2, <1>7, <1>10, Zenon DEF EventsComing

\* Every step preserves the invariant.  An edit, or the expiry of an Event, ends
\* what it promises.
LEMMA VisibleNext ==
    ASSUME Reported, VisibleInv, [Next]_vars
    PROVE  VisibleInv'
<1>1. Typed /\ Typed'
  BY TypedNext, Zenon DEF VisibleInv
<1> SUFFICES ASSUME ~ApiFaults, edits' = 0
             PROVE  EventsComing'
  BY Zenon, <1>1 DEF VisibleInv
<1>2. edits \in Nat /\ pc \in [Handlers -> PCs]
  BY Zenon, <1>1 DEF Typed, TypeOK
<1>3. ~Edit
  BY SMTT(60), <1>2 DEF Edit
<1>4. \/ \E h \in Handlers : Step(h)
      \/ \E r \in Requests : Timeout(r)
      \/ UNCHANGED vars
  BY ZenonT(60), <1>3 DEF Next, Environment, EditConstraint, EditConfigs, ExpireEvent
<1>5. edits = 0
  BY ZenonT(60), <1>4 DEF Step, Receive, LoadAdmissionControllerConfig, LoadConstraints,
     CheckConstraint, GetEvent, PutEvent, Accumulate, GetMIP, PutMIP, Respond, Timeout, vars,
     configs
<1>6. EventsComing
  BY <1>5, Zenon DEF VisibleInv
<1>7. CASE UNCHANGED <<event, refused, rhConfig, eventCopy, pc, req>>
  BY Zenon, <1>6, <1>7, VisibleElsewhere
<1>8. ASSUME NEW h \in Handlers, Step(h), ~CheckConstraint(h), ~GetEvent(h), ~PutEvent(h)
      PROVE  EventsComing'
  <2>1. /\ UNCHANGED <<event, refused, rhConfig, eventCopy>>
        /\ pc[h] \in PCs \ {"eventGet", "eventPut"}
        /\ \E label \in PCs \ {"eventPut"} : pc' = [pc EXCEPT ![h] = label]
    <3>1. CASE Receive(h)
      BY ZenonT(60), <3>1 DEF Receive, store, configs, Go, PCs
    <3>2. CASE LoadAdmissionControllerConfig(h)
      BY Zenon, <3>2 DEF LoadAdmissionControllerConfig, store, configs, Go, Answering, PCs
    <3>3. CASE LoadConstraints(h)
      BY ZenonT(60), <3>3 DEF LoadConstraints, store, configs, Go, PCs
    <3>4. CASE Accumulate(h) \/ GetMIP(h) \/ PutMIP(h)
      BY ZenonT(60), <3>4 DEF Accumulate, GetMIP, PutMIP, AfterStatus, store, configs, Go, PCs
    <3>5. CASE Respond(h)
      BY ZenonT(60), <3>5 DEF Respond, store, configs, Go, PCs
    <3> QED
      BY Zenon, <1>8, <3>1, <3>2, <3>3, <3>4, <3>5 DEF Step
  <2>2. \E r : req' = [req EXCEPT ![h] = r] \/ req' = req
    BY ZenonT(60), <1>8 DEF Step, Receive, LoadAdmissionControllerConfig, LoadConstraints,
       Accumulate, GetMIP, PutMIP, Respond
  <2>3. req \in [Handlers -> Requests \union {NoRequest}]
    BY Zenon, <1>1 DEF Typed, TypeOK
  <2>4. \A g \in Handlers : g # h => pc'[g] = pc[g] /\ req'[g] = req[g]
    <3>1. PICK r : req' = [req EXCEPT ![h] = r] \/ req' = req
      BY ZenonT(60), <2>2
    <3>2. \A g \in Handlers : g # h => req'[g] = req[g]
      BY Zenon, <2>3, <3>1
    <3>3. \A g \in Handlers : g # h => pc'[g] = pc[g]
      BY Zenon, <1>2, <2>1
    <3> QED
      BY <3>2, <3>3, Zenon
  <2>5. pc'[h] # "eventPut"
    BY Zenon, <1>2, <2>1
  <2>6. \A g \in Handlers :
          /\ pc'[g] = "eventPut" => pc[g] = "eventPut" /\ req'[g] = req[g]
          /\ pc[g] \in {"eventGet", "eventPut"} => pc'[g] = pc[g] /\ req'[g] = req[g]
    BY Zenon, <2>1, <2>4, <2>5
  <2> QED
    BY Zenon, <1>6, <2>1, <2>6, VisibleElsewhere
<1>9. ASSUME NEW h \in Handlers, Step(h)
      PROVE  EventsComing'
  BY <1>1, <1>6, <1>8, <1>9, VisibleChecks, VisibleGets, VisiblePuts, Zenon
<1> QED
  BY ZenonT(60), <1>4, <1>7, <1>9 DEF Timeout, store, configs, locals, vars

\* If every configuration asks for deny Events and no mutation check fails, a
\* refused request can be seen as an Event about its object once its handler is
\* done, however the handlers race on that Event, as long as no API call fails
\* and nothing is edited or expires.
THEOREM RefusalsVisible == Reported => (Spec => []RefusalIsVisible)
<1> SUFFICES ASSUME Reported
             PROVE  Spec => []RefusalIsVisible
  BY Zenon
<1>1. Init => VisibleInv
  <2> SUFFICES ASSUME Init
               PROVE  VisibleInv
    BY Zenon
  <2>1. EventsComing
    BY ZenonT(60) DEF Init, EventsComing, ReadIsThere, RefusedIsSeen
  <2> QED
    BY <2>1, TypedInit, Zenon DEF VisibleInv
<1>2. VisibleInv /\ [Next]_vars => VisibleInv'
  BY VisibleNext, Zenon
<1>3. VisibleInv => RefusalIsVisible
  BY ZenonT(60) DEF VisibleInv, EventsComing, RefusedIsSeen, RefusalIsVisible
<1> QED
  BY <1>1, <1>2, <1>3, PTL DEF Spec
=============================================================================
