---------------------- MODULE AdmissionContractProofs -----------------------
(***************************************************************************)
(* The admission controller implements its contract.  First who has been   *)
(* refused, noted and answered: the facts about every handler that make each *)
(* refusal be noted at most once.  Then every step of Admission is a step of *)
(* Enforcement, seen through AdmissionContract, or changes nothing the     *)
(* contract speaks of.                                                     *)
(***************************************************************************)
EXTENDS AdmissionContract, AdmissionProofs

-----------------------------------------------------------------------------
(* Logs *)

\* A write adds its request to those that are noted.
LEMMA NotedPrepend ==
    ASSUME NEW S, NEW log \in Seq(S), NEW r \in S
    PROVE  /\ NotedIn(<<r>> \o log) = NotedIn(log) \union {r}
           /\ NotedIn(<<>>) = {}
<1> DEFINE all == <<r>> \o log
<1>1. /\ <<r>> \in Seq(S) /\ Len(<<r>>) = 1 /\ <<r>>[1] = r
      /\ Len(log) \in Nat /\ DOMAIN log = 1..Len(log)
  OBVIOUS
<1>2. /\ all \in Seq(S) /\ Len(all) = 1 + Len(log) /\ DOMAIN all = 1..(1 + Len(log))
      /\ all[1] = r /\ \A k \in 1..Len(log) : all[k + 1] = log[k]
  BY <1>1
<1> HIDE DEF all
<1>3. NotedIn(all) \subseteq NotedIn(log) \union {r}
  <2> SUFFICES ASSUME NEW k \in DOMAIN all PROVE all[k] \in NotedIn(log) \union {r}
    BY Zenon DEF NotedIn
  <2>1. CASE k = 1
    BY <1>2, <2>1, Zenon
  <2>2. CASE k # 1
    <3>1. k - 1 \in 1..Len(log) /\ all[(k - 1) + 1] = log[k - 1] /\ (k - 1) + 1 = k
      BY <1>1, <1>2, <2>2
    <3> QED
      BY <1>1, <3>1, Zenon DEF NotedIn
  <2> QED
    BY <2>1, <2>2, Zenon
<1>4. r \in NotedIn(all)
  <2>1. 1 \in DOMAIN all
    BY <1>1, <1>2
  <2> QED
    BY <1>2, <2>1, Zenon DEF NotedIn
<1>5. NotedIn(log) \subseteq NotedIn(all)
  <2> SUFFICES ASSUME NEW k \in DOMAIN log PROVE log[k] \in NotedIn(all)
    BY Zenon DEF NotedIn
  <2>1. k + 1 \in DOMAIN all /\ all[k + 1] = log[k]
    BY <1>1, <1>2
  <2> QED
    BY <2>1, Zenon DEF NotedIn
<1>6. NotedIn(<<>>) = {}
  BY DEF NotedIn
<1> QED
  BY <1>3, <1>4, <1>5, <1>6, Zenon DEF all

\* A log without repetitions has none after a request that is not in it is added.
LEMMA OncePrepend ==
    ASSUME NEW S, NEW log \in Seq(S), NEW r \in S, r \notin NotedIn(log),
           \A i, j \in DOMAIN log : log[i] = log[j] => i = j
    PROVE  LET all == <<r>> \o log IN \A i, j \in DOMAIN all : all[i] = all[j] => i = j
<1> DEFINE all == <<r>> \o log
<1>1. /\ Len(log) \in Nat /\ DOMAIN log = 1..Len(log) /\ DOMAIN all = 1..(1 + Len(log))
      /\ all[1] = r /\ \A k \in 1..Len(log) : all[k + 1] = log[k]
  OBVIOUS
<1> HIDE DEF all
<1>2. \A k \in DOMAIN all : k = 1 \/ (k - 1 \in DOMAIN log /\ all[k] = log[k - 1])
  <2> SUFFICES ASSUME NEW k \in DOMAIN all, k # 1
               PROVE  k - 1 \in DOMAIN log /\ all[k] = log[k - 1]
    BY Zenon
  <2>1. k - 1 \in 1..Len(log) /\ (k - 1) + 1 = k
    BY <1>1
  <2> QED
    BY <1>1, <2>1, Zenon
<1>3. \A k \in DOMAIN log : log[k] # r
  BY Zenon DEF NotedIn
<1> SUFFICES ASSUME NEW i \in DOMAIN all, NEW j \in DOMAIN all, all[i] = all[j]
             PROVE  i = j
  BY Zenon DEF all
<1>4. CASE i = 1 \/ j = 1
  BY <1>1, <1>2, <1>3, <1>4
<1>5. CASE i # 1 /\ j # 1
  <2>1. i - 1 = j - 1
    BY <1>2, <1>5, Zenon
  <2> QED
    BY <1>1, <2>1
<1> QED
  BY <1>4, <1>5, Zenon

-----------------------------------------------------------------------------
(* The inductive invariant *)

Noted(c) == NotedIn(recorded[c])

\* The steps of ProcessRequest before the status is written.
Deciding == {"config", "list", "check", "eventGet", "eventPut"}

\* Where a handler is tells what has been refused and noted for its request.
Ledger(h) ==
    /\ pc[h] = "idle" => req[h] = NoRequest /\ results[h] = {} /\ reply[h] = "none"
    /\ req[h] \in Requests => answer[req[h]] \in {"none", "timeout"}
    /\ pc[h] \in Deciding => \A c \in Constraints : req[h] \notin Noted(c)
    /\ \A res \in results[h] : ~res.allow => req[h] \in refused[res.constraint]
    /\ pc[h] \notin {"status", "statusPut"} => denied[h] = {}
    /\ \A c \in denied[h] : req[h] \in refused[c] \ Noted(c)
    /\ pc[h] # "statusPut" => mipCopy[h] = {}
    /\ \A copy \in mipCopy[h] : copy.name \in denied[h]
    /\ pc[h] \in {"status", "statusPut", "reply"} => reply[h] # "none"
    /\ reply[h] = "deny" => \E c \in Constraints : req[h] \in refused[c]

\* A request has one handler at most.
OneHandler ==
    \A g, h \in Handlers : req[g] = req[h] /\ req[h] \in Requests => g = h

\* A request that has no handler yet is not noted anywhere.
NotedLate ==
    \A r \in Requests :
        answer[r] = "none" /\ (\A h \in Handlers : req[h] # r) =>
            \A c \in Constraints : r \notin Noted(c)

\* A MIP that is gone takes its status along.
GoneMIPsAreEmpty ==
    \A c \in Constraints : ~mip[c].live =>
        mip[c].denyCount = 0 /\ mip[c].violations = <<>> /\ recorded[c] = <<>>

LedgerParts ==
    /\ \A h \in Handlers : Ledger(h)
    /\ OneHandler /\ NotedLate /\ GoneMIPsAreEmpty /\ StatusNamesRefusals

LedgerInv == StatusInv /\ LedgerParts

\* Nothing is refused, noted or answered at the start.
LEMMA LedgerInit == Init => LedgerInv
<1> SUFFICES ASSUME Init PROVE LedgerInv
  BY Zenon
<1>1. \A c \in Constraints : recorded[c] = <<>> /\ Noted(c) = {}
  BY DEF Init, Noted, NotedIn
<1>2. ASSUME NEW h \in Handlers PROVE Ledger(h)
  <2>1. /\ pc[h] = "idle" /\ req[h] = NoRequest /\ req[h] \notin Requests
        /\ results[h] = {} /\ denied[h] = {} /\ mipCopy[h] = {} /\ reply[h] = "none"
    BY AdmissionAssumption, Zenon DEF Init
  <2> QED
    BY <2>1, Zenon DEF Ledger, Deciding
<1>3. OneHandler /\ NotedLate
  BY Zenon, <1>1, AdmissionAssumption DEF Init, OneHandler, NotedLate
<1>4. GoneMIPsAreEmpty
  BY SMTT(60), <1>1 DEF Init, GoneMIPsAreEmpty, NoMIP, GoneMIP, WithAction
<1>5. StatusNamesRefusals
  BY SMTT(60), <1>1 DEF StatusNamesRefusals
<1> QED
  BY <1>2, <1>3, <1>4, <1>5, StatusInit, Zenon DEF LedgerInv, LedgerParts

\* What a step of one handler leaves alone of another one.
Same(h) ==
    /\ pc'[h] = pc[h] /\ req'[h] = req[h] /\ results'[h] = results[h]
    /\ denied'[h] = denied[h] /\ mipCopy'[h] = mipCopy[h] /\ reply'[h] = reply[h]

\* The other handlers do not notice a step that refuses more and notes nothing
\* of theirs.
LEMMA LedgerElsewhere ==
    ASSUME TypeOK, NEW h \in Handlers, Ledger(h), Same(h),
           \A c \in Constraints : refused[c] \subseteq refused'[c],
           \A c \in Constraints : req[h] \in Noted(c)' => req[h] \in Noted(c),
           req[h] \in Requests => answer'[req[h]] \in {"none", "timeout"}
    PROVE  Ledger(h)'
<1>1. /\ \A res \in results[h] : res.constraint \in Constraints
      /\ denied[h] \subseteq Constraints
  BY DEF TypeOK, Results
<1> QED
  BY Zenon, <1>1 DEF Ledger, Same

\* A step of a handler that writes no status and answers nothing.
LEMMA LedgerLocal ==
    ASSUME LedgerInv, NEW h \in Handlers, UNCHANGED <<mip, recorded, req, answer>>,
           \A g \in Handlers : g # h => Same(g),
           \A c \in Constraints : refused[c] \subseteq refused'[c],
           Ledger(h)'
    PROVE  LedgerParts'
<1>1. \A c \in Constraints : Noted(c)' = Noted(c)
  BY Zenon DEF Noted
<1>2. ASSUME NEW g \in Handlers, g # h PROVE Ledger(g)'
  <2>1. TypeOK /\ Ledger(g) /\ Same(g)
    BY Zenon, <1>2 DEF LedgerInv, LedgerParts, StatusInv, Typed
  <2>2. req[g] \in Requests => answer'[req[g]] \in {"none", "timeout"}
    BY Zenon, <2>1 DEF Ledger
  <2> QED
    BY <1>1, <2>1, <2>2, LedgerElsewhere, Zenon
<1>3. OneHandler' /\ GoneMIPsAreEmpty'
  BY Zenon DEF LedgerInv, LedgerParts, OneHandler, GoneMIPsAreEmpty
<1>4. NotedLate'
  BY <1>1, Zenon DEF LedgerInv, LedgerParts, NotedLate
<1>5. StatusNamesRefusals'
  BY Zenon DEF LedgerInv, LedgerParts, StatusNamesRefusals
<1> QED
  BY Zenon, <1>2, <1>3, <1>4, <1>5 DEF LedgerParts

-----------------------------------------------------------------------------
(* Steps that only change what the handler knows *)

\* The variables of the ledger that a step of h may change only at h.
OnlyAt(h) == \A g \in Handlers : g # h => Same(g)

\* Up to the last constraint nothing is noted, and an early answer is no denial.
LEMMA LedgerDecides ==
    ASSUME LedgerInv, NEW h \in Handlers,
           LoadAdmissionControllerConfig(h) \/ LoadConstraints(h) \/ GetEvent(h) \/ PutEvent(h)
    PROVE  LedgerParts'
<1> DEFINE early == \E r \in {"allow", "abort"} : reply' = [reply EXCEPT ![h] = r]
<1>1. UNCHANGED <<mip, recorded, refused, req, answer, results, denied, mipCopy>>
  BY ZenonT(60) DEF LoadAdmissionControllerConfig, LoadConstraints, GetEvent, PutEvent, store
<1>2. /\ pc \in [Handlers -> PCs] /\ reply \in [Handlers -> {"none", "allow", "deny", "abort"}]
      /\ Ledger(h)
  BY Zenon DEF LedgerInv, LedgerParts, StatusInv, Typed, TypeOK
<1>3. /\ pc[h] \in Deciding
      /\ \/ pc' = [pc EXCEPT ![h] = "reply"] /\ early
         \/ \E p \in Deciding : pc' = [pc EXCEPT ![h] = p] /\ UNCHANGED reply
  <2>1. CASE LoadAdmissionControllerConfig(h)
    BY Zenon, <2>1 DEF LoadAdmissionControllerConfig, Answering, Go, Deciding
  <2>2. CASE LoadConstraints(h) \/ GetEvent(h) \/ PutEvent(h)
    BY ZenonT(60), <2>2 DEF LoadConstraints, GetEvent, PutEvent, Go, Deciding
  <2> QED
    BY <2>1, <2>2, Zenon
<1>4. OnlyAt(h)
  BY Zenon, <1>1, <1>2, <1>3 DEF OnlyAt, Same
<1>5. /\ pc'[h] \in Deciding \union {"reply"}
      /\ reply'[h] = "deny" => reply[h] = "deny"
  BY Zenon, <1>2, <1>3
<1>6. \A c \in Constraints : Noted(c)' = Noted(c)
  BY ZenonT(60), <1>1 DEF Noted
<1>7. Ledger(h)'
  BY ZenonT(60), <1>1, <1>2, <1>3, <1>5, <1>6 DEF Ledger, Deciding
<1> QED
  BY <1>1, <1>4, <1>7, LedgerLocal, Zenon DEF OnlyAt

\* One constraint is checked: a result is added, and a refused one is noted in
\* the ghost of the refusals.
LEMMA CheckShape ==
    ASSUME NEW h \in Handlers, CheckConstraint(h), rhConfig \in AllConfigs,
           pc \in [Handlers -> PCs],
           todo \in [Handlers -> SUBSET [constraint : Constraints, action : Actions]]
    PROVE  \E c \in Constraints, p \in {"check", "eventGet"}, allow \in BOOLEAN : \E basis :
             /\ results' = [results EXCEPT ![h] = @ \union
                              {[constraint |-> c, allow |-> allow, basis |-> basis]}]
             /\ refused' = IF allow THEN refused
                                    ELSE [refused EXCEPT ![c] = @ \union {req[h]}]
             /\ pc' = [pc EXCEPT ![h] = p]
<1> DEFINE basis(t, facts, config) ==
              {[facts |-> facts, action |-> t.action, config |-> config]}
           shape(c, p, allow, b) ==
             /\ results' = [results EXCEPT ![h] = @ \union
                              {[constraint |-> c, allow |-> allow, basis |-> b]}]
             /\ refused' = IF allow THEN refused
                                    ELSE [refused EXCEPT ![c] = @ \union {req[h]}]
             /\ pc' = [pc EXCEPT ![h] = p]
           verdict(t, facts, config) == Handle(facts, t.action, config)
           next(t, facts, config) ==
              IF verdict(t, facts, config).report THEN "eventGet" ELSE "check"
<1>1. PICK t \in todo[h] :
         \/ /\ results' = [results EXCEPT ![h] = @ \union
                             {[constraint |-> t.constraint, allow |-> TRUE, basis |-> {}]}]
            /\ UNCHANGED <<refused, pc>>
         \/ \E facts \in Facts, config \in OrFailed(rhConfig, {LoadError, NilResult}) :
              shape(t.constraint, next(t, facts, config), verdict(t, facts, config).allow,
                    basis(t, facts, config))
  BY ZenonT(60) DEF CheckConstraint, Go
<1>2. t.constraint \in Constraints /\ t.action \in Actions
  OBVIOUS
<1>3. ASSUME results' = [results EXCEPT ![h] = @ \union
                             {[constraint |-> t.constraint, allow |-> TRUE, basis |-> {}]}],
             UNCHANGED <<refused, pc>>
      PROVE  \E c \in Constraints, p \in {"check", "eventGet"}, allow \in BOOLEAN : \E b :
                shape(c, p, allow, b)
  <2>1. pc[h] = "check"
    BY ZenonT(60) DEF CheckConstraint
  <2>2. pc' = [pc EXCEPT ![h] = "check"]
    BY <1>3, <2>1, Zenon
  <2>3. shape(t.constraint, "check", TRUE, {})
    BY ZenonT(60), <1>3, <2>2
  <2> HIDE DEF shape
  <2> QED
    BY ONLY ZenonT(60), <1>2, <2>3
<1>4. ASSUME NEW facts \in Facts, NEW config \in OrFailed(rhConfig, {LoadError, NilResult}),
             shape(t.constraint, next(t, facts, config), verdict(t, facts, config).allow,
                   basis(t, facts, config))
      PROVE  \E c \in Constraints, p \in {"check", "eventGet"}, allow \in BOOLEAN : \E b :
                shape(c, p, allow, b)
  <2>1. config \in AllConfigs
    BY ConfigTypes, Zenon DEF OrFailed
  <2>2. verdict(t, facts, config).allow \in BOOLEAN
    BY <1>2, <2>1, HandleType, AdmissionAssumption, Zenon
  <2>3. next(t, facts, config) \in {"check", "eventGet"}
    BY Zenon
  <2> HIDE DEF shape, next, verdict, basis
  <2> QED
    BY ONLY ZenonT(60), <1>2, <1>4, <2>2, <2>3
<1> HIDE DEF shape, next, verdict, basis
<1>5. \E c \in Constraints, p \in {"check", "eventGet"}, allow \in BOOLEAN : \E b :
         shape(c, p, allow, b)
  BY ZenonT(60), <1>1, <1>3, <1>4
<1> QED
  BY ONLY ZenonT(60), <1>5 DEF shape

\* A refused result is in refused.
LEMMA LedgerChecks ==
    ASSUME LedgerInv, NEW h \in Handlers, CheckConstraint(h)
    PROVE  LedgerParts'
<1>1. /\ UNCHANGED <<mip, recorded, req, answer, denied, mipCopy, reply>>
      /\ pc[h] = "check"
  BY ZenonT(60) DEF CheckConstraint
<1>2. /\ pc \in [Handlers -> PCs] /\ results \in [Handlers -> SUBSET Results]
      /\ refused \in [Constraints -> SUBSET Requests] /\ rhConfig \in AllConfigs
      /\ todo \in [Handlers -> SUBSET [constraint : Constraints, action : Actions]]
      /\ Ledger(h)
  BY ConfigTypes, AdmissionAssumption, Zenon DEF LedgerInv, LedgerParts, StatusInv, Typed, TypeOK
<1>3. PICK c \in Constraints, p \in {"check", "eventGet"}, allow \in BOOLEAN : \E basis :
        /\ results' = [results EXCEPT ![h] = @ \union
                         {[constraint |-> c, allow |-> allow, basis |-> basis]}]
        /\ refused' = IF allow THEN refused ELSE [refused EXCEPT ![c] = @ \union {req[h]}]
        /\ pc' = [pc EXCEPT ![h] = p]
  BY ZenonT(60), <1>2, CheckShape
<1>4. PICK basis :
        results' = [results EXCEPT ![h] = @ \union
                         {[constraint |-> c, allow |-> allow, basis |-> basis]}]
  BY ZenonT(60), <1>3
<1>5. \A d \in Constraints : refused[d] \subseteq refused'[d]
  BY SMTT(60), <1>2, <1>3
<1>6. OnlyAt(h)
  BY Zenon, <1>1, <1>2, <1>3, <1>4 DEF OnlyAt, Same
<1>7. \A d \in Constraints : Noted(d)' = Noted(d)
  BY <1>1, Zenon DEF Noted
<1>8. \A res \in results'[h] : ~res.allow => req[h] \in refused'[res.constraint]
  <2> SUFFICES ASSUME NEW res \in results'[h], ~res.allow
               PROVE  req[h] \in refused'[res.constraint]
    BY Zenon
  <2>1. \/ res \in results[h]
        \/ res = [constraint |-> c, allow |-> allow, basis |-> basis]
    BY Zenon, <1>2, <1>4
  <2>2. CASE res \in results[h]
    BY SMTT(60), <1>2, <1>5, <2>2 DEF Ledger, Results
  <2>3. CASE res = [constraint |-> c, allow |-> allow, basis |-> basis]
    BY SMTT(60), <1>2, <1>3, <2>3
  <2> QED
    BY <2>1, <2>2, <2>3, Zenon
<1>9. Ledger(h)'
  <2>1. pc'[h] \in {"check", "eventGet"} /\ denied[h] = {} /\ mipCopy[h] = {}
    BY Zenon, <1>1, <1>2, <1>3 DEF Ledger
  <2>2. \A d \in Constraints : req[h] \notin Noted(d)
    BY Zenon, <1>1, <1>2 DEF Ledger, Deciding
  <2> QED
    BY Zenon, <1>1, <1>2, <1>5, <1>7, <1>8, <2>1, <2>2 DEF Ledger, Deciding
<1> QED
  BY <1>1, <1>5, <1>6, <1>9, LedgerLocal, Zenon DEF OnlyAt

\* The constraints to note are the ones that refused; a denial has one.
LEMMA LedgerAccumulates ==
    ASSUME LedgerInv, NEW h \in Handlers, Accumulate(h)
    PROVE  LedgerParts'
<1>1. /\ UNCHANGED <<mip, recorded, refused, req, answer, results, mipCopy>>
      /\ pc[h] = "check"
      /\ reply' = [reply EXCEPT ![h] = getAccumulatedResult(h)]
      /\ denied' = [denied EXCEPT ![h] = IF ac[h].updateStatus THEN DeniedBy(h) ELSE {}]
      /\ pc' = [pc EXCEPT ![h] = AfterStatus(denied'[h])]
  BY ZenonT(60) DEF Accumulate, store, Go
<1>2. /\ pc \in [Handlers -> PCs] /\ results \in [Handlers -> SUBSET Results]
      /\ reply \in [Handlers -> {"none", "allow", "deny", "abort"}]
      /\ denied \in [Handlers -> SUBSET Constraints]
      /\ Ledger(h)
  BY Zenon DEF LedgerInv, LedgerParts, StatusInv, Typed, TypeOK
<1>3. \A c \in DeniedBy(h) : c \in Constraints /\ req[h] \in refused[c]
  BY <1>2 DEF DeniedBy, Ledger, Results
<1>4. denied'[h] \subseteq DeniedBy(h) /\ pc'[h] = AfterStatus(denied'[h])
      /\ reply'[h] = getAccumulatedResult(h)
  BY Zenon, <1>1, <1>2
<1>5. /\ pc'[h] \in {"reply", "status"} /\ (pc'[h] = "reply" => denied'[h] = {})
      /\ reply'[h] # "none" /\ (reply'[h] = "deny" => DeniedBy(h) # {})
  BY Zenon, <1>4 DEF AfterStatus, getAccumulatedResult
<1>6. OnlyAt(h)
  BY Zenon, <1>1, <1>2 DEF OnlyAt, Same
<1>7. \A c \in Constraints : Noted(c)' = Noted(c) /\ req[h] \notin Noted(c)
  BY <1>1, <1>2, Zenon DEF Noted, Ledger, Deciding
<1>8. Ledger(h)'
  <2>1. mipCopy[h] = {}
    BY Zenon, <1>1, <1>2 DEF Ledger
  <2>2. \A c \in denied'[h] : req[h] \in refused[c] \ Noted(c)
    BY <1>3, <1>4, <1>7, Zenon
  <2>3. reply'[h] = "deny" => \E c \in Constraints : req[h] \in refused[c]
    BY <1>3, <1>5, Zenon
  <2>4. denied'[h] \subseteq Constraints
    BY <1>3, <1>4, Zenon
  <2> QED
    BY ZenonT(60), <1>1, <1>2, <1>5, <1>7, <2>1, <2>2, <2>3, <2>4 DEF Ledger, Deciding
<1> QED
  BY <1>1, <1>6, <1>8, LedgerLocal, Zenon DEF OnlyAt

\* The copy that is read is of a constraint still to be noted.
LEMMA LedgerReads ==
    ASSUME LedgerInv, NEW h \in Handlers, GetMIP(h)
    PROVE  LedgerParts'
<1>1. /\ UNCHANGED <<mip, recorded, refused, req, answer, results, reply>>
      /\ pc[h] = "status"
  BY ZenonT(60) DEF GetMIP, store
<1>2. /\ pc \in [Handlers -> PCs]
      /\ mipCopy \in [Handlers -> SUBSET [name : Constraints, object : MIPs]]
      /\ denied \in [Handlers -> SUBSET Constraints]
      /\ Ledger(h)
  BY Zenon DEF LedgerInv, LedgerParts, StatusInv, Typed, TypeOK
<1>3. PICK c \in denied[h] :
        \/ /\ mipCopy' = [mipCopy EXCEPT ![h] = {[name |-> c, object |-> mip[c]]}]
           /\ pc' = [pc EXCEPT ![h] = "statusPut"]
           /\ UNCHANGED denied
        \/ /\ denied' = [denied EXCEPT ![h] = @ \ {c}]
           /\ pc' = [pc EXCEPT ![h] = AfterStatus(denied'[h])]
           /\ UNCHANGED mipCopy
  BY ZenonT(60) DEF GetMIP, Go
<1>4. OnlyAt(h)
  BY Zenon, <1>1, <1>2, <1>3 DEF OnlyAt, Same
<1>5. \A d \in Constraints : Noted(d)' = Noted(d)
  BY Zenon, <1>1 DEF Noted
<1>6. /\ denied'[h] \subseteq denied[h] /\ mipCopy[h] = {}
      /\ \/ pc'[h] = "statusPut"
         \/ pc'[h] = AfterStatus(denied'[h]) /\ mipCopy'[h] = {}
      /\ \A copy \in mipCopy'[h] : copy.name \in denied'[h]
  BY SMTT(60), <1>1, <1>2, <1>3 DEF Ledger
<1>7. \/ pc'[h] \in {"status", "statusPut"}
      \/ pc'[h] = "reply" /\ denied'[h] = {}
  BY <1>6, Zenon DEF AfterStatus
<1>8. pc'[h] # "statusPut" => mipCopy'[h] = {}
  BY Zenon, <1>6
<1>9. Ledger(h)'
  BY ZenonT(60), <1>1, <1>2, <1>5, <1>6, <1>7, <1>8 DEF Ledger, Deciding
<1> QED
  BY <1>1, <1>4, <1>9, LedgerLocal, Zenon DEF OnlyAt

-----------------------------------------------------------------------------
(* The write of the status *)

\* What an accepted write changes, seen from the contract.
LEMMA PutShape ==
    ASSUME LedgerInv, NEW h \in Handlers, PutMIP(h)
    PROVE  \E c \in denied[h] :
             /\ denied' = [denied EXCEPT ![h] = @ \ {c}]
             /\ \/ UNCHANGED <<mip, recorded>>
                \/ /\ mip[c].live
                   /\ mip' = [mip EXCEPT ![c] =
                                Stored(UpdateStatus(mip[c], req[h]), mip[c].rv + 1)]
                   /\ recorded' = [recorded EXCEPT ![c] = <<req[h]>> \o @]
<1>1. PICK copy \in mipCopy[h] :
        /\ \/ /\ MIPWritable(mip[copy.name], copy.object)
              /\ mip' = [mip EXCEPT ![copy.name] =
                   Stored(UpdateStatus(copy.object, req[h]), mip[copy.name].rv + 1)]
              /\ recorded' = [recorded EXCEPT ![copy.name] = <<req[h]>> \o @]
           \/ UNCHANGED <<mip, recorded>>
        /\ denied' = [denied EXCEPT ![h] = @ \ {copy.name}]
  BY ZenonT(60) DEF PutMIP
<1>2. copy.name \in denied[h]
  BY ZenonT(60) DEF LedgerInv, LedgerParts, Ledger
<1>3. MIPWritable(mip[copy.name], copy.object) =>
        mip[copy.name].live /\ copy.object = mip[copy.name]
  BY Zenon DEF MIPWritable, LedgerInv, StatusInv, MIPCopies
<1>4. MIPWritable(mip[copy.name], copy.object) =>
        UpdateStatus(copy.object, req[h]) = UpdateStatus(mip[copy.name], req[h])
  BY <1>3, Zenon
<1> QED
  BY ZenonT(60), <1>1, <1>2, <1>3, <1>4

\* A write notes a refusal that was not noted, for the only handler of the
\* request.
LEMMA LedgerPuts ==
    ASSUME LedgerInv, NEW h \in Handlers, PutMIP(h)
    PROVE  LedgerParts'
<1>1. /\ UNCHANGED <<refused, req, answer, results, reply>>
      /\ pc[h] = "statusPut"
      /\ mipCopy' = [mipCopy EXCEPT ![h] = {}]
      /\ pc' = [pc EXCEPT ![h] = AfterStatus(denied'[h])]
  BY ZenonT(60) DEF PutMIP, Go
<1>2. /\ pc \in [Handlers -> PCs]
      /\ mipCopy \in [Handlers -> SUBSET [name : Constraints, object : MIPs]]
      /\ denied \in [Handlers -> SUBSET Constraints]
      /\ mip \in [Constraints -> MIPs]
      /\ recorded \in [Constraints -> Seq(Requests)]
      /\ req[h] \in Requests
      /\ Ledger(h)
  BY Zenon, <1>1 DEF LedgerInv, LedgerParts, StatusInv, Typed, TypeOK, Working
<1>3. PICK c \in denied[h] :
        /\ denied' = [denied EXCEPT ![h] = @ \ {c}]
        /\ \/ UNCHANGED <<mip, recorded>>
           \/ /\ mip[c].live
              /\ mip' = [mip EXCEPT ![c] =
                           Stored(UpdateStatus(mip[c], req[h]), mip[c].rv + 1)]
              /\ recorded' = [recorded EXCEPT ![c] = <<req[h]>> \o @]
  BY Zenon, PutShape
<1>4. c \in Constraints /\ req[h] \in refused[c] \ Noted(c)
  BY Zenon, <1>2 DEF Ledger
<1>5. OnlyAt(h)
  BY Zenon, <1>1, <1>2, <1>3 DEF OnlyAt, Same
<1>6. \A d \in Constraints : d # c => recorded'[d] = recorded[d] /\ Noted(d)' = Noted(d)
  BY Zenon, <1>2, <1>3 DEF Noted
<1>7. Noted(c)' \subseteq Noted(c) \union {req[h]}
  <2>1. CASE recorded'[c] = recorded[c]
    BY Zenon, <2>1 DEF Noted
  <2>2. CASE recorded'[c] = <<req[h]>> \o recorded[c]
    BY SMTT(60), <1>2, <1>4, <2>2, NotedPrepend DEF Noted
  <2> QED
    BY ZenonT(60), <1>2, <1>3, <1>4, <2>1, <2>2
<1>8. Ledger(h)'
  <2>1. /\ denied'[h] = denied[h] \ {c} /\ mipCopy'[h] = {}
        /\ pc'[h] = AfterStatus(denied'[h])
    BY Zenon, <1>1, <1>2, <1>3
  <2>2. \/ pc'[h] = "status"
        \/ pc'[h] = "reply" /\ denied'[h] = {}
    BY Zenon, <2>1 DEF AfterStatus
  <2>3. \A d \in denied'[h] : req[h] \in refused[d] \ Noted(d)'
    BY ZenonT(60), <1>2, <1>6, <2>1 DEF Ledger
  <2>4. \A d \in denied'[h] : req'[h] \in refused'[d] \ Noted(d)'
    BY <1>1, <2>3, Zenon
  <2> QED
    BY ZenonT(60), <1>1, <1>2, <2>1, <2>2, <2>4 DEF Ledger, Deciding
<1>9. ASSUME NEW g \in Handlers, g # h PROVE Ledger(g)'
  <2>1. TypeOK /\ Ledger(g) /\ Same(g)
    BY <1>5, <1>9, Zenon DEF OnlyAt, LedgerInv, LedgerParts, StatusInv, Typed
  <2>2. req[g] # req[h]
    BY Zenon, <1>2, <1>9 DEF LedgerInv, LedgerParts, OneHandler
  <2>3. \A d \in Constraints : req[g] \in Noted(d)' => req[g] \in Noted(d)
    BY Zenon, <1>6, <1>7, <2>2
  <2>4. req[g] \in Requests => answer'[req[g]] \in {"none", "timeout"}
    BY Zenon, <1>1, <2>1 DEF Ledger
  <2>5. \A d \in Constraints : refused[d] \subseteq refused'[d]
    BY Zenon, <1>1
  <2> QED
    BY Zenon, <2>1, <2>3, <2>4, <2>5, LedgerElsewhere
<1>10. OneHandler'
  BY Zenon, <1>1 DEF LedgerInv, LedgerParts, OneHandler
<1>11. NotedLate'
  BY Zenon, <1>1, <1>6, <1>7 DEF LedgerInv, LedgerParts, NotedLate
<1>12. GoneMIPsAreEmpty'
  <2>1. ASSUME NEW d \in Constraints, ~mip'[d].live
        PROVE  mip'[d] = mip[d] /\ recorded'[d] = recorded[d]
    BY SMTT(60), <1>2, <1>3, <1>4, <2>1 DEF Stored, UpdateStatus
  <2> QED
    BY Zenon, <2>1 DEF LedgerInv, LedgerParts, GoneMIPsAreEmpty
<1>13. StatusNamesRefusals'
  <2> SUFFICES ASSUME NEW d \in Constraints
               PROVE  /\ \A i \in DOMAIN recorded'[d] : recorded'[d][i] \in refused'[d]
                      /\ \A i, j \in DOMAIN recorded'[d] :
                            recorded'[d][i] = recorded'[d][j] => i = j
    BY Zenon DEF StatusNamesRefusals
  <2>1. /\ \A i \in DOMAIN recorded[d] : recorded[d][i] \in refused[d]
        /\ \A i, j \in DOMAIN recorded[d] : recorded[d][i] = recorded[d][j] => i = j
    BY Zenon DEF LedgerInv, LedgerParts, StatusNamesRefusals
  <2>2. CASE recorded'[d] = recorded[d]
    BY Zenon, <1>1, <2>1, <2>2
  <2>3. CASE d = c /\ recorded'[d] = <<req[h]>> \o recorded[d]
    <3>1. \A i \in DOMAIN recorded'[d] : recorded'[d][i] \in Noted(d) \union {req[h]}
      BY Zenon, <1>7, <2>3 DEF Noted, NotedIn
    <3>2. Noted(d) \subseteq refused[d]
      BY Zenon, <2>1 DEF Noted, NotedIn
    <3>3. req[h] \notin NotedIn(recorded[d]) /\ recorded[d] \in Seq(Requests)
      BY Zenon, <1>2, <1>4, <2>3 DEF Noted
    <3>4. \A i, j \in DOMAIN (<<req[h]>> \o recorded[d]) :
             (<<req[h]>> \o recorded[d])[i] = (<<req[h]>> \o recorded[d])[j] => i = j
      BY SMTT(60), <1>2, <2>1, <3>3, OncePrepend
    <3> QED
      BY SMTT(60), <1>1, <1>4, <2>3, <3>1, <3>2, <3>4
  <2> QED
    BY ZenonT(60), <1>2, <1>3, <1>6, <2>2, <2>3
<1> QED
  BY <1>8, <1>9, <1>10, <1>11, <1>12, <1>13, Zenon DEF LedgerParts

-----------------------------------------------------------------------------
(* A request comes and goes *)

\* A request is sent to one handler, which has noted nothing for it.
LEMMA LedgerReceives ==
    ASSUME LedgerInv, NEW h \in Handlers, Receive(h)
    PROVE  LedgerParts'
<1>1. /\ UNCHANGED <<mip, recorded, refused, answer, results, denied, mipCopy, reply>>
      /\ pc[h] = "idle" /\ pc' = [pc EXCEPT ![h] = "config"]
  BY ZenonT(60) DEF Receive, store, Go
<1>2. PICK r \in Requests :
        /\ answer[r] = "none"
        /\ \A g \in Handlers : req[g] # r
        /\ req' = [req EXCEPT ![h] = r]
  BY ZenonT(60) DEF Receive
<1>3. /\ pc \in [Handlers -> PCs] /\ req \in [Handlers -> Requests \union {NoRequest}]
      /\ results \in [Handlers -> SUBSET Results]
      /\ Ledger(h)
  BY Zenon DEF LedgerInv, LedgerParts, StatusInv, Typed, TypeOK
<1>4. \A c \in Constraints : Noted(c)' = Noted(c)
  BY <1>1, Zenon DEF Noted
<1>5. \A c \in Constraints : r \notin Noted(c)
  BY Zenon, <1>2 DEF LedgerInv, LedgerParts, NotedLate
<1>6. results[h] = {} /\ reply[h] = "none"
  BY ZenonT(60), <1>1, <1>3 DEF Ledger
<1>7. Ledger(h)'
  BY ZenonT(60), <1>1, <1>2, <1>3, <1>4, <1>5, <1>6 DEF Ledger, Deciding
<1>8. ASSUME NEW g \in Handlers, g # h PROVE Ledger(g)'
  <2>1. Same(g)
    BY ZenonT(60), <1>1, <1>2, <1>3, <1>8 DEF Same
  <2>2. TypeOK /\ Ledger(g)
    BY ZenonT(60) DEF LedgerInv, LedgerParts, StatusInv, Typed
  <2>3. req[g] \in Requests => answer'[req[g]] \in {"none", "timeout"}
    BY ZenonT(60), <1>1, <2>2 DEF Ledger
  <2>4. \A d \in Constraints : refused[d] \subseteq refused'[d]
    BY <1>1, Zenon
  <2> QED
    BY ZenonT(60), <1>4, <2>1, <2>2, <2>3, <2>4, LedgerElsewhere
<1>9. OneHandler'
  BY ZenonT(60), <1>2, <1>3 DEF LedgerInv, LedgerParts, OneHandler
<1>10. NotedLate'
  <2> SUFFICES ASSUME NEW q \in Requests, answer'[q] = "none",
                      \A g \in Handlers : req'[g] # q, NEW c \in Constraints
               PROVE  q \notin Noted(c)'
    BY ZenonT(60) DEF NotedLate
  <2>1. \A g \in Handlers : req[g] # q
    BY ZenonT(60), <1>1, <1>3, <1>2, AdmissionAssumption DEF Ledger
  <2> QED
    BY ZenonT(60), <1>1, <1>4, <2>1 DEF LedgerInv, LedgerParts, NotedLate
<1>11. GoneMIPsAreEmpty' /\ StatusNamesRefusals'
  BY <1>1, Zenon DEF LedgerInv, LedgerParts, GoneMIPsAreEmpty, StatusNamesRefusals
<1> QED
  BY <1>7, <1>8, <1>9, <1>10, <1>11, Zenon DEF LedgerParts

\* After its answer a request is not received again.
LEMMA LedgerResponds ==
    ASSUME LedgerInv, NEW h \in Handlers, Respond(h)
    PROVE  LedgerParts'
<1>1. /\ UNCHANGED <<mip, recorded, refused, denied, mipCopy>>
      /\ pc[h] = "reply" /\ pc' = [pc EXCEPT ![h] = "idle"]
      /\ answer' = [answer EXCEPT ![req[h]] = IF @ = "none" THEN reply[h] ELSE @]
      /\ req' = [req EXCEPT ![h] = NoRequest]
      /\ results' = [results EXCEPT ![h] = {}]
      /\ reply' = [reply EXCEPT ![h] = "none"]
  BY ZenonT(60) DEF Respond, store, Go
<1>2. /\ pc \in [Handlers -> PCs] /\ req \in [Handlers -> Requests \union {NoRequest}]
      /\ results \in [Handlers -> SUBSET Results] /\ req[h] \in Requests
      /\ reply \in [Handlers -> {"none", "allow", "deny", "abort"}]
      /\ answer \in [Requests -> {"none", "allow", "deny", "abort", "timeout"}]
      /\ Ledger(h)
  BY <1>1, Zenon DEF LedgerInv, LedgerParts, StatusInv, Typed, TypeOK, Working
<1>3. \A c \in Constraints : Noted(c)' = Noted(c)
  BY <1>1, Zenon DEF Noted
<1>4. answer'[req[h]] # "none" /\ \A q \in Requests : q # req[h] => answer'[q] = answer[q]
  BY ZenonT(60), <1>1, <1>2 DEF Ledger
<1>5. Ledger(h)'
  <2>1. /\ pc'[h] = "idle" /\ req'[h] = NoRequest /\ results'[h] = {} /\ reply'[h] = "none"
        /\ denied[h] = {} /\ mipCopy[h] = {} /\ NoRequest \notin Requests
    BY Zenon, <1>1, <1>2, AdmissionAssumption DEF Ledger
  <2> QED
    BY ZenonT(60), <1>1, <2>1 DEF Ledger, Deciding
<1>6. ASSUME NEW g \in Handlers, g # h PROVE Ledger(g)'
  <2>1. Same(g)
    BY <1>1, <1>2, <1>6, Zenon DEF Same
  <2>2. TypeOK /\ Ledger(g)
    BY Zenon DEF LedgerInv, LedgerParts, StatusInv, Typed
  <2>3. req[g] # req[h]
    BY Zenon, <1>2, <1>6 DEF LedgerInv, LedgerParts, OneHandler
  <2>4. req[g] \in Requests => answer'[req[g]] \in {"none", "timeout"}
    BY Zenon, <1>4, <2>2, <2>3 DEF Ledger
  <2>5. \A d \in Constraints : refused[d] \subseteq refused'[d]
    BY <1>1, Zenon
  <2> QED
    BY Zenon, <1>3, <2>1, <2>2, <2>4, <2>5, LedgerElsewhere
<1>7. OneHandler'
  BY Zenon, <1>1, <1>2, AdmissionAssumption DEF LedgerInv, LedgerParts, OneHandler
<1>8. NotedLate'
  <2> SUFFICES ASSUME NEW q \in Requests, answer'[q] = "none",
                      \A g \in Handlers : req'[g] # q, NEW c \in Constraints
               PROVE  q \notin Noted(c)'
    BY Zenon DEF NotedLate
  <2>1. q # req[h] /\ answer[q] = "none"
    BY <1>4, Zenon
  <2>2. \A g \in Handlers : req[g] # q
    BY Zenon, <1>1, <1>2, <2>1
  <2> QED
    BY <1>3, <2>1, <2>2, Zenon DEF LedgerInv, LedgerParts, NotedLate
<1>9. GoneMIPsAreEmpty' /\ StatusNamesRefusals'
  BY <1>1, Zenon DEF LedgerInv, LedgerParts, GoneMIPsAreEmpty, StatusNamesRefusals
<1> QED
  BY <1>5, <1>6, <1>7, <1>8, <1>9, Zenon DEF LedgerParts

-----------------------------------------------------------------------------
(* The cluster *)

\* Nothing a handler knows changes; what is noted may vanish with its MIP.
LEMMA LedgerEnvironment ==
    ASSUME LedgerInv, Environment \/ UNCHANGED vars
    PROVE  LedgerParts'
<1>1. UNCHANGED <<pc, req, results, denied, mipCopy, reply, refused>>
  BY ZenonT(60) DEF Environment, Timeout, EditConstraint, EditConfigs, ExpireEvent,
                    vars, store, locals
<1>2. TypeOK
  BY Zenon DEF LedgerInv, StatusInv, Typed
<1>3. \/ UNCHANGED answer
      \/ \E r \in Requests : answer' = [answer EXCEPT ![r] = "timeout"]
  BY ZenonT(60) DEF Environment, Timeout, EditConstraint, EditConfigs, ExpireEvent, vars
<1>4. \A q \in Requests : answer'[q] \in {answer[q], "timeout"}
  BY <1>2, <1>3, Zenon DEF TypeOK
<1>5. \/ UNCHANGED <<mip, recorded>>
      \/ \E c \in Constraints, a \in Actions :
            mip' = [mip EXCEPT ![c] = WithAction(@, a)] /\ UNCHANGED recorded
      \/ \E c \in Constraints : /\ mip' = [mip EXCEPT ![c] = GoneMIP(@.rv + 1)]
                                /\ recorded' = [recorded EXCEPT ![c] = <<>>]
  BY ZenonT(60) DEF Environment, Timeout, EditConstraint, EditConfigs, ExpireEvent,
                    vars, store
<1>6. \A c \in Constraints : recorded'[c] \in {recorded[c], <<>>}
  BY <1>2, <1>5, Zenon DEF TypeOK
<1>7. \A c \in Constraints : Noted(c)' \subseteq Noted(c)
  BY SMTT(60), <1>6 DEF Noted, NotedIn
<1>8. ASSUME NEW h \in Handlers PROVE Ledger(h)'
  <2>1. Ledger(h) /\ Same(h)
    BY Zenon, <1>1 DEF LedgerInv, LedgerParts, Same
  <2>2. req[h] \in Requests => answer'[req[h]] \in {"none", "timeout"}
    BY <1>4, <2>1, Zenon DEF Ledger
  <2>3. \A d \in Constraints : refused[d] \subseteq refused'[d]
    BY <1>1, Zenon
  <2> QED
    BY Zenon, <1>2, <1>7, <2>1, <2>2, <2>3, LedgerElsewhere
<1>9. OneHandler'
  BY <1>1, Zenon DEF LedgerInv, LedgerParts, OneHandler
<1>10. NotedLate'
  <2> SUFFICES ASSUME NEW q \in Requests, answer'[q] = "none",
                      \A g \in Handlers : req'[g] # q, NEW c \in Constraints
               PROVE  q \notin Noted(c)'
    BY Zenon DEF NotedLate
  <2>1. answer[q] = "none" /\ \A g \in Handlers : req[g] # q
    BY <1>1, <1>4, Zenon
  <2> QED
    BY Zenon, <1>7, <2>1 DEF LedgerInv, LedgerParts, NotedLate
<1>11. GoneMIPsAreEmpty'
  <2> SUFFICES ASSUME NEW d \in Constraints, ~mip'[d].live
               PROVE  mip'[d].denyCount = 0 /\ mip'[d].violations = <<>> /\ recorded'[d] = <<>>
    BY Zenon DEF GoneMIPsAreEmpty
  <2>1. \/ mip'[d] = mip[d] /\ recorded'[d] = recorded[d]
        \/ \E rv : mip'[d] = GoneMIP(rv) /\ recorded'[d] = <<>>
    <3>1. mip \in [Constraints -> MIPs] /\ recorded \in [Constraints -> Seq(Requests)]
      BY Zenon, <1>2 DEF TypeOK
    <3>2. \A m, a : WithAction(m, a).live
      BY Zenon DEF WithAction
    <3>3. CASE UNCHANGED <<mip, recorded>>
      BY <3>3, Zenon
    <3>4. ASSUME NEW c \in Constraints, NEW a \in Actions,
                 mip' = [mip EXCEPT ![c] = WithAction(@, a)], UNCHANGED recorded
          PROVE  mip'[d] = mip[d] /\ recorded'[d] = recorded[d]
      BY <3>1, <3>2, <3>4, Zenon
    <3>5. ASSUME NEW c \in Constraints, mip' = [mip EXCEPT ![c] = GoneMIP(@.rv + 1)],
                 recorded' = [recorded EXCEPT ![c] = <<>>]
          PROVE  \/ mip'[d] = mip[d] /\ recorded'[d] = recorded[d]
                 \/ mip'[d] = GoneMIP(mip[d].rv + 1) /\ recorded'[d] = <<>>
      BY <3>1, <3>5, Zenon
    <3> QED
      BY ZenonT(60), <1>5, <3>3, <3>4, <3>5
  <2>2. ~mip[d].live =>
          mip[d].denyCount = 0 /\ mip[d].violations = <<>> /\ recorded[d] = <<>>
    BY Zenon DEF LedgerInv, LedgerParts, GoneMIPsAreEmpty
  <2>3. \A rv : GoneMIP(rv).denyCount = 0 /\ GoneMIP(rv).violations = <<>>
    BY Zenon DEF GoneMIP
  <2> QED
    BY ZenonT(60), <2>1, <2>2, <2>3
<1>12. StatusNamesRefusals'
  BY <1>1, <1>6 DEF LedgerInv, LedgerParts, StatusNamesRefusals
<1> QED
  BY <1>8, <1>9, <1>10, <1>11, <1>12, Zenon DEF LedgerParts

-----------------------------------------------------------------------------
\* Every step preserves the ledger.
LEMMA LedgerNext == LedgerInv /\ [Next]_vars => LedgerInv'
<1> SUFFICES ASSUME LedgerInv, [Next]_vars PROVE LedgerInv'
  BY Zenon
<1>1. StatusInv'
  BY StatusNext, Zenon DEF LedgerInv
<1>2. ASSUME NEW h \in Handlers, Step(h) PROVE LedgerParts'
  BY ZenonT(60), <1>2, LedgerDecides, LedgerChecks, LedgerAccumulates, LedgerReads,
     LedgerPuts, LedgerReceives, LedgerResponds DEF Step
<1>3. LedgerParts'
  BY <1>2, LedgerEnvironment, Zenon DEF Next
<1> QED
  BY <1>1, <1>3, Zenon DEF LedgerInv

\* ... so that it holds in every behaviour.
LEMMA LedgerInvHolds == Spec => []LedgerInv
BY LedgerInit, LedgerNext, PTL DEF Spec

\* Every violation in the status of a MIP is a request that RequestHandler
\* refused for it, and none is there twice, however the handlers interleave and
\* whichever API calls fail.
THEOREM RefusalsNoted == Spec => []StatusNamesRefusals
BY LedgerInvHolds, PTL DEF LedgerInv, LedgerParts

-----------------------------------------------------------------------------
(* The contract *)

\* The contract's variables, as the refinement mapping computes them.
Statuses == [c \in Constraints |-> StatusOf(mip[c])]
NotedAll == [c \in Constraints |-> NotedIn(recorded[c])]

\* A step of the contract, or one that changes nothing it speaks of.
Promised == [Contract!Next]_(Contract!vars)

\* An initial state maps to one of the contract.
LEMMA ContractInit == Init => Contract!Init
<1> SUFFICES ASSUME Init PROVE Contract!Init
  OBVIOUS
<1>1. \A c \in Constraints : NotedIn(recorded[c]) = {}
  BY SMTT(60) DEF Init, NotedIn
<1>2. /\ StatusOf(NoMIP) = Contract!Fresh(FALSE)
      /\ \A a \in Actions : StatusOf(WithAction(NoMIP, a)) = Contract!Fresh(TRUE)
  BY Zenon DEF NoMIP, GoneMIP, WithAction, StatusOf, Contract!Fresh
<1>3. \A c \in Constraints :
        StatusOf(mip[c]) \in {Contract!Fresh(TRUE), Contract!Fresh(FALSE)}
  BY ZenonT(60), <1>2 DEF Init
<1>4. Statuses \in [Constraints -> {Contract!Fresh(TRUE), Contract!Fresh(FALSE)}]
  BY ZenonT(60), <1>3 DEF Statuses
<1>5. NotedAll = [c \in Constraints |-> {}]
  BY <1>1, Zenon DEF NotedAll
<1> QED
  BY ZenonT(60), <1>4, <1>5 DEF Init, Contract!Init, Statuses, NotedAll

\* A step that leaves the four variables alone.
LEMMA ContractStutter ==
    ASSUME UNCHANGED <<Statuses, NotedAll, refused, answer>>
    PROVE  Promised
BY ZenonT(60) DEF Promised, Contract!vars, Statuses, NotedAll

\* RequestHandler refuses, or does not.
LEMMA ContractChecks ==
    ASSUME LedgerInv, NEW h \in Handlers, CheckConstraint(h)
    PROVE  Promised
<1>1. UNCHANGED <<mip, recorded, answer>> /\ pc[h] = "check"
  BY ZenonT(60) DEF CheckConstraint
<1>2. /\ pc \in [Handlers -> PCs] /\ rhConfig \in AllConfigs
      /\ todo \in [Handlers -> SUBSET [constraint : Constraints, action : Actions]]
      /\ req[h] \in Requests /\ answer[req[h]] \in {"none", "timeout"}
  BY Zenon, <1>1 DEF LedgerInv, LedgerParts, StatusInv, Typed, TypeOK, Working, Ledger
<1>3. UNCHANGED <<Statuses, NotedAll, answer>>
  BY <1>1, Zenon DEF Statuses, NotedAll
<1>4. PICK c \in Constraints, allow \in BOOLEAN :
        refused' = IF allow THEN refused ELSE [refused EXCEPT ![c] = @ \union {req[h]}]
  BY ZenonT(60), <1>2, CheckShape
<1>5. CASE refused' = refused
  BY <1>3, <1>5, ContractStutter, Zenon
<1>6. CASE refused' = [refused EXCEPT ![c] = @ \union {req[h]}]
  <2>1. Contract!Refuse(c, req[h])
    BY ZenonT(60), <1>2, <1>3, <1>6 DEF Contract!Refuse, Contract!Open, Statuses, NotedAll
  <2> QED
    BY ZenonT(60), <1>2, <2>1 DEF Promised, Contract!Next
<1> QED
  BY <1>4, <1>5, <1>6, Zenon

\* An accepted write of updateConstraintStatus notes the refusal in one step.
LEMMA ContractNotes ==
    ASSUME LedgerInv, NEW h \in Handlers, PutMIP(h)
    PROVE  Promised
<1>1. UNCHANGED <<refused, answer>> /\ pc[h] = "statusPut"
  BY ZenonT(60) DEF PutMIP
<1>2. /\ mip \in [Constraints -> MIPs] /\ recorded \in [Constraints -> Seq(Requests)]
      /\ denied \in [Handlers -> SUBSET Constraints]
      /\ req[h] \in Requests /\ answer[req[h]] \in {"none", "timeout"}
      /\ Ledger(h)
  BY Zenon, <1>1 DEF LedgerInv, LedgerParts, StatusInv, Typed, TypeOK, Working, Ledger
<1>3. PICK c \in denied[h] :
        \/ UNCHANGED <<mip, recorded>>
        \/ /\ mip[c].live
           /\ mip' = [mip EXCEPT ![c] =
                        Stored(UpdateStatus(mip[c], req[h]), mip[c].rv + 1)]
           /\ recorded' = [recorded EXCEPT ![c] = <<req[h]>> \o @]
  BY ZenonT(60), PutShape
<1>4. c \in Constraints /\ req[h] \in refused[c] \ NotedIn(recorded[c])
  BY <1>2 DEF Ledger, Noted
<1>5. CASE UNCHANGED <<mip, recorded>>
  <2>1. UNCHANGED <<Statuses, NotedAll>>
    BY <1>5 DEF Statuses, NotedAll
  <2> QED
    BY <1>1, <2>1, ContractStutter
<1>6. CASE /\ mip[c].live
           /\ mip' = [mip EXCEPT ![c] =
                        Stored(UpdateStatus(mip[c], req[h]), mip[c].rv + 1)]
           /\ recorded' = [recorded EXCEPT ![c] = <<req[h]>> \o @]
  <2> DEFINE written == [live |-> mip[c].live, denyCount |-> mip[c].denyCount + 1,
                         violations |-> Truncate(<<req[h]>> \o mip[c].violations)]
  <2>1. \A s : Contract!Latest(s) = Truncate(s)
    BY ZenonT(60) DEF Contract!Latest, Truncate
  <2>2. StatusOf(mip'[c]) = written
    BY Zenon, <1>2, <1>4, <1>6 DEF Stored, UpdateStatus, StatusOf
  <2>3. \A d \in Constraints : d # c => StatusOf(mip'[d]) = StatusOf(mip[d])
    BY <1>2, <1>6, Zenon
  <2>4. Statuses' = [Statuses EXCEPT ![c] = written]
    BY ZenonT(60), <1>4, <2>2, <2>3 DEF Statuses
  <2>5. Contract!UpdateStatus(Statuses[c], req[h]) = written
    BY Zenon, <1>4, <2>1 DEF Statuses, StatusOf, Contract!UpdateStatus
  <2>6. Statuses' = [Statuses EXCEPT ![c] = Contract!UpdateStatus(@, req[h])]
    BY ZenonT(60), <1>4, <2>4, <2>5 DEF Statuses
  <2>7. NotedAll' = [NotedAll EXCEPT ![c] = @ \union {req[h]}]
    <3>1. NotedIn(recorded'[c]) = NotedIn(recorded[c]) \union {req[h]}
      BY SMTT(60), <1>2, <1>4, <1>6, NotedPrepend
    <3>2. \A d \in Constraints : d # c => recorded'[d] = recorded[d]
      BY Zenon, <1>2, <1>6
    <3> QED
      BY ZenonT(60), <1>4, <3>1, <3>2 DEF NotedAll
  <2>8. Statuses[c].live /\ req[h] \in refused[c] \ NotedAll[c]
    BY <1>4, <1>6, Zenon DEF Statuses, StatusOf, NotedAll
  <2>9. Contract!Note(c, req[h])
    BY ZenonT(60), <1>1, <1>2, <2>6, <2>7, <2>8
       DEF Contract!Note, Contract!Open, Statuses, NotedAll
  <2> QED
    BY ZenonT(60), <1>2, <1>4, <2>9 DEF Promised, Contract!Next
<1> QED
  BY ZenonT(60), <1>3, <1>5, <1>6

\* The answer comes once, and a denial has a refusal behind it.
LEMMA ContractAnswers ==
    ASSUME LedgerInv, NEW h \in Handlers, Respond(h)
    PROVE  Promised
<1>1. /\ UNCHANGED <<mip, recorded, refused>> /\ pc[h] = "reply"
      /\ answer' = [answer EXCEPT ![req[h]] = IF @ = "none" THEN reply[h] ELSE @]
  BY ZenonT(60) DEF Respond, store
<1>2. /\ reply \in [Handlers -> {"none", "allow", "deny", "abort"}]
      /\ answer \in [Requests -> {"none", "allow", "deny", "abort", "timeout"}]
      /\ req[h] \in Requests
      /\ Ledger(h)
  BY Zenon, <1>1 DEF LedgerInv, LedgerParts, StatusInv, Typed, TypeOK, Working
<1>3. UNCHANGED <<Statuses, NotedAll>>
  BY Zenon, <1>1 DEF Statuses, NotedAll
<1>4. CASE answer[req[h]] # "none"
  <2>1. answer' = answer
    BY <1>1, <1>2, <1>4, Zenon
  <2> QED
    BY ZenonT(60), <1>1, <1>3, <2>1, ContractStutter
<1>5. CASE answer[req[h]] = "none"
  <2>1. answer' = [answer EXCEPT ![req[h]] = reply[h]]
    BY Zenon, <1>1, <1>2, <1>5
  <2>2. /\ reply[h] \in {"allow", "deny", "abort", "timeout"}
        /\ reply[h] = "deny" => \E c \in Constraints : req[h] \in refused[c]
    BY <1>1, <1>2, Zenon DEF Ledger
  <2>3. Contract!Answer(req[h], reply[h])
    BY ZenonT(60), <1>1, <1>3, <1>5, <2>1, <2>2 DEF Contract!Answer, Statuses, NotedAll
  <2> QED
    BY ZenonT(60), <1>2, <2>2, <2>3 DEF Promised, Contract!Next
<1> QED
  BY <1>4, <1>5, Zenon

\* The API server gives up waiting.
LEMMA ContractTimesOut ==
    ASSUME NEW r \in Requests, Timeout(r)
    PROVE  Promised
<1>1. /\ UNCHANGED <<mip, recorded, refused>> /\ answer[r] = "none"
      /\ answer' = [answer EXCEPT ![r] = "timeout"]
  BY ZenonT(60) DEF Timeout, store
<1>2. UNCHANGED <<Statuses, NotedAll>>
  BY <1>1, Zenon DEF Statuses, NotedAll
<1>3. "timeout" # "deny" /\ "timeout" \in {"allow", "deny", "abort", "timeout"}
  BY Zenon
<1>4. Contract!Answer(r, "timeout")
  BY ZenonT(60), <1>1, <1>2, <1>3 DEF Contract!Answer, Statuses, NotedAll
<1> QED
  BY ZenonT(60), <1>3, <1>4 DEF Promised, Contract!Next

\* An admin edits the spec, which the contract does not speak of, or deletes or
\* creates the MIP.
LEMMA ContractEdits ==
    ASSUME LedgerInv, NEW c \in Constraints, EditConstraint(c)
    PROVE  Promised
<1>1. UNCHANGED <<refused, answer>>
  BY ZenonT(60) DEF EditConstraint
<1>2. /\ mip \in [Constraints -> MIPs] /\ recorded \in [Constraints -> Seq(Requests)]
      /\ ~mip[c].live =>
           mip[c].denyCount = 0 /\ mip[c].violations = <<>> /\ recorded[c] = <<>>
  BY ZenonT(60) DEF LedgerInv, LedgerParts, StatusInv, Typed, TypeOK, GoneMIPsAreEmpty
<1>3. /\ mip[c].live \in BOOLEAN
      /\ \A a : StatusOf(WithAction(mip[c], a)) =
           [live |-> TRUE, denyCount |-> mip[c].denyCount, violations |-> mip[c].violations]
      /\ \A rv : StatusOf(GoneMIP(rv)) = Contract!Fresh(FALSE)
  BY <1>2, Zenon DEF MIPs, StatusOf, WithAction, GoneMIP, Contract!Fresh
<1>4. \/ /\ mip[c].live
         /\ \E a : mip' = [mip EXCEPT ![c] = WithAction(@, a)]
         /\ UNCHANGED recorded
      \/ /\ mip[c].live
         /\ mip' = [mip EXCEPT ![c] = GoneMIP(@.rv + 1)]
         /\ recorded' = [recorded EXCEPT ![c] = <<>>]
      \/ /\ ~mip[c].live
         /\ \E a : mip' = [mip EXCEPT ![c] = WithAction(@, a)]
         /\ UNCHANGED recorded
  BY ZenonT(60) DEF EditConstraint
<1>5. /\ \A d \in Constraints : d # c => StatusOf(mip'[d]) = StatusOf(mip[d])
      /\ \A d \in Constraints : d # c => NotedIn(recorded'[d]) = NotedIn(recorded[d])
  BY <1>2, <1>4, Zenon
<1>6. CASE /\ StatusOf(mip'[c]) = StatusOf(mip[c])
           /\ NotedIn(recorded'[c]) = NotedIn(recorded[c])
  <2>1. UNCHANGED <<Statuses, NotedAll>>
    BY <1>5, <1>6, Zenon DEF Statuses, NotedAll
  <2> QED
    BY Zenon, <1>1, <2>1, ContractStutter
<1>7. CASE /\ StatusOf(mip'[c]) = Contract!Fresh(~mip[c].live)
           /\ NotedIn(recorded'[c]) = {}
  <2>1. Statuses[c].live = mip[c].live
    BY Zenon DEF Statuses, StatusOf
  <2>2. /\ Statuses' = [Statuses EXCEPT ![c] = Contract!Fresh(~mip[c].live)]
        /\ NotedAll' = [NotedAll EXCEPT ![c] = {}]
    BY ZenonT(60), <1>5, <1>7 DEF Statuses, NotedAll
  <2>3. Statuses' = [Statuses EXCEPT ![c] = Contract!Fresh(~@.live)]
    BY ZenonT(60), <2>1, <2>2 DEF Statuses
  <2>4. Contract!Replace(c)
    BY ZenonT(60), <1>1, <2>2, <2>3 DEF Contract!Replace, Statuses, NotedAll
  <2> QED
    BY ZenonT(60), <2>4 DEF Promised, Contract!Next
<1>8. CASE /\ mip[c].live
           /\ \E a : mip' = [mip EXCEPT ![c] = WithAction(@, a)]
           /\ UNCHANGED recorded
  <2>1. PICK a : mip'[c] = WithAction(mip[c], a)
    BY <1>2, <1>8, Zenon
  <2>2. mip[c].live = TRUE
    BY <1>3, <1>8, Zenon
  <2>3. StatusOf(mip'[c]) = StatusOf(mip[c])
    BY ZenonT(60), <1>3, <2>1, <2>2 DEF StatusOf
  <2> QED
    BY Zenon, <1>6, <1>8, <2>3
<1>9. CASE /\ mip[c].live
           /\ mip' = [mip EXCEPT ![c] = GoneMIP(@.rv + 1)]
           /\ recorded' = [recorded EXCEPT ![c] = <<>>]
  <2>1. mip'[c] = GoneMIP(mip[c].rv + 1) /\ recorded'[c] = <<>>
    BY Zenon, <1>2, <1>9
  <2>2. NotedIn(recorded'[c]) = {}
    BY <2>1 DEF NotedIn
  <2>3. (~mip[c].live) = FALSE
    BY <1>3, <1>9, Zenon
  <2> QED
    BY ZenonT(60), <1>3, <1>7, <2>1, <2>2, <2>3
<1>10. CASE /\ ~mip[c].live
            /\ \E a : mip' = [mip EXCEPT ![c] = WithAction(@, a)]
            /\ UNCHANGED recorded
  <2>1. PICK a : mip' = [mip EXCEPT ![c] = WithAction(@, a)]
    BY ZenonT(60), <1>10
  <2>2. mip'[c] = WithAction(mip[c], a) /\ recorded'[c] = <<>>
    BY Zenon, <1>2, <1>10, <2>1
  <2>3. NotedIn(recorded'[c]) = {}
    BY <2>2 DEF NotedIn
  <2>4. (~mip[c].live) = TRUE
    BY Zenon, <1>3, <1>10
  <2>5. StatusOf(mip'[c]) = Contract!Fresh(TRUE)
    BY <1>2, <1>3, <1>10, <2>2, Zenon DEF Contract!Fresh
  <2> QED
    BY ZenonT(60), <1>7, <2>3, <2>4, <2>5
<1> QED
  BY <1>4, <1>8, <1>9, <1>10, Zenon

\* All other steps are invisible to the contract.
LEMMA ContractNext == LedgerInv /\ [Next]_vars => Promised
<1> SUFFICES ASSUME LedgerInv, [Next]_vars PROVE Promised
  BY Zenon
<1>1. ASSUME UNCHANGED <<mip, recorded, refused, answer>> PROVE Promised
  <2>1. UNCHANGED <<Statuses, NotedAll, refused, answer>>
    BY <1>1 DEF Statuses, NotedAll
  <2> QED
    BY <2>1, ContractStutter, Zenon
<1>2. ASSUME NEW h \in Handlers, Step(h) PROVE Promised
  BY ZenonT(60), <1>1, <1>2, ContractChecks, ContractNotes, ContractAnswers
     DEF Step, Receive, LoadAdmissionControllerConfig, LoadConstraints, GetEvent, PutEvent,
         Accumulate, GetMIP, store
<1>3. ASSUME Environment PROVE Promised
  BY ZenonT(60), <1>1, <1>3, ContractTimesOut, ContractEdits
     DEF Environment, EditConfigs, ExpireEvent, store
<1>4. ASSUME UNCHANGED vars PROVE Promised
  BY <1>1, <1>4, Zenon DEF vars, store
<1> QED
  BY <1>2, <1>3, <1>4, Zenon DEF Next

\* However many requests, handlers and constraints there are and whichever API
\* calls fail, every step of the admission controller is one the contract
\* allows: ProcessRequest refuses, notes each refusal at most once and in one
\* step, and answers once.
THEOREM Implements == Spec => ImplementsContract
<1>1. LedgerInv /\ [Next]_vars => [Contract!Next]_(Contract!vars)
  BY ContractNext, Zenon DEF Promised
<1> QED
  BY <1>1, ContractInit, LedgerInvHolds, PTL DEF Spec, ImplementsContract, Contract!Spec
=============================================================================
