----------------------------- MODULE Admission ------------------------------
(***************************************************************************)
(* The admission controller (webhook/admission-controller) and the part of *)
(* the shield library it calls, with the side effects both leave in the    *)
(* cluster: the deny Event of the refused object and the status of the     *)
(* ManifestIntegrityProfile (MIP) that refused it.                         *)
(*                                                                         *)
(* Every webhook call runs in a handler (a goroutine of some replica).     *)
(* Handlers share nothing but the API server, which accepts an Update only *)
(* if the resourceVersion it carries is the stored one.  Each call to the  *)
(* API server is a step of its own and may fail.                           *)
(***************************************************************************)
EXTENDS RequestHandler, Integers, Sequences

CONSTANTS
    Handlers,       \* concurrent webhook calls
    Requests,       \* admission requests, each sent once by the API server
    NoRequest,      \* the request of an idle handler
    Constraints,    \* names of ManifestIntegrityProfiles
    Objects,        \* (operation, kind, name) triples: one deny Event each
    ObjectOf,       \* the object a request is about
    Facts,          \* the facts a request may present to a constraint
    Configs,        \* the request handler configurations an admin writes
    ACSettings,     \* the admission controller configurations an admin writes
    MaxHistory,     \* maxHistoryLength of the MIP status (10 in the code)
    ApiFaults,      \* whether a call to the API server may fail without a cause
    MaxEdits        \* bound: edits by an admin, expiries of an Event

\* The admission controller configuration, as the request handler's is given.
ACConfigs == [load : {"ok", "empty", "error"}, detect : BOOLEAN, updateStatus : BOOLEAN]

ASSUME AdmissionAssumption ==
    /\ NoRequest \notin Requests
    /\ ObjectOf \in [Requests -> Objects]
    /\ Facts \subseteq AllFacts
    /\ Configs \subseteq AllConfigs
    /\ ACSettings \subseteq ACConfigs
    /\ MaxHistory \in Nat \ {0}
    /\ ApiFaults \in BOOLEAN
    /\ MaxEdits \in Nat

VARIABLES
    mip,        \* stored MIPs
    event,      \* stored deny Events
    acConfig,   \* admission controller ConfigMap
    rhConfig,   \* request handler ConfigMap
    pc,         \* next step of a handler
    req,        \* the request a handler works on
    ac,         \* the admission controller configuration it loaded
    todo,       \* listed constraints it has not evaluated yet
    results,    \* its results so far, with what they were computed from
    eventCopy,  \* the Event it read
    denied,     \* constraints whose status it has still to update
    mipCopy,    \* the MIP it read (at most one)
    reply,      \* its response
    answer,     \* what the API server received for a request
    edits,      \* edits by an admin so far
    recorded,   \* history: requests written to the status of a live MIP
    counted,    \* history: writes of a live Event
    refused     \* history: requests refused on behalf of a constraint

store   == <<mip, event, recorded, counted, refused>>
configs == <<acConfig, rhConfig, edits>>
locals  == <<req, ac, todo, results, eventCopy, denied, mipCopy, reply>>
vars    == <<store, configs, locals, pc, answer>>

MIPs   == [live : BOOLEAN, rv : Nat, action : Actions,
           denyCount : Nat, violations : Seq(Requests)]
Events == [live : BOOLEAN, rv : Nat, count : Nat]

\* A result, with what it was computed from if the constraint matched.
Results ==
    [constraint : Constraints, allow : BOOLEAN,
     basis : SUBSET [facts : Facts, action : Actions, config : AllConfigs]]

\* Stored objects that do not exist; resourceVersions are never used again.
GoneMIP(rv)   == [live |-> FALSE, rv |-> rv, action |-> "unset",
                  denyCount |-> 0, violations |-> <<>>]
GoneEvent(rv) == [live |-> FALSE, rv |-> rv, count |-> 0]
NoMIP         == GoneMIP(0)
NoEvent       == GoneEvent(0)

\* A MIP whose spec an admin has written; its status is left alone.
WithAction(m, a) == [live |-> TRUE, rv |-> m.rv + 1, action |-> a,
                     denyCount |-> m.denyCount, violations |-> m.violations]

\* The API server cannot be asked, or the client cannot be built.
NoConfig  == [load |-> "error", detect |-> FALSE, updateStatus |-> FALSE]
NilConfig == [load |-> "empty", detect |-> FALSE, updateStatus |-> FALSE]

PCs == {"idle", "config", "list", "check", "eventGet", "eventPut",
        "status", "statusPut", "reply"}

TypeOK ==
    /\ mip \in [Constraints -> MIPs]
    /\ event \in [Objects -> Events]
    /\ acConfig \in ACConfigs
    /\ rhConfig \in AllConfigs
    /\ pc \in [Handlers -> PCs]
    /\ req \in [Handlers -> Requests \union {NoRequest}]
    /\ ac \in [Handlers -> ACConfigs]
    /\ todo \in [Handlers -> SUBSET [constraint : Constraints, action : Actions]]
    /\ results \in [Handlers -> SUBSET Results]
    /\ eventCopy \in [Handlers -> Events]
    /\ denied \in [Handlers -> SUBSET Constraints]
    /\ mipCopy \in [Handlers -> SUBSET [name : Constraints, object : MIPs]]
    /\ reply \in [Handlers -> {"none", "allow", "deny", "abort"}]
    /\ answer \in [Requests -> {"none", "allow", "deny", "abort", "timeout"}]
    /\ edits \in Nat
    /\ recorded \in [Constraints -> Seq(Requests)]
    /\ counted \in [Objects -> Nat]
    /\ refused \in [Constraints -> SUBSET Requests]

Init ==
    /\ mip \in [Constraints -> {NoMIP} \union {WithAction(NoMIP, a) : a \in Actions}]
    /\ event = [o \in Objects |-> NoEvent]
    /\ acConfig \in ACSettings
    /\ rhConfig \in Configs
    /\ pc = [h \in Handlers |-> "idle"]
    /\ req = [h \in Handlers |-> NoRequest]
    /\ ac = [h \in Handlers |-> NoConfig]
    /\ todo = [h \in Handlers |-> {}]
    /\ results = [h \in Handlers |-> {}]
    /\ eventCopy = [h \in Handlers |-> NoEvent]
    /\ denied = [h \in Handlers |-> {}]
    /\ mipCopy = [h \in Handlers |-> {}]
    /\ reply = [h \in Handlers |-> "none"]
    /\ answer = [r \in Requests |-> "none"]
    /\ edits = 0
    /\ recorded = [c \in Constraints |-> <<>>]
    /\ counted = [o \in Objects |-> 0]
    /\ refused = [c \in Constraints |-> {}]

-----------------------------------------------------------------------------
(* ProcessRequest *)

\* The outcome of a call, or one of the ways it may fail.
OrFailed(outcome, failures) ==
    IF ApiFaults THEN {outcome} \union failures ELSE {outcome}

Go(h, label) == pc' = [pc EXCEPT ![h] = label]

Answering(h, response) ==
    /\ reply' = [reply EXCEPT ![h] = response]
    /\ Go(h, "reply")

\* The API server calls the webhook for a request it has not sent before.
Receive(h) ==
    /\ pc[h] = "idle"
    /\ \E r \in Requests :
         /\ answer[r] = "none"
         /\ \A g \in Handlers : req[g] # r
         /\ req' = [req EXCEPT ![h] = r]
    /\ Go(h, "config")
    /\ UNCHANGED <<store, configs, answer, ac, todo, results, eventCopy, denied,
                   mipCopy, reply>>

\* A configuration that cannot be read lets the request pass; a nil one is
\* dereferenced and the panic ends the call; a request outside the namespace
\* selector or of an allowed kind passes.
LoadAdmissionControllerConfig(h) ==
    /\ pc[h] = "config"
    /\ \E config \in OrFailed(acConfig, {NoConfig, NilConfig}), filtered \in BOOLEAN :
         /\ ac' = [ac EXCEPT ![h] = config]
         /\ \/ config.load = "error" /\ Answering(h, "allow")
            \/ config.load = "empty" /\ Answering(h, "abort")
            \/ config.load = "ok" /\ filtered /\ Answering(h, "allow")
            \/ /\ config.load = "ok" /\ ~filtered
               /\ Go(h, "list")
               /\ UNCHANGED reply
    /\ UNCHANGED <<store, configs, answer, req, todo, results, eventCopy, denied,
                   mipCopy>>

\* The live MIPs with their parameters; an error of the List call is logged
\* and leaves no constraint to check.
LoadConstraints(h) ==
    /\ pc[h] = "list"
    /\ \E listed \in OrFailed({c \in Constraints : mip[c].live}, {{}}) :
         todo' = [todo EXCEPT ![h] =
                    {[constraint |-> c, action |-> mip[c].action] : c \in listed}]
    /\ Go(h, "check")
    /\ UNCHANGED <<store, configs, answer, req, ac, results, eventCopy, denied,
                   mipCopy, reply>>

\* One iteration of the loop over the constraints, up to the Event: a
\* constraint that does not match contributes an allowed result, otherwise
\* RequestHandler loads its configuration and decides.
CheckConstraint(h) ==
    /\ pc[h] = "check"
    /\ \E t \in todo[h] :
         /\ todo' = [todo EXCEPT ![h] = @ \ {t}]
         /\ \/ /\ results' = [results EXCEPT ![h] = @ \union
                    {[constraint |-> t.constraint, allow |-> TRUE, basis |-> {}]}]
               /\ UNCHANGED <<refused, pc>>
            \/ \E facts \in Facts, config \in OrFailed(rhConfig, {LoadError, NilResult}) :
                 LET verdict == Handle(facts, t.action, config) IN
                 /\ results' = [results EXCEPT ![h] = @ \union
                      {[constraint |-> t.constraint, allow |-> verdict.allow,
                        basis |-> {[facts |-> facts, action |-> t.action,
                                    config |-> config]}]}]
                 /\ refused' = IF verdict.allow THEN refused
                      ELSE [refused EXCEPT ![t.constraint] = @ \union {req[h]}]
                 /\ Go(h, IF verdict.report THEN "eventGet" ELSE "check")
    /\ UNCHANGED <<mip, event, recorded, counted, configs, answer, req, ac,
                   eventCopy, denied, mipCopy, reply>>

-----------------------------------------------------------------------------
(* createOrUpdateEvent: Get, then Create or Update; errors are only logged *)

\* Any error of the Get is taken for "no such Event".
GetEvent(h) ==
    /\ pc[h] = "eventGet"
    /\ \E found \in OrFailed(event[ObjectOf[req[h]]], {NoEvent}) :
         eventCopy' = [eventCopy EXCEPT ![h] = IF found.live THEN found ELSE NoEvent]
    /\ Go(h, "eventPut")
    /\ UNCHANGED <<store, configs, answer, req, ac, todo, results, denied, mipCopy,
                   reply>>

\* Mutants: an Update that does not carry the resourceVersion; no Create.
EventOverwritten(current, copy) == copy.live => current.live
EventOnlyUpdated(current, copy) == current.live /\ current.rv = copy.rv

\* Update needs the resourceVersion that was read, Create that none exists.
EventWritable(current, copy) ==
    IF copy.live THEN current.live /\ current.rv = copy.rv
                 ELSE ~current.live

PutEvent(h) ==
    LET o == ObjectOf[req[h]] IN
    /\ pc[h] = "eventPut"
    /\ \/ /\ EventWritable(event[o], eventCopy[h])
          /\ event' = [event EXCEPT ![o] =
               [live |-> TRUE, rv |-> @.rv + 1, count |-> eventCopy[h].count + 1]]
          /\ counted' = [counted EXCEPT ![o] = @ + 1]
       \/ /\ ApiFaults \/ ~EventWritable(event[o], eventCopy[h])
          /\ UNCHANGED <<event, counted>>     \* conflict, AlreadyExists, API error
    /\ eventCopy' = [eventCopy EXCEPT ![h] = NoEvent]
    /\ Go(h, "check")
    /\ UNCHANGED <<mip, recorded, refused, configs, answer, req, ac, todo, results,
                   denied, mipCopy, reply>>

-----------------------------------------------------------------------------
(* Accumulated result, detection mode and the status of the MIPs *)

\* Mutant: the test of res.Allow is missing.
EveryResult(h) == {res.constraint : res \in results[h]}

DeniedBy(h) == {res.constraint : res \in {x \in results[h] : ~x.allow}}

\* One refusal refuses the request, unless the mode is detect.
getAccumulatedResult(h) ==
    IF DeniedBy(h) # {} /\ ~ac[h].detect THEN "deny" ELSE "allow"

\* Mutant: the loop over the results is not left.
StatusAgain(rest) == "status"

AfterStatus(rest) == IF rest = {} THEN "reply" ELSE "status"

Accumulate(h) ==
    /\ pc[h] = "check"
    /\ todo[h] = {}
    /\ reply' = [reply EXCEPT ![h] = getAccumulatedResult(h)]
    /\ denied' = [denied EXCEPT ![h] = IF ac[h].updateStatus THEN DeniedBy(h) ELSE {}]
    /\ Go(h, AfterStatus(denied'[h]))
    /\ UNCHANGED <<store, configs, answer, req, ac, todo, results, eventCopy, mipCopy>>

\* UpdateStatus prepends the violation and keeps the MaxHistory latest.
Truncate(s) == SubSeq(s, 1, IF Len(s) > MaxHistory THEN MaxHistory ELSE Len(s))

\* Mutant: the counter goes the wrong way.
CountDown(m, r) ==
    [live |-> m.live, rv |-> m.rv, action |-> m.action,
     denyCount |-> m.denyCount - 1, violations |-> Truncate(<<r>> \o m.violations)]

UpdateStatus(m, r) ==
    [live |-> m.live, rv |-> m.rv, action |-> m.action,
     denyCount |-> m.denyCount + 1, violations |-> Truncate(<<r>> \o m.violations)]

\* updateConstraintStatus reads the MIP; an error drops this violation.
GetMIP(h) ==
    /\ pc[h] = "status"
    /\ \E c \in denied[h] :
         \/ /\ mip[c].live
            /\ mipCopy' = [mipCopy EXCEPT ![h] = {[name |-> c, object |-> mip[c]]}]
            /\ Go(h, "statusPut")
            /\ UNCHANGED denied
         \/ /\ ApiFaults \/ ~mip[c].live
            /\ denied' = [denied EXCEPT ![h] = @ \ {c}]
            /\ Go(h, AfterStatus(denied'[h]))
            /\ UNCHANGED mipCopy
    /\ UNCHANGED <<store, configs, answer, req, ac, todo, results, eventCopy, reply>>

Stored(m, rv) == [live |-> m.live, rv |-> rv, action |-> m.action,
                  denyCount |-> m.denyCount, violations |-> m.violations]

\* Mutant: an Update that does not carry the resourceVersion.
MIPOverwritten(current, copy) == current.live

MIPWritable(current, copy) == current.live /\ current.rv = copy.rv

\* ... and writes the whole object back, spec included.
PutMIP(h) ==
    /\ pc[h] = "statusPut"
    /\ \E copy \in mipCopy[h] :
         /\ \/ /\ MIPWritable(mip[copy.name], copy.object)
               /\ mip' = [mip EXCEPT ![copy.name] =
                    Stored(UpdateStatus(copy.object, req[h]), mip[copy.name].rv + 1)]
               /\ recorded' = [recorded EXCEPT ![copy.name] = <<req[h]>> \o @]
            \/ /\ ApiFaults \/ ~MIPWritable(mip[copy.name], copy.object)
               /\ UNCHANGED <<mip, recorded>>      \* conflict, deleted, API error
         /\ denied' = [denied EXCEPT ![h] = @ \ {copy.name}]
    /\ mipCopy' = [mipCopy EXCEPT ![h] = {}]
    /\ Go(h, AfterStatus(denied'[h]))
    /\ UNCHANGED <<event, counted, refused, configs, answer, req, ac, todo, results,
                   eventCopy, reply>>

\* The response is returned; after a timeout nobody is waiting for it.
Respond(h) ==
    /\ pc[h] = "reply"
    /\ answer' = [answer EXCEPT ![req[h]] = IF @ = "none" THEN reply[h] ELSE @]
    /\ req' = [req EXCEPT ![h] = NoRequest]
    /\ ac' = [ac EXCEPT ![h] = NoConfig]
    /\ results' = [results EXCEPT ![h] = {}]
    /\ reply' = [reply EXCEPT ![h] = "none"]
    /\ Go(h, "idle")
    /\ UNCHANGED <<store, configs, todo, eventCopy, denied, mipCopy>>

-----------------------------------------------------------------------------
(* The cluster around the handlers *)

\* timeoutSeconds of the webhook: the API server stops waiting.
Timeout(r) ==
    /\ answer[r] = "none"
    /\ \E h \in Handlers : req[h] = r
    /\ answer' = [answer EXCEPT ![r] = "timeout"]
    /\ UNCHANGED <<store, configs, locals, pc>>

Edit == edits < MaxEdits /\ edits' = edits + 1

\* An admin changes the action of a MIP, deletes it or creates it (again).
EditConstraint(c) ==
    /\ Edit
    /\ \/ \E a \in Actions \ {mip[c].action} :
            /\ mip[c].live
            /\ mip' = [mip EXCEPT ![c] = WithAction(@, a)]
            /\ UNCHANGED recorded
       \/ /\ mip[c].live
          /\ mip' = [mip EXCEPT ![c] = GoneMIP(@.rv + 1)]
          /\ recorded' = [recorded EXCEPT ![c] = <<>>]
       \/ /\ ~mip[c].live
          /\ \E a \in Actions :
               mip' = [mip EXCEPT ![c] = WithAction(@, a)]
          /\ UNCHANGED recorded
    /\ UNCHANGED <<event, counted, refused, acConfig, rhConfig, locals, pc, answer>>

EditConfigs ==
    /\ Edit
    /\ \/ acConfig' \in ACSettings \ {acConfig} /\ UNCHANGED rhConfig
       \/ rhConfig' \in Configs \ {rhConfig} /\ UNCHANGED acConfig
    /\ UNCHANGED <<store, locals, pc, answer>>

\* Events are removed by the API server after a while.
ExpireEvent(o) ==
    /\ Edit
    /\ event[o].live
    /\ event' = [event EXCEPT ![o] = GoneEvent(@.rv + 1)]
    /\ counted' = [counted EXCEPT ![o] = 0]
    /\ UNCHANGED <<mip, recorded, refused, acConfig, rhConfig, locals, pc, answer>>

-----------------------------------------------------------------------------
Step(h) ==
    \/ Receive(h) \/ LoadAdmissionControllerConfig(h) \/ LoadConstraints(h)
    \/ CheckConstraint(h) \/ GetEvent(h) \/ PutEvent(h) \/ Accumulate(h)
    \/ GetMIP(h) \/ PutMIP(h) \/ Respond(h)

Environment ==
    \/ \E r \in Requests : Timeout(r)
    \/ \E c \in Constraints : EditConstraint(c)
    \/ EditConfigs
    \/ \E o \in Objects : ExpireEvent(o)

Next == Environment \/ \E h \in Handlers : Step(h)

Spec == Init /\ [][Next]_vars

\* Every call to the API server returns, with an answer or an error, and no
\* loop of a handler is unbounded: a handler that has a step takes it.
FairSpec == Spec /\ \A h \in Handlers : WF_vars(Step(h))

-----------------------------------------------------------------------------
(* Properties *)

\* The status of a MIP is exactly what updateConstraintStatus wrote to it since
\* it was created: DenyCount counts every accepted write and Violations holds
\* the latest ones, newest first, whatever other handlers, an admin or the
\* removal of the MIP did between the Get and the Update of a handler.
StatusIsExact ==
    \A c \in Constraints :
        /\ mip[c].denyCount = Len(recorded[c])
        /\ mip[c].violations = Truncate(recorded[c])

\* The Count of a deny Event is the number of writes createOrUpdateEvent made
\* to it since it was created: no write is overwritten by one that started
\* from an older copy of the Event.
EventCountIsExact == \A o \in Objects : event[o].count = counted[o]

\* A violation in the status names a request that was refused on behalf of that
\* constraint, and names it once: updateConstraints writes refusals only and
\* never repeats a write.
StatusNamesRefusals ==
    \A c \in Constraints :
        /\ \A i \in DOMAIN recorded[c] : recorded[c][i] \in refused[c]
        /\ \A i, j \in DOMAIN recorded[c] : recorded[c][i] = recorded[c][j] => i = j

\* What the policy of one constraint asks for, independent of the order in
\* which RequestHandler tests its conditions.
PolicyRefuses(b) ==
    LET f == b.facts
        profile(fact) == b.config.load = "ok" /\ fact
    IN  /\ f.parsed
        /\ b.config.load # "error"
        /\ b.action = "enforce" \/ (b.action = "unset" /\ profile(b.config.enforce))
        /\ \/ f.mutation = "error"
           \/ /\ f.mutation \in {"create", "changed"}
              /\ f.inScopeObject
              /\ ~profile(f.skipObject)
              /\ f.inScopeUser \/ ~(f.skipUser \/ profile(f.commonSkipUser))
              /\ f.signature \in {"unverified", "error"} \/ f.images = "error"

\* The response of ProcessRequest is "deny" exactly when the mode it loaded is
\* not detect and some listed constraint that matched refuses the request under
\* the configuration its own RequestHandler call loaded.
ReplyMatchesPolicy ==
    \A h \in Handlers : pc[h] = "reply" =>
        (reply[h] = "deny" <=>
            /\ ~ac[h].detect
            /\ \E res \in results[h] : \E b \in res.basis : PolicyRefuses(b))

\* A refused request can be seen as an Event about its object once its handler
\* is done, if no call failed and no Event expired: when the Create or Update of
\* createOrUpdateEvent is rejected, another handler has written that Event.
RefusalIsVisible ==
    (~ApiFaults /\ edits = 0) =>
        \A c \in Constraints : \A r \in refused[c] :
            (\A h \in Handlers : req[h] # r) => event[ObjectOf[r]].live

\* A write of the status leaves the spec of the MIP as the admin last set it,
\* although updateConstraintStatus writes the whole object it read earlier.
StatusWriteKeepsSpec ==
    [][\A c \in Constraints :
         mip'[c].denyCount > mip[c].denyCount => mip'[c].action = mip[c].action]_vars

\* Every webhook call ends and the API server has an answer for it, or has
\* given up waiting: ProcessRequest never blocks on its own bookkeeping.
EveryRequestAnswered ==
    \A h \in Handlers, r \in Requests :
        req[h] = r ~> (req[h] # r /\ answer[r] # "none")
=============================================================================
