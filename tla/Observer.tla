------------------------------ MODULE Observer ------------------------------
(***************************************************************************)
(* The observer (observer/main.go, observer/pkg/observer): a pod that, at  *)
(* every tick, reads the Gatekeeper constraints, lists the resources they  *)
(* select, verifies the listed copies and writes one ManifestIntegrityState*)
(* per constraint and a ConfigMap with the details of all of them.         *)
(*                                                                         *)
(* Every call to the API server is a step, so resources, constraints and   *)
(* namespaces change, another observer pod writes, or the pod is killed,   *)
(* between any two of them.                                                *)
(***************************************************************************)
EXTENDS Matching, Naturals, FiniteSets, TLC

CONSTANTS
    Pods, First,     \* the observer pods, and the one that is running at first
    Objects,         \* resources of the cluster
    Contents,        \* what they can contain: [sig, images]
    Constraints,     \* sequence of [name, match, inform]
    NamespaceLabels, \* labels of the namespaces that can be read
    APIResources,    \* the discovered API resources, in order
    ExportDetail,    \* EXPORT_DETAIL_RESULT
    MaxEdits, MaxFaults

MatchConditions ==
    [kinds : Seq([kinds : SUBSET STRING, apiGroups : SUBSET STRING]),
     namespaces : Seq(STRING), excluded : SUBSET STRING,
     labelSelector : SUBSET SUBSET STRING, namespaceSelector : SUBSET SUBSET STRING]

ASSUME ObserverAssumption ==
    /\ First \in Pods
    /\ \A content \in Contents : content.sig \in {"verified", "unverified"}
    /\ Constraints \in Seq([name : STRING, match : MatchConditions, inform : BOOLEAN])
    /\ \A labels \in NamespaceLabels : DOMAIN labels \subseteq STRING /\ IsFiniteSet(DOMAIN labels)
    /\ MaxEdits \in Nat /\ MaxFaults \in Nat

Absent == [sig |-> "absent", images |-> "off"]
None   == [constraint |-> 0]

VARIABLES
    live,       \* content of every resource
    applied,    \* the constraints in the cluster
    nsLabels,
    mis,        \* the ManifestIntegrityState of every constraint name
    detail,     \* the ConfigMap: None, or one summary per constraint
    interval,   \* INTERVAL is a positive number
    pod,        \* the local state of every pod
    edits, faults

vars == <<live, applied, nsLabels, mis, detail, interval, pod, edits, faults>>

Names == {Constraints[c].name : c \in DOMAIN Constraints}

Steps == {"off", "init", "config", "constraints", "select", "list", "verify", "get", "put",
          "detailGet", "detailPut", "wait"}

Down == [pc |-> "init", config |-> "none", todo |-> <<>>, calls |-> <<>>, listed |-> {},
         changed |-> {}, extent |-> "complete", results |-> <<>>, got |-> "none"]

TypeOK ==
    /\ live \in [Objects -> Contents \union {Absent}]
    /\ applied \subseteq DOMAIN Constraints
    /\ nsLabels \in NamespaceLabels
    /\ DOMAIN mis = Names
    /\ DOMAIN pod = Pods
    /\ \A p \in Pods :
         /\ DOMAIN pod[p] = DOMAIN Down
         /\ pod[p].pc \in Steps
         /\ pod[p].config \in {"none", "loaded"}
         /\ pod[p].todo \in Seq(DOMAIN Constraints)
         /\ \A e \in pod[p].listed : e.object \in Objects
         /\ pod[p].changed \subseteq Objects
         /\ pod[p].extent \in {"complete", "partial"}
         /\ pod[p].got \in {"none", "create", "update", "conflict"}
         /\ pod[p].got # "none" <=> pod[p].pc \in {"put", "detailPut"}
         /\ pod[p].pc \in {"list", "verify", "get", "put"} => pod[p].todo # <<>>
         /\ pod[p].pc = "list" <=> DOMAIN pod[p].calls # {}
         /\ pod[p].pc \in {"get", "put"} => pod[p].results # <<>>
    /\ edits \in 0..MaxEdits /\ faults \in 0..MaxFaults

Init ==
    /\ \E content \in Contents : live = [o \in Objects |-> content]
    /\ applied = DOMAIN Constraints
    /\ nsLabels \in NamespaceLabels
    /\ mis = [n \in Names |-> None]
    /\ detail = None
    /\ interval \in BOOLEAN
    /\ pod = [p \in Pods |-> IF p = First THEN Down ELSE [Down EXCEPT !.pc = "off"]]
    /\ edits = 0 /\ faults = 0

-----------------------------------------------------------------------------
(* The cluster *)

\* changed (history): the resources that a summary, or the summary that a pod is
\* collecting, need not describe as they are now.
Touch(s, objs) == IF s = None THEN s ELSE [s EXCEPT !.changed = @ \union objs]

TouchAll(objs) ==
    /\ mis' = [n \in Names |-> Touch(mis[n], objs)]
    /\ detail' = IF detail = None THEN None
                 ELSE [detail EXCEPT !.results =
                         [i \in DOMAIN @ |-> Touch(detail.results[i], objs)]]
    /\ pod' = [p \in Pods |-> [pod[p] EXCEPT
                 !.changed = @ \union objs,
                 !.results = [i \in DOMAIN @ |-> Touch(pod[p].results[i], objs)]]]

Edit ==
    /\ edits < MaxEdits
    /\ edits' = edits + 1

EditObject ==
    /\ Edit
    /\ \E o \in Objects : \E content \in (Contents \union {Absent}) \ {live[o]} :
         live' = [live EXCEPT ![o] = content] /\ TouchAll({o})
    /\ UNCHANGED <<applied, nsLabels, interval, faults>>

EditNamespaces ==
    /\ Edit
    /\ nsLabels' \in NamespaceLabels \ {nsLabels}
    /\ TouchAll(Objects)
    /\ UNCHANGED <<live, applied, interval, faults>>

EditConstraints ==
    /\ Edit
    /\ \E c \in DOMAIN Constraints :
         applied' = IF c \in applied THEN applied \ {c} ELSE applied \union {c}
    /\ UNCHANGED <<live, nsLabels, mis, detail, interval, pod, faults>>

-----------------------------------------------------------------------------
(* The pod *)

Goto(p, state) == pod' = [pod EXCEPT ![p] = state]
Fault == faults < MaxFaults /\ faults' = faults + 1
Cluster == <<live, applied, nsLabels, interval, edits>>
Stored  == <<mis, detail>>

\* Mutant: a panic is recovered, and the observer starts again with what it had.
MemorySurvives(p) == pod' = [pod EXCEPT ![p].pc = "init"]

\* A panic, main returning, or the pod being killed; its container restarts.
Restart(p) == pod' = [pod EXCEPT ![p] = Down]

\* A read that succeeds or fails.
Read(p, ok, failed) == \/ Goto(p, ok) /\ UNCHANGED faults
                       \/ Goto(p, failed) /\ Fault

Killed(p) ==
    /\ pod[p].pc \notin {"off", "init"}
    /\ Restart(p) /\ Fault
    /\ UNCHANGED <<Cluster, Stored>>

\* A rolling update, or a second replica: both pods run from then on.
StartPod(p) ==
    /\ pod[p].pc = "off"
    /\ Restart(p) /\ Fault
    /\ UNCHANGED <<Cluster, Stored>>

\* getAPIResources at start; main returns if the discovery fails.
InitObserver(p) ==
    /\ pod[p].pc = "init"
    /\ Read(p, [pod[p] EXCEPT !.pc = "config"], pod[p])
    /\ UNCHANGED <<Cluster, Stored>>

\* The error is only logged.
LoadConfig(p) ==
    /\ pod[p].pc = "config"
    /\ Read(p, [pod[p] EXCEPT !.pc = "constraints", !.config = "loaded"],
               [pod[p] EXCEPT !.pc = "constraints", !.config = "none"])
    /\ UNCHANGED <<Cluster, Stored>>

\* The end of a pass: main creates its ticker after the first one, which panics
\* if the interval is not positive.
EndPass(p) == IF interval THEN Goto(p, [Down EXCEPT !.pc = "wait"]) ELSE Restart(p)

\* Without the resource type the pass ends; another error is logged and there
\* are no constraints.  A configuration that was not loaded is used next.
loadConstraints(p) ==
    /\ pod[p].pc = "constraints"
    /\ \/ Fault /\ EndPass(p)
       \/ \E loaded \in {InListOrder(applied), <<>>} :
            /\ IF loaded = <<>> /\ applied # {} THEN Fault ELSE UNCHANGED faults
            /\ IF pod[p].config = "loaded"
               THEN Goto(p, [pod[p] EXCEPT !.pc = "select", !.todo = loaded])
               ELSE Restart(p)
    /\ UNCHANGED <<Cluster, Stored>>

Current(p) == Constraints[Head(pod[p].todo)]

Targets(match, labels) == getPossibleProtectedGVKs(match, APIResources, labels)

\* Their List calls: the call at <<i, j>> is the j-th of the i-th target.
CallsOf(targets) ==
    LET lists == [i \in DOMAIN targets |-> ListCalls(targets[i])]
    IN  [at \in UNION {{i} \X DOMAIN lists[i] : i \in DOMAIN lists} |-> lists[at[1]][at[2]]]

\* Where the loop over the targets stands when these calls are left.
Looping(calls) == IF DOMAIN calls = {} THEN "verify" ELSE "list"

\* Mutant: the resources of the constraint before are still in the list.
ListNotReset(p) ==
    /\ pod[p].pc = "select" /\ pod[p].todo # <<>>
    /\ LET calls == CallsOf(Targets(Current(p).match, nsLabels))
       IN  Goto(p, [pod[p] EXCEPT !.pc = Looping(calls), !.calls = calls,
                                  !.changed = {}, !.extent = "complete"])
    /\ UNCHANGED <<Cluster, Stored, faults>>

\* If the namespaces cannot be listed, only those that the constraint names.
Select(p) ==
    /\ pod[p].pc = "select" /\ pod[p].todo # <<>>
    /\ \E labels \in {nsLabels, <<>>} :
         /\ IF labels = nsLabels THEN UNCHANGED faults
            ELSE Current(p).match.namespaceSelector # {} /\ Fault
         /\ \E targets \in {Targets(Current(p).match, labels)} :
            \E calls \in {CallsOf(targets)} :
               Goto(p, [pod[p] EXCEPT
                   !.pc = Looping(calls), !.calls = calls, !.listed = {}, !.changed = {},
                   !.extent = IF labels = nsLabels THEN "complete" ELSE "partial"])
    /\ UNCHANGED <<Cluster, Stored>>

\* The copies that a List call returns; the place of the call keeps apart the
\* copies of a resource that two calls return.
Listing(at, call) ==
    {[at |-> at, object |-> o, content |-> live[o]] :
        o \in {x \in Objects : live[x] # Absent /\ Answers(call, x)}}

\* The calls are made target by target, in order.
IsNext(at, calls) ==
    \A b \in DOMAIN calls : at[1] < b[1] \/ (at[1] = b[1] /\ at[2] <= b[2])

\* One List call.  One that fails drops what the target had so far; on a
\* cluster-scoped resource the nil list is used, a panic.
getAllResoucesByGroupResource(p) ==
    /\ pod[p].pc = "list"
    /\ \E at \in DOMAIN pod[p].calls :
         LET calls   == pod[p].calls
             rest    == Restrict(calls, DOMAIN calls \ {at})
             others  == Restrict(calls, {b \in DOMAIN calls : b[1] # at[1]})
         IN  /\ IsNext(at, calls)
             /\ \/ /\ Goto(p, [pod[p] EXCEPT
                             !.pc = Looping(rest), !.calls = rest,
                             !.listed = @ \union Listing(at, calls[at])])
                   /\ UNCHANGED faults
                \/ /\ Fault
                   /\ IF calls[at].resource.namespaced
                      THEN Goto(p, [pod[p] EXCEPT
                             !.pc = Looping(others), !.calls = others,
                             !.listed = {e \in @ : e.at[1] # at[1]},
                             !.extent = "partial"])
                      ELSE Restart(p)
    /\ UNCHANGED <<Cluster, Stored>>

\* An error and a resource that is not in scope are violations as well.
ObserveResource(sig, error) == error \/ sig # "verified"

\* VerifyImageInManifest returns an error unless all images are verified.
ObserveImage(images) == images # "error"

\* The loop over the listed copies; a verification can fail with an error.
Summary(state, error) ==
    LET bad(r)    == \/ ObserveResource(r.content.sig, r.object \in error)
                     \/ ~ObserveImage(r.content.images)
        result(r) == [at |-> r.at, object |-> r.object]
    IN  [constraint    |-> Head(state.todo),
         violations    |-> {result(r) : r \in {x \in state.listed : bad(x)}},
         nonViolations |-> {result(r) : r \in {x \in state.listed : ~bad(x)}},
         ignored       |-> ~Constraints[Head(state.todo)].inform,
         changed       |-> state.changed \union error,
         extent        |-> state.extent]

Verify(p) ==
    /\ pod[p].pc = "verify"
    /\ \E error \in SUBSET {r.object : r \in pod[p].listed} :
         /\ IF error # {} THEN Cardinality(error) = 1 /\ Fault ELSE UNCHANGED faults
         /\ Goto(p, [pod[p] EXCEPT !.pc = "get", !.results = Append(@, Summary(pod[p], error)),
                                   !.changed = {}, !.extent = "complete"])
    /\ UNCHANGED <<Cluster, Stored>>

\* A Get whose error, whatever it is, leads to a Create.
Get(p, stored, put) ==
    /\ LET next(got) == [pod[p] EXCEPT !.pc = put, !.got = got]
       IN  IF stored = None THEN Goto(p, next("create")) /\ UNCHANGED faults
           ELSE Read(p, next("update"), next("create"))
    /\ UNCHANGED <<Cluster, Stored>>

\* The Create or Update succeeds; a Create needs the name to be free, an Update
\* the version that was read.
Accepted(p, stored) ==
    IF stored = None THEN pod[p].got = "create" ELSE pod[p].got = "update"

\* The version that another pod read is no longer the stored one.
Conflict(p, step, name) ==
    {q \in Pods \ {p} : /\ pod[q].pc = step /\ pod[q].got = "update"
                        /\ step = "put" => Current(q).name = name}

Advance(p, step, name, state) ==
    pod' = [q \in Pods |-> IF q = p THEN state
                           ELSE IF q \in Conflict(p, step, name)
                                THEN [pod[q] EXCEPT !.got = "conflict"] ELSE pod[q]]

\* Mutant: a state that is there is left as it is.
CreateOnly(p) ==
    pod[p].pc = "get" /\ Goto(p, [pod[p] EXCEPT !.pc = "put", !.got = "create"])
    /\ UNCHANGED <<Cluster, Stored, faults>>

exportVerifyResultGet(p) ==
    pod[p].pc = "get" /\ Get(p, mis[Current(p).name], "put")

\* The error of the export is dropped.
exportVerifyResultPut(p) ==
    /\ pod[p].pc = "put"
    /\ LET name == Current(p).name
           next == [pod[p] EXCEPT !.pc = "select", !.todo = Tail(@), !.got = "none"]
       IN  \/ /\ Accepted(p, mis[name])
              /\ mis' = [mis EXCEPT ![name] = pod[p].results[Len(pod[p].results)]]
              /\ Advance(p, "put", name, next)
              /\ UNCHANGED faults
           \/ /\ IF Accepted(p, mis[name]) THEN Fault ELSE UNCHANGED faults
              /\ Goto(p, next)
              /\ UNCHANGED mis
    /\ UNCHANGED <<Cluster, detail>>

\* The loop is over: no details to export, or the ConfigMap is read.
exportResultDetailGet(p) ==
    /\ pod[p].pc = "select" /\ pod[p].todo = <<>>
    /\ IF ~ExportDetail \/ pod[p].results = <<>>
       THEN EndPass(p) /\ UNCHANGED <<faults, Cluster, Stored>>
       ELSE Get(p, detail, "detailPut")

exportResultDetailPut(p) ==
    /\ pod[p].pc = "detailPut"
    /\ LET after == IF interval THEN [Down EXCEPT !.pc = "wait"] ELSE Down
       IN  \/ /\ Accepted(p, detail)
              /\ detail' = [constraint |-> 1, results |-> pod[p].results]
              /\ Advance(p, "detailPut", "", after)
              /\ UNCHANGED faults
           \/ /\ IF Accepted(p, detail) THEN Fault ELSE UNCHANGED faults
              /\ Goto(p, after)
              /\ UNCHANGED detail
    /\ UNCHANGED <<Cluster, mis>>

Tick(p) ==
    /\ pod[p].pc = "wait"
    /\ Goto(p, [pod[p] EXCEPT !.pc = "config"])
    /\ UNCHANGED <<Cluster, Stored, faults>>

Step(p) ==
    \/ InitObserver(p) \/ LoadConfig(p) \/ loadConstraints(p) \/ Select(p)
    \/ getAllResoucesByGroupResource(p) \/ Verify(p)
    \/ exportVerifyResultGet(p) \/ exportVerifyResultPut(p)
    \/ exportResultDetailGet(p) \/ exportResultDetailPut(p) \/ Tick(p)

Next ==
    \/ EditObject \/ EditNamespaces \/ EditConstraints
    \/ \E p \in Pods : Step(p) \/ Killed(p) \/ StartPod(p)

\* Calls return, the ticker ticks and a container restarts: every pod that can
\* take a step takes one.
Spec == Init /\ [][Next]_vars /\ \A p \in Pods : WF_vars(Step(p))

-----------------------------------------------------------------------------
(* Properties *)

\* A content the observer should report as a violation.
Violates(content) == content.sig = "unverified" \/ content.images = "error"

\* The places of the List calls that return a resource: two if its namespace is
\* both named and selected by its labels.
Listings(calls, content, o) ==
    {at \in DOMAIN calls : content # Absent /\ Answers(calls[at], o)}

\* What a summary says of a resource with this content is true: it is listed on
\* the right side, and nothing is missing unless a list failed on the way.
IsTrueOf(s, calls, content, o) ==
    LET of(results) == {r.at : r \in {x \in results : x.object = o}}
        found       == of(s.violations \union s.nonViolations)
    IN  /\ of(s.violations) # {} => Violates(content)
        /\ of(s.nonViolations) # {} => ~Violates(content)
        /\ found \subseteq Listings(calls, content, o)
        /\ s.extent = "complete" => Listings(calls, content, o) \subseteq found

\* ... and of all the resources that it must describe.
IsTrue(s, contents, labels) ==
    LET calls == CallsOf(Targets(Constraints[s.constraint].match, labels))
    IN  \A o \in Objects \ s.changed : IsTrueOf(s, calls, contents[o], o)

Summaries == {mis[n] : n \in Names} \union (IF detail = None THEN {} ELSE Range(detail.results))

\* What a summary says of a resource that has not changed since the pass that
\* wrote it selected the resources is true now.  It holds whatever else changed,
\* crashed or wrote in between.
ReportsAreTrue == \A s \in Summaries \ {None} : IsTrue(s, live, nsLabels)

\* A fresh, complete summary of a constraint.
UpToDate(s, c) ==
    /\ s # None /\ s.constraint = c /\ s.extent = "complete" /\ s.changed = {}
    /\ s.ignored = ~Constraints[c].inform

\* However often calls fail, resources change or the pod restarts, once that
\* stops every constraint has a complete and up-to-date ManifestIntegrityState,
\* and the details are those of the constraints in force: a failed pass is made
\* up for by the next one.
StateConverges ==
    <>[] /\ \A c \in applied : UpToDate(mis[Constraints[c].name], c)
         /\ (ExportDetail /\ applied # {}) =>
              /\ detail # None
              /\ Len(detail.results) = Cardinality(applied)
              /\ \A s \in Range(detail.results) : s.constraint \in applied /\ UpToDate(s, s.constraint)
=============================================================================
