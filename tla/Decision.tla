------------------------------ MODULE Decision ------------------------------
(***************************************************************************)
(* ProcessRequest on one request and one constraint, with the lists the    *)
(* admin wrote in place of the facts of the module Admission: the filters  *)
(* of the admission controller, matchCheck with the labels it reads from   *)
(* the namespace, and RequestHandler with the facts its matchers compute.  *)
(***************************************************************************)
EXTENDS Matching, RequestHandler

CONSTANTS
    Inputs,         \* requests with the lists they are matched with
    NamespaceLabels, \* the labels of the namespaces that can be read
    APIResources    \* what the observer discovers, in order

\* What the lists of a constraint and of the configurations are made of.
References == [kind : STRING, name : STRING]
Bindings   == [objects : SUBSET References, users : SUBSET STRING]

\* A request, what the libraries answer about it, and the lists in force.
AllInputs ==
    [obj : [group : STRING, version : STRING, kind : STRING, ns : STRING, name : STRING,
            labels : SUBSET STRING],
     user : STRING, mutation : MutationOutcomes, signature : SignatureOutcomes,
     images : ImageOutcomes,
     scope : [include : SUBSET STRING, exclude : SUBSET STRING],
     allow : SUBSET [group : STRING, version : STRING, kind : STRING],
     match : [kinds : Seq([kinds : SUBSET STRING, apiGroups : SUBSET STRING]),
              namespaces : Seq(STRING), excluded : SUBSET STRING,
              labelSelector : SUBSET SUBSET STRING, namespaceSelector : SUBSET SUBSET STRING],
     skipUsers : SUBSET Bindings, inScopeUsers : SUBSET Bindings,
     commonSkipUsers : SUBSET Bindings, objectSelector : SUBSET References,
     skipObjects : SUBSET References,
     imageProfile : [match : SUBSET STRING, exclude : SUBSET STRING],
     action : Actions, enforce : BOOLEAN]

ASSUME DecisionAssumption ==
    /\ Inputs \subseteq AllInputs
    /\ APIResources \in Seq([group : STRING, kind : STRING, namespaced : BOOLEAN])
    /\ \A labels \in NamespaceLabels : IsFiniteSet(DOMAIN labels)

-----------------------------------------------------------------------------
VARIABLES
    input,      \* the request, the configurations and the constraint
    nsLabels,   \* the labels matchCheck reads
    stage,      \* next step of ProcessRequest
    outcome     \* its result so far

vars == <<input, nsLabels, stage, outcome>>

Stages == {"config", "match", "handle", "done"}

TypeOK ==
    /\ input \in AllInputs
    /\ stage \in Stages
    /\ outcome \in {"none", "outOfScope", "allowedKind", "unmatched", "allow", "refuse"}
    /\ stage = "done" <=> outcome # "none"

Init ==
    /\ input \in Inputs
    /\ nsLabels \in NamespaceLabels
    /\ stage = "config"
    /\ outcome = "none"

\* The facts of the module RequestHandler that the matchers decide.
FactsOf(in) ==
    [parsed         |-> TRUE,
     skipUser       |-> ObjectUserBindingListMatch(in.skipUsers, in.obj, in.user),
     commonSkipUser |-> ObjectUserBindingListMatch(in.commonSkipUsers, in.obj, in.user),
     inScopeUser    |-> ObjectUserBindingListMatch(in.inScopeUsers, in.obj, in.user),
     inScopeObject  |-> ObjectReferenceListMatch(in.objectSelector, in.obj),
     skipObject     |-> skipObjectsMatch(in.skipObjects, in.obj),
     mutation       |-> in.mutation,
     signature      |-> in.signature,
     images         |-> IF ImageProfileEnabled(in.imageProfile) THEN in.images ELSE "off"]

ConfigOf(in) == [load |-> "ok", enforce |-> in.enforce, denyEvent |-> FALSE]

Finish(result) ==
    /\ outcome' = result
    /\ stage' = "done"

CheckConfig ==
    /\ stage = "config"
    /\ \/ ~NamespaceSelectorMatch(input.scope, input.obj.ns) /\ Finish("outOfScope")
       \/ /\ NamespaceSelectorMatch(input.scope, input.obj.ns)
          /\ AllowMatch(input.allow, input.obj)
          /\ Finish("allowedKind")
       \/ /\ NamespaceSelectorMatch(input.scope, input.obj.ns)
          /\ ~AllowMatch(input.allow, input.obj)
          /\ stage' = "match"
          /\ UNCHANGED outcome
    /\ UNCHANGED <<input, nsLabels>>

\* Mutant: the loop goes on with a constraint that does not match.
NotContinued ==
    /\ stage = "match"
    /\ stage' = "handle"
    /\ outcome' = IF matchCheck(input.obj, input.match, nsLabels) THEN "none" ELSE "unmatched"
    /\ UNCHANGED <<input, nsLabels>>

CheckMatch ==
    /\ stage = "match"
    /\ \/ ~matchCheck(input.obj, input.match, nsLabels) /\ Finish("unmatched")
       \/ /\ matchCheck(input.obj, input.match, nsLabels)
          /\ stage' = "handle"
          /\ UNCHANGED outcome
    /\ UNCHANGED <<input, nsLabels>>

CallRequestHandler ==
    /\ stage = "handle"
    /\ Finish(IF Handle(FactsOf(input), input.action, ConfigOf(input)).allow
              THEN "allow" ELSE "refuse")
    /\ UNCHANGED <<input, nsLabels>>

Next == CheckConfig \/ CheckMatch \/ CallRequestHandler

Spec == Init /\ [][Next]_vars

-----------------------------------------------------------------------------
(* Properties *)

\* The request is named by one of the lists of exceptions.  SkipUsers is the one
\* that InScopeUsers overrides, and the lists of RequestHandler do not help an
\* update whose mutation check fails.
Exempt(in) ==
    \/ MatchWithPatternArray(in.obj.ns, in.scope.exclude \union in.match.excluded)
    \/ AllowMatch(in.allow, in.obj)
    \/ /\ in.mutation # "error"
       /\ \E ref \in in.skipObjects : ObjectReferenceListMatch({ref}, in.obj)
    \/ /\ in.mutation # "error"
       /\ \E b \in in.skipUsers \union in.commonSkipUsers :
            ObjectReferenceListMatch(b.objects, in.obj) /\ MatchWithPatternArray(in.user, b.users)
       /\ ~ObjectUserBindingListMatch(in.inScopeUsers, in.obj, in.user)

\* An exception in any of the lists lets the request pass, whatever the other
\* lists say: ProcessRequest, matchCheck and RequestHandler test exclusions
\* before inclusions.
ExceptionsHold == outcome = "refuse" => ~Exempt(input)

\* The same pipeline in one piece.
Refuses(in) ==
    /\ NamespaceSelectorMatch(in.scope, in.obj.ns)
    /\ ~AllowMatch(in.allow, in.obj)
    /\ matchCheck(in.obj, in.match, nsLabels)
    /\ ~Handle(FactsOf(in), in.action, ConfigOf(in)).allow

\* The input with an entry about something else in one list of exceptions.
UnrelatedExceptions(in) ==
    LET object  == [kind |-> in.obj.kind, name |-> "another"]
        binding == [objects |-> {object}, users |-> {"*"}]
        kind    == [group |-> "", version |-> "", kind |-> "another"]
    IN  {[in EXCEPT !.skipObjects = @ \union {object}],
         [in EXCEPT !.skipUsers = @ \union {binding}],
         [in EXCEPT !.commonSkipUsers = @ \union {binding}],
         [in EXCEPT !.allow = @ \union {kind}],
         [in EXCEPT !.scope.exclude = @ \union {"another"}],
         [in EXCEPT !.match.excluded = @ \union {"another"}]}

\* An exception for something else changes nothing for this request: no list of
\* exceptions has a default that its first entry takes away, although the lists
\* of objects that RequestHandler uses match everything when they are empty.
ExceptionsAreLocal ==
    outcome # "none" =>
        \A other \in UnrelatedExceptions(input) : Refuses(other) <=> outcome = "refuse"

Literal(values) == values # {} /\ values \intersect Wildcards = {}

\* A single entry of literal groups and kinds that names one API resource,
\* literal namespaces or a namespace selector, and no other condition.
Simple(match) ==
    /\ Len(match.kinds) = 1
    /\ Literal(match.kinds[1].kinds) /\ Literal(match.kinds[1].apiGroups)
    /\ \A r, s \in Range(APIResources) :
         r.group \in match.kinds[1].apiGroups /\ r.kind \in match.kinds[1].kinds
         /\ s.group \in match.kinds[1].apiGroups /\ s.kind \in match.kinds[1].kinds => r = s
    /\ \/ match.namespaceSelector = {} /\ Literal(Range(match.namespaces))
       \/ match.namespaceSelector # {} /\ match.namespaces = <<>>
    /\ match.excluded = {} /\ match.labelSelector = {}

\* The objects that are in a namespace are of resources the observer discovered
\* when it started.
AllDiscovered ==
    \A in \in Inputs : in.obj.ns # "" =>
        \E r \in Range(APIResources) :
            r.group = in.obj.group /\ r.kind = in.obj.kind /\ r.namespaced

\* The observer lists an object for a constraint exactly if the admission
\* controller checks it against the same match, where the condition is simple
\* and the object is in a namespace: two implementations of matching agree there
\* (beyond it they do not: the observer has no patterns, stops at the first API
\* resource and ignores the exclusions and the label selector; if the empty
\* pattern is a wildcard, the core group is a pattern to the webhook only).
ObserverAgrees ==
    (Simple(input.match) /\ input.obj.ns # "") =>
        (Selected(input.obj, input.match, APIResources, nsLabels)
         <=> matchCheck(input.obj, input.match, nsLabels))
=============================================================================
