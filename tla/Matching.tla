------------------------------ MODULE Matching ------------------------------
(***************************************************************************)
(* How requests and stored resources are matched with the lists of the     *)
(* configurations and constraints: the admission controller's matchers     *)
(* (webhook/admission-controller/pkg), the matchers of the constraint      *)
(* parameters (shield/pkg/config/parameter.go) and the observer's own      *)
(* selection (observer/pkg/observer/observer.go).                          *)
(*                                                                         *)
(* A pattern is a value or a wildcard.  An object is a record with its     *)
(* group ("" for the core group), version, kind, ns ("" if cluster-scoped),*)
(* name and labels.  An optional label selector is a set with at most one  *)
(* element, the labels it requires.  nsLabels maps the namespaces that can *)
(* be read to their labels.                                                *)
(***************************************************************************)
EXTENDS Sequences, FiniteSets, FiniteSetsExt, Functions

\* The patterns of k8s-manifest-sigstore that match every value.  Nothing in this
\* repository tells whether the empty one does.
CONSTANT Wildcards

ASSUME WildcardAssumption == Wildcards \in {{"*"}, {"*", ""}}

\* Its MatchPattern and MatchWithPatternArray.
MatchPattern(pattern, value)           == pattern \in Wildcards \union {value}
MatchWithPatternArray(value, patterns) == \E p \in patterns : MatchPattern(p, value)

\* A field that an entry leaves out matches anything.
MatchField(pattern, value) == pattern = "" \/ MatchPattern(pattern, value)

\* ObjectReferenceList.Match: no reference at all matches everything.
ObjectReferenceListMatch(refs, obj) ==
    \/ refs = {}
    \/ \E r \in refs : MatchField(r.kind, obj.kind) /\ MatchField(r.name, obj.name)

SelectorMatches(selector, labels) == \A required \in selector : required \subseteq labels

-----------------------------------------------------------------------------
(* Admission controller configuration *)

\* InScopeNamespaceSelector: [include, exclude].
NamespaceSelectorMatch(selector, ns) ==
    /\ selector.include = {} \/ MatchWithPatternArray(ns, selector.include)
    /\ ~MatchWithPatternArray(ns, selector.exclude)

\* Allow.Kinds.
AllowMatch(kinds, obj) ==
    \E k \in kinds :
        /\ MatchField(k.group, obj.group) /\ MatchField(k.version, obj.version)
        /\ MatchField(k.kind, obj.kind)

-----------------------------------------------------------------------------
(* MatchCondition of a ManifestIntegrityProfile: [kinds, namespaces, excluded,
   labelSelector, namespaceSelector], kinds and namespaces being sequences *)

checkNamespaceMatch(obj, namespaces) ==
    \/ namespaces = <<>> \/ obj.ns = ""
    \/ MatchWithPatternArray(obj.ns, Range(namespaces))

checkKindMatch(obj, kinds) ==
    \/ kinds = <<>>
    \/ \E k \in Range(kinds) :
         /\ k.kinds = {} \/ MatchWithPatternArray(obj.kind, k.kinds)
         /\ k.apiGroups = {} \/ MatchWithPatternArray(obj.group, k.apiGroups)

checkLabelMatch(obj, selector) == SelectorMatches(selector, obj.labels)

\* A namespace that cannot be read, as that of a cluster-scoped object, does
\* not match a selector.
checkNamespaceLabelMatch(ns, selector, nsLabels) ==
    selector # {} => ns \in DOMAIN nsLabels /\ SelectorMatches(selector, nsLabels[ns])

\* Mutant: a namespace that is listed is not excluded.
ListedBeforeExcluded(obj, match, nsLabels) ==
    /\ obj.ns \in Range(match.namespaces) \/ ~MatchWithPatternArray(obj.ns, match.excluded)
    /\ checkNamespaceMatch(obj, match.namespaces)
    /\ checkKindMatch(obj, match.kinds)
    /\ checkLabelMatch(obj, match.labelSelector)
    /\ checkNamespaceLabelMatch(obj.ns, match.namespaceSelector, nsLabels)

matchCheck(obj, match, nsLabels) ==
    /\ ~MatchWithPatternArray(obj.ns, match.excluded)
    /\ checkNamespaceMatch(obj, match.namespaces)
    /\ checkKindMatch(obj, match.kinds)
    /\ checkLabelMatch(obj, match.labelSelector)
    /\ checkNamespaceLabelMatch(obj.ns, match.namespaceSelector, nsLabels)

-----------------------------------------------------------------------------
(* Constraint parameters *)

ObjectUserBindingMatch(binding, obj, user) ==
    ObjectReferenceListMatch(binding.objects, obj) /\ MatchWithPatternArray(user, binding.users)

ObjectUserBindingListMatch(bindings, obj, user) ==
    \E b \in bindings : ObjectUserBindingMatch(b, obj, user)

\* Mutant: the length of the list is not checked.
EmptySkipsEverything(refs, obj) == ObjectReferenceListMatch(refs, obj)

\* Unlike the list's own Match, an empty list of skipped objects skips nothing.
skipObjectsMatch(refs, obj) == refs # {} /\ ObjectReferenceListMatch(refs, obj)

ImageProfileEnabled(profile) == profile.match # {} \/ profile.exclude # {}

-----------------------------------------------------------------------------
(* The observer: which resources a Gatekeeper constraint makes it list *)

\* Mutant: one of the two tests is enough.
KindOrGroup(entry, resource) ==
    \/ entry.apiGroups = {}
    \/ resource.group \in entry.apiGroups \/ resource.kind \in entry.kinds

\* Groups and kinds are compared literally; an entry without apiGroups matches
\* every kind, whatever its kinds are.
EntryMatches(entry, resource) ==
    \/ entry.apiGroups = {}
    \/ resource.group \in entry.apiGroups /\ resource.kind \in entry.kinds

\* A set in the order in which the API server lists it, whatever that is.
InListOrder(S) == CHOOSE list \in [1..Cardinality(S) -> S] : IsInjective(list)

getLabelMatchedNamespace(selector, nsLabels) ==
    IF selector = {} THEN <<>>
    ELSE InListOrder({ns \in DOMAIN nsLabels : SelectorMatches(selector, nsLabels[ns])})

\* One target per matching entry, with the listed and the selected namespaces.
checkIfRuleMatchWithGVK(match, resource, nsLabels) ==
    LET hits == {i \in DOMAIN match.kinds : EntryMatches(match.kinds[i], resource)} IN
    [i \in 1..Cardinality(hits) |->
        [resource   |-> resource,
         namespaces |-> match.namespaces
                        \o getLabelMatchedNamespace(match.namespaceSelector, nsLabels)]]

\* The search ends at the first API resource that matches.
getPossibleProtectedGVKs(match, resources, nsLabels) ==
    LET hits == {i \in DOMAIN resources :
                    checkIfRuleMatchWithGVK(match, resources[i], nsLabels) # <<>>}
    IN  IF hits = {} THEN <<>>
        ELSE checkIfRuleMatchWithGVK(match, resources[Min(hits)], nsLabels)

\* The List calls for a target, in order; "" lists a cluster-scoped resource.
ListCalls(target) ==
    IF target.resource.namespaced
    THEN [i \in DOMAIN target.namespaces |->
            [resource |-> target.resource, ns |-> target.namespaces[i]]]
    ELSE <<[resource |-> target.resource, ns |-> ""]>>

Answers(call, obj) ==
    obj.group = call.resource.group /\ obj.kind = call.resource.kind /\ obj.ns = call.ns

\* Whether the observer lists an object for a constraint.
Selected(obj, match, resources, nsLabels) ==
    \E target \in Range(getPossibleProtectedGVKs(match, resources, nsLabels)) :
        \E call \in Range(ListCalls(target)) : Answers(call, obj)
=============================================================================
