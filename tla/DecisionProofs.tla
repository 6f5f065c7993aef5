--------------------------- MODULE DecisionProofs ---------------------------
(***************************************************************************)
(* Proofs about Decision: the stages of ProcessRequest together decide as  *)
(* one predicate of the input, exceptions hold, and an exception for       *)
(* something else changes nothing, for all inputs and namespace labels.    *)
(***************************************************************************)
EXTENDS Decision, FiniteSetTheorems, WellFoundedInduction, TLAPS

-----------------------------------------------------------------------------
(* RequestHandler on the facts of an input *)

Enforced(in) == IF in.action = "unset" THEN in.enforce ELSE in.action = "enforce"

UserSkipped(in) ==
    /\ \/ ObjectUserBindingListMatch(in.skipUsers, in.obj, in.user)
       \/ ObjectUserBindingListMatch(in.commonSkipUsers, in.obj, in.user)
    /\ ~ObjectUserBindingListMatch(in.inScopeUsers, in.obj, in.user)

Accepted(in) ==
    /\ in.signature \in {"verified", "outOfScope"}
    /\ ImageProfileEnabled(in.imageProfile) => in.images # "error"

\* The reasons for which RequestHandler lets a request pass.
Passes(in) ==
    /\ in.mutation # "error"
    /\ \/ in.mutation = "unchanged"
       \/ UserSkipped(in)
       \/ ~ObjectReferenceListMatch(in.objectSelector, in.obj)
       \/ skipObjectsMatch(in.skipObjects, in.obj)
       \/ Accepted(in)

\* RequestHandler allows a request that passes, and one that it does not enforce.
LEMMA HandleAllows ==
    ASSUME NEW in
    PROVE  Handle(FactsOf(in), in.action, ConfigOf(in)).allow <=> Passes(in) \/ ~Enforced(in)
<1> DEFINE facts == FactsOf(in)
           config == ConfigOf(in)
<1>1. /\ facts.parsed = TRUE /\ facts.mutation = in.mutation
      /\ facts.signature = in.signature
      /\ facts.images = IF ImageProfileEnabled(in.imageProfile) THEN in.images ELSE "off"
  BY Zenon DEF FactsOf
<1>2. /\ facts.skipUser <=> ObjectUserBindingListMatch(in.skipUsers, in.obj, in.user)
      /\ facts.commonSkipUser
           <=> ObjectUserBindingListMatch(in.commonSkipUsers, in.obj, in.user)
      /\ facts.inScopeUser <=> ObjectUserBindingListMatch(in.inScopeUsers, in.obj, in.user)
      /\ facts.inScopeObject <=> ObjectReferenceListMatch(in.objectSelector, in.obj)
      /\ facts.skipObject <=> skipObjectsMatch(in.skipObjects, in.obj)
  BY Zenon DEF FactsOf
<1>3. config.load = "ok" /\ config.enforce = in.enforce
  BY Zenon DEF ConfigOf
<1> HIDE DEF facts, config
<1>4. Verdict(facts, config) <=>
        \/ UserSkipped(in) \/ ~ObjectReferenceListMatch(in.objectSelector, in.obj)
        \/ skipObjectsMatch(in.skipObjects, in.obj) \/ Accepted(in)
  <2>1. SkippedUser(facts, config) <=> UserSkipped(in)
    BY Zenon, <1>2, <1>3 DEF SkippedUser, CommonFilter, UserSkipped
  <2>2. SignaturesAccepted(facts) <=> Accepted(in)
    BY Zenon, <1>1 DEF SignaturesAccepted, Accepted
  <2> QED
    BY Zenon, <1>2, <1>3, <2>1, <2>2 DEF Verdict, CommonFilter
<1>5. Enforce(in.action, config) <=> Enforced(in)
  BY Zenon, <1>3 DEF Enforce, Enforced, EffectiveConfig
<1>6. Handle(facts, in.action, config).allow <=>
        IF facts.mutation = "error" THEN ~Enforce(in.action, config)
        ELSE IF facts.mutation = "unchanged" THEN TRUE
        ELSE Verdict(facts, config) \/ ~Enforce(in.action, config)
  BY ZenonT(60), <1>1, <1>3 DEF Handle, makeResultFromRequestHandler
<1>7. Handle(facts, in.action, config).allow <=> Passes(in) \/ ~Enforced(in)
  BY <1>1, <1>4, <1>5, <1>6, Zenon DEF Passes
<1> QED
  BY Zenon, <1>7 DEF facts, config

-----------------------------------------------------------------------------
(* The stages decide as one predicate *)

\* A stage is reached by what passed the earlier ones, and the outcome is that of
\* the pipeline in one piece.
PipelineInv ==
    /\ stage \in {"match", "handle"} =>
         NamespaceSelectorMatch(input.scope, input.obj.ns) /\ ~AllowMatch(input.allow, input.obj)
    /\ stage = "handle" => matchCheck(input.obj, input.match, nsLabels)
    /\ outcome # "none" => (outcome = "refuse" <=> Refuses(input))

Inv == TypeOK /\ input \in Inputs /\ PipelineInv

\* Nothing is decided at the start.
LEMMA InvInit ==
    ASSUME Init
    PROVE  Inv
BY Zenon, DecisionAssumption DEF Init, Inv, TypeOK, Stages, PipelineInv

\* Every stage preserves the invariant.
LEMMA InvStep ==
    ASSUME Inv, [Next]_vars
    PROVE  Inv'
<1>i. TypeOK /\ input \in Inputs /\ PipelineInv
  BY Zenon DEF Inv
<1>1. CASE CheckConfig
  <2>1. UNCHANGED <<input, nsLabels>> /\ stage = "config" /\ outcome = "none"
    BY Zenon, <1>1, <1>i DEF CheckConfig, TypeOK
  <2>2. CASE \/ ~NamespaceSelectorMatch(input.scope, input.obj.ns) /\ Finish("outOfScope")
             \/ AllowMatch(input.allow, input.obj) /\ Finish("allowedKind")
    BY Zenon, <1>i, <2>1, <2>2 DEF Finish, Inv, TypeOK, Stages, PipelineInv, Refuses
  <2>3. CASE /\ NamespaceSelectorMatch(input.scope, input.obj.ns)
             /\ ~AllowMatch(input.allow, input.obj)
             /\ stage' = "match" /\ UNCHANGED outcome
    BY Zenon, <1>i, <2>1, <2>3 DEF Inv, TypeOK, Stages, PipelineInv
  <2> QED
    BY Zenon, <1>1, <2>2, <2>3 DEF CheckConfig
<1>2. CASE CheckMatch
  <2>1. UNCHANGED <<input, nsLabels>> /\ stage = "match" /\ outcome = "none"
    BY Zenon, <1>2, <1>i DEF CheckMatch, TypeOK
  <2>2. CASE ~matchCheck(input.obj, input.match, nsLabels) /\ Finish("unmatched")
    BY Zenon, <1>i, <2>1, <2>2 DEF Finish, Inv, TypeOK, Stages, PipelineInv, Refuses
  <2>3. CASE /\ matchCheck(input.obj, input.match, nsLabels)
             /\ stage' = "handle" /\ UNCHANGED outcome
    BY Zenon, <1>i, <2>1, <2>3 DEF Inv, TypeOK, Stages, PipelineInv
  <2> QED
    BY Zenon, <1>2, <2>2, <2>3 DEF CheckMatch
<1>3. CASE CallRequestHandler
  <2> DEFINE allow == Handle(FactsOf(input), input.action, ConfigOf(input)).allow
  <2>1. /\ UNCHANGED <<input, nsLabels>> /\ stage = "handle" /\ stage' = "done"
        /\ outcome' = IF allow THEN "allow" ELSE "refuse"
    BY Zenon, <1>3 DEF CallRequestHandler, Finish
  <2>2. Refuses(input) <=> ~allow
    BY Zenon, <1>i, <2>1 DEF PipelineInv, Refuses
  <2>3. Refuses(input)' <=> Refuses(input)
    BY Zenon, <2>1 DEF Refuses
  <2> HIDE DEF allow
  <2> QED
    BY Zenon, <1>i, <2>1, <2>2, <2>3 DEF Inv, TypeOK, Stages, PipelineInv
<1>4. CASE UNCHANGED vars
  BY Zenon, <1>4, <1>i DEF vars, Inv, TypeOK, PipelineInv, Refuses
<1> QED
  BY Zenon, <1>1, <1>2, <1>3, <1>4 DEF Next

\* ... so that it holds in every behaviour.
LEMMA InvHolds == Spec => []Inv
BY InvInit, InvStep, PTL DEF Spec

\* Every variable keeps its type, and the request is decided at the end only.
THEOREM DecisionTypeCorrect == Spec => []TypeOK
BY InvHolds, PTL DEF Inv

-----------------------------------------------------------------------------
(* Exceptions *)

\* An exception the request falls under ends the pipeline without a refusal.
LEMMA ExemptIsNotRefused ==
    ASSUME NEW in, Refuses(in)
    PROVE  ~Exempt(in)
<1>1. /\ NamespaceSelectorMatch(in.scope, in.obj.ns) /\ ~AllowMatch(in.allow, in.obj)
      /\ matchCheck(in.obj, in.match, nsLabels) /\ ~Passes(in)
  BY Zenon, HandleAllows DEF Refuses
<1>2. ~MatchWithPatternArray(in.obj.ns, in.scope.exclude \union in.match.excluded)
  BY Zenon, <1>1 DEF NamespaceSelectorMatch, matchCheck, MatchWithPatternArray
<1>3. ASSUME NEW ref \in in.skipObjects, ObjectReferenceListMatch({ref}, in.obj)
      PROVE  skipObjectsMatch(in.skipObjects, in.obj)
  BY Zenon, <1>3 DEF skipObjectsMatch, ObjectReferenceListMatch
<1>4. ASSUME NEW b \in in.skipUsers \union in.commonSkipUsers,
             ObjectReferenceListMatch(b.objects, in.obj), MatchWithPatternArray(in.user, b.users),
             ~ObjectUserBindingListMatch(in.inScopeUsers, in.obj, in.user)
      PROVE  UserSkipped(in)
  BY Zenon, <1>4 DEF UserSkipped, ObjectUserBindingListMatch, ObjectUserBindingMatch
<1> QED
  BY ZenonT(60), <1>1, <1>2, <1>3, <1>4 DEF Exempt, Passes

\* A request that one of the lists of exceptions names is never refused.
THEOREM ExceptionsAlwaysHold == Spec => []ExceptionsHold
<1>1. Inv => ExceptionsHold
  BY Zenon, ExemptIsNotRefused DEF Inv, PipelineInv, ExceptionsHold
<1> QED
  BY <1>1, InvHolds, PTL

\* Adding an entry that does not match changes nothing in a list that matches by
\* one of its entries.
LEMMA UnrelatedEntry ==
    ASSUME NEW in \in AllInputs, "another" \notin {in.obj.ns, in.obj.name, in.obj.kind},
           NEW S, NEW T
    PROVE  LET object  == [kind |-> in.obj.kind, name |-> "another"]
               binding == [objects |-> {object}, users |-> {"*"}]
               kind    == [group |-> "", version |-> "", kind |-> "another"]
           IN  /\ skipObjectsMatch(S \union {object}, in.obj) <=> skipObjectsMatch(S, in.obj)
               /\ ObjectUserBindingListMatch(S \union {binding}, in.obj, in.user)
                    <=> ObjectUserBindingListMatch(S, in.obj, in.user)
               /\ AllowMatch(S \union {kind}, in.obj) <=> AllowMatch(S, in.obj)
               /\ MatchWithPatternArray(in.obj.ns, S \union {"another"})
                    <=> MatchWithPatternArray(in.obj.ns, S)
<1> DEFINE object  == [kind |-> in.obj.kind, name |-> "another"]
           binding == [objects |-> {object}, users |-> {"*"}]
           kind    == [group |-> "", version |-> "", kind |-> "another"]
<1>0. "another" \notin Wildcards
  <2>1. CASE Wildcards = {"*"}
    BY <2>1, Zenon
  <2>2. CASE Wildcards = {"*", ""}
    BY <2>2, Zenon
  <2> QED
    BY <2>1, <2>2, WildcardAssumption, Zenon
<1>1. ~MatchField(object.name, in.obj.name)
  BY <1>0, Zenon DEF MatchField, MatchPattern
<1>2. ~ObjectReferenceListMatch({object}, in.obj)
  BY ZenonT(60), <1>1 DEF ObjectReferenceListMatch
<1>3. skipObjectsMatch(S \union {object}, in.obj) <=> skipObjectsMatch(S, in.obj)
  BY <1>1, Zenon DEF skipObjectsMatch, ObjectReferenceListMatch
<1>4. ~ObjectUserBindingMatch(binding, in.obj, in.user)
  BY Zenon, <1>2 DEF ObjectUserBindingMatch
<1>8. kind.kind = "another"
  BY Zenon
<1> HIDE DEF object, binding, kind
<1>5. ObjectUserBindingListMatch(S \union {binding}, in.obj, in.user)
        <=> ObjectUserBindingListMatch(S, in.obj, in.user)
  BY Zenon, <1>4 DEF ObjectUserBindingListMatch
<1>6. AllowMatch(S \union {kind}, in.obj) <=> AllowMatch(S, in.obj)
  BY ZenonT(60), <1>0, <1>8 DEF AllowMatch, MatchField, MatchPattern
<1>7. MatchWithPatternArray(in.obj.ns, S \union {"another"})
        <=> MatchWithPatternArray(in.obj.ns, S)
  BY <1>0, Zenon DEF MatchWithPatternArray, MatchPattern
<1> QED
  BY ZenonT(60), <1>3, <1>5, <1>6, <1>7 DEF object, binding, kind

\* All but the lists of exceptions.
SameRequest(in, other) ==
    /\ other.obj = in.obj /\ other.user = in.user /\ other.mutation = in.mutation
    /\ other.signature = in.signature /\ other.images = in.images
    /\ other.imageProfile = in.imageProfile /\ other.objectSelector = in.objectSelector
    /\ other.inScopeUsers = in.inScopeUsers
    /\ other.action = in.action /\ other.enforce = in.enforce

\* What the pipeline reads of an input.
LEMMA RefusesReads ==
    ASSUME NEW in, NEW other, SameRequest(in, other),
           NamespaceSelectorMatch(other.scope, in.obj.ns)
             <=> NamespaceSelectorMatch(in.scope, in.obj.ns),
           AllowMatch(other.allow, in.obj) <=> AllowMatch(in.allow, in.obj),
           matchCheck(in.obj, other.match, nsLabels) <=> matchCheck(in.obj, in.match, nsLabels),
           skipObjectsMatch(other.skipObjects, in.obj) <=> skipObjectsMatch(in.skipObjects, in.obj),
           ObjectUserBindingListMatch(other.skipUsers, in.obj, in.user)
             <=> ObjectUserBindingListMatch(in.skipUsers, in.obj, in.user),
           ObjectUserBindingListMatch(other.commonSkipUsers, in.obj, in.user)
             <=> ObjectUserBindingListMatch(in.commonSkipUsers, in.obj, in.user)
    PROVE  Refuses(other) <=> Refuses(in)
<1>1. Enforced(other) <=> Enforced(in)
  BY Zenon DEF SameRequest, Enforced
<1>2. UserSkipped(other) <=> UserSkipped(in)
  BY Zenon DEF SameRequest, UserSkipped
<1>3. Accepted(other) <=> Accepted(in)
  BY Zenon DEF SameRequest, Accepted
<1>4. Passes(other) <=> Passes(in)
  BY SMTT(60), <1>2, <1>3 DEF SameRequest, Passes
<1> QED
  BY Zenon, <1>1, <1>4, HandleAllows DEF SameRequest, Refuses

\* An exception for another object, namespace or kind changes no decision.
LEMMA UnrelatedIsIgnored ==
    ASSUME NEW in \in AllInputs, "another" \notin {in.obj.ns, in.obj.name, in.obj.kind},
           NEW other \in UnrelatedExceptions(in)
    PROVE  Refuses(other) <=> Refuses(in)
<1> DEFINE object  == [kind |-> in.obj.kind, name |-> "another"]
           binding == [objects |-> {object}, users |-> {"*"}]
           kind    == [group |-> "", version |-> "", kind |-> "another"]
<1>1. CASE other = [in EXCEPT !.skipObjects = @ \union {object}]
  <2>1. skipObjectsMatch(in.skipObjects \union {object}, in.obj)
          <=> skipObjectsMatch(in.skipObjects, in.obj)
    BY ZenonT(60), UnrelatedEntry
  <2> HIDE DEF object
  <2>2. SameRequest(in, other)
    BY Zenon, <1>1 DEF AllInputs, SameRequest
  <2>3. /\ other.scope = in.scope /\ other.allow = in.allow /\ other.match = in.match
        /\ other.skipUsers = in.skipUsers /\ other.commonSkipUsers = in.commonSkipUsers
        /\ other.skipObjects = in.skipObjects \union {object}
    BY Zenon, <1>1 DEF AllInputs
  <2> QED
    BY Zenon, <2>1, <2>2, <2>3, RefusesReads
<1>2. CASE other = [in EXCEPT !.skipUsers = @ \union {binding}]
  <2>1. ObjectUserBindingListMatch(in.skipUsers \union {binding}, in.obj, in.user)
          <=> ObjectUserBindingListMatch(in.skipUsers, in.obj, in.user)
    BY ZenonT(60), UnrelatedEntry
  <2> HIDE DEF binding
  <2>2. SameRequest(in, other)
    BY Zenon, <1>2 DEF AllInputs, SameRequest
  <2>3. /\ other.scope = in.scope /\ other.allow = in.allow /\ other.match = in.match
        /\ other.skipObjects = in.skipObjects /\ other.commonSkipUsers = in.commonSkipUsers
        /\ other.skipUsers = in.skipUsers \union {binding}
    BY Zenon, <1>2 DEF AllInputs
  <2> QED
    BY ZenonT(60), <2>1, <2>2, <2>3, RefusesReads
<1>3. CASE other = [in EXCEPT !.commonSkipUsers = @ \union {binding}]
  <2>1. ObjectUserBindingListMatch(in.commonSkipUsers \union {binding}, in.obj, in.user)
          <=> ObjectUserBindingListMatch(in.commonSkipUsers, in.obj, in.user)
    BY ZenonT(60), UnrelatedEntry
  <2> HIDE DEF binding
  <2>2. SameRequest(in, other)
    BY Zenon, <1>3 DEF AllInputs, SameRequest
  <2>3. /\ other.scope = in.scope /\ other.allow = in.allow /\ other.match = in.match
        /\ other.skipObjects = in.skipObjects /\ other.skipUsers = in.skipUsers
        /\ other.commonSkipUsers = in.commonSkipUsers \union {binding}
    BY Zenon, <1>3 DEF AllInputs
  <2> QED
    BY Zenon, <2>1, <2>2, <2>3, RefusesReads
<1>4. CASE other = [in EXCEPT !.allow = @ \union {kind}]
  <2>1. AllowMatch(in.allow \union {kind}, in.obj) <=> AllowMatch(in.allow, in.obj)
    BY ZenonT(60), UnrelatedEntry
  <2> HIDE DEF kind
  <2>2. SameRequest(in, other)
    BY Zenon, <1>4 DEF AllInputs, SameRequest
  <2>3. /\ other.scope = in.scope /\ other.match = in.match /\ other.skipObjects = in.skipObjects
        /\ other.skipUsers = in.skipUsers /\ other.commonSkipUsers = in.commonSkipUsers
        /\ other.allow = in.allow \union {kind}
    BY Zenon, <1>4 DEF AllInputs
  <2> QED
    BY Zenon, <2>1, <2>2, <2>3, RefusesReads
<1>5. CASE other = [in EXCEPT !.scope.exclude = @ \union {"another"}]
  <2>1. /\ other.scope.include = in.scope.include
        /\ other.scope.exclude = in.scope.exclude \union {"another"}
    BY Zenon, <1>5 DEF AllInputs
  <2>2. MatchWithPatternArray(in.obj.ns, in.scope.exclude \union {"another"})
          <=> MatchWithPatternArray(in.obj.ns, in.scope.exclude)
    BY ZenonT(60), UnrelatedEntry
  <2>3. NamespaceSelectorMatch(other.scope, in.obj.ns)
          <=> NamespaceSelectorMatch(in.scope, in.obj.ns)
    BY Zenon, <2>1, <2>2 DEF NamespaceSelectorMatch
  <2>4. SameRequest(in, other)
    BY Zenon, <1>5 DEF AllInputs, SameRequest
  <2>5. /\ other.allow = in.allow /\ other.match = in.match /\ other.skipObjects = in.skipObjects
        /\ other.skipUsers = in.skipUsers /\ other.commonSkipUsers = in.commonSkipUsers
    BY Zenon, <1>5 DEF AllInputs
  <2> QED
    BY Zenon, <2>3, <2>4, <2>5, RefusesReads
<1>6. CASE other = [in EXCEPT !.match.excluded = @ \union {"another"}]
  <2>1. /\ other.match.kinds = in.match.kinds /\ other.match.namespaces = in.match.namespaces
        /\ other.match.labelSelector = in.match.labelSelector
        /\ other.match.namespaceSelector = in.match.namespaceSelector
        /\ other.match.excluded = in.match.excluded \union {"another"}
    BY Zenon, <1>6 DEF AllInputs
  <2>2. MatchWithPatternArray(in.obj.ns, in.match.excluded \union {"another"})
          <=> MatchWithPatternArray(in.obj.ns, in.match.excluded)
    BY ZenonT(60), UnrelatedEntry
  <2>3. matchCheck(in.obj, other.match, nsLabels) <=> matchCheck(in.obj, in.match, nsLabels)
    BY Zenon, <2>1, <2>2 DEF matchCheck
  <2>4. SameRequest(in, other)
    BY Zenon, <1>6 DEF AllInputs, SameRequest
  <2>5. /\ other.scope = in.scope /\ other.allow = in.allow /\ other.skipObjects = in.skipObjects
        /\ other.skipUsers = in.skipUsers /\ other.commonSkipUsers = in.commonSkipUsers
    BY Zenon, <1>6 DEF AllInputs
  <2> QED
    BY Zenon, <2>3, <2>4, <2>5, RefusesReads
<1> QED
  BY ZenonT(60), <1>1, <1>2, <1>3, <1>4, <1>5, <1>6 DEF UnrelatedExceptions

\* If "another" is the name of nothing in a request, an exception for it changes
\* no decision.
THEOREM ExceptionsStayLocal ==
    (\A in \in Inputs : "another" \notin {in.obj.ns, in.obj.name, in.obj.kind}) =>
        (Spec => []ExceptionsAreLocal)
<1> SUFFICES ASSUME \A in \in Inputs : "another" \notin {in.obj.ns, in.obj.name, in.obj.kind}
             PROVE  Spec => []ExceptionsAreLocal
  BY Zenon
<1>1. Inv => ExceptionsAreLocal
  <2> SUFFICES ASSUME Inv, outcome # "none", NEW other \in UnrelatedExceptions(input)
               PROVE  Refuses(other) <=> outcome = "refuse"
    BY Zenon DEF ExceptionsAreLocal
  <2>1. input \in AllInputs /\ (outcome = "refuse" <=> Refuses(input))
    BY Zenon DEF Inv, TypeOK, PipelineInv
  <2>2. "another" \notin {input.obj.ns, input.obj.name, input.obj.kind}
    BY Zenon DEF Inv
  <2>3. Refuses(other) <=> Refuses(input)
    BY Zenon, <2>1, <2>2, UnrelatedIsIgnored
  <2> QED
    BY Zenon, <2>1, <2>3
<1> QED
  BY <1>1, InvHolds, PTL

-----------------------------------------------------------------------------
(* The observer and the admission controller *)

\* A set of numbers that is not empty has a first one.
LEMMA MinIsFirst ==
    ASSUME NEW T \in SUBSET Nat, T # {}
    PROVE  Min(T) \in T
<1>1. PICK m \in T : \A k \in T : <<k, m>> \notin OpToRel(<, Nat)
  BY WFMin, NatLessThanWellFounded, ZenonT(30)
<1>2. \A k \in T : <<k, m>> \in OpToRel(<, Nat) <=> k < m
  BY Zenon DEF OpToRel
<1>3. \A k \in T : ~(k < m)
  BY <1>1, <1>2, ZenonT(30)
<1>4. \A k \in T : m =< k
  BY <1>3
<1> QED
  BY <1>4, Zenon DEF Min

\* InListOrder lists a finite set once.
LEMMA ListsTheSet ==
    ASSUME NEW S, IsFiniteSet(S)
    PROVE  InListOrder(S) \in Seq(S) /\ Range(InListOrder(S)) = S
<1> DEFINE n == Cardinality(S)
           q == InListOrder(S)
<1>1. n \in Nat /\ \E f : f \in Bijection(1..n, S)
  BY FS_CardinalityType, Zenon DEF ExistsBijection
<1>2. PICK f \in [1..n -> S] : IsInjective(f)
  <2>1. PICK f : f \in Bijection(1..n, S)
    BY <1>1, Zenon
  <2> QED
    BY <2>1, Zenon DEF Bijection, Injection, IsInjective
<1>3. q \in [1..n -> S] /\ IsInjective(q)
  BY <1>2, Zenon DEF InListOrder
<1>4. q \in Injection(1..n, S)
  BY <1>3, Zenon DEF Injection
<1>5. IsFiniteSet(1..n) /\ Cardinality(1..n) = Cardinality(S)
  BY <1>1, FS_Interval
<1> HIDE DEF n, q
<1>6. q \in Surjection(1..n, S)
  BY <1>4, <1>5, FS_Injection, Zenon
<1>7. Range(q) = S
  BY <1>3, <1>6 DEF Surjection, Range
<1>8. q \in Seq(S)
  BY <1>1, <1>3
<1> QED
  BY <1>7, <1>8, Zenon DEF q

\* The empty sequence has no elements and is neutral.
LEMMA EmptySeqFacts ==
    /\ Range(<<>>) = {}
    /\ \A S : \A s \in Seq(S) : s \o <<>> = s /\ <<>> \o s = s
<1>1. DOMAIN <<>> = {}
  OBVIOUS
<1>2. Range(<<>>) = {}
  BY <1>1, Zenon DEF Range
<1>3. ASSUME NEW S, NEW s \in Seq(S)
      PROVE  s \o <<>> = s /\ <<>> \o s = s
  <2>1. s \in [1..Len(s) -> S] /\ Len(s) \in Nat
    OBVIOUS
  <2>2. <<>> \in Seq(S) /\ Len(<<>>) = 0
    OBVIOUS
  <2>3. s \o <<>> \in [1..Len(s) -> S] /\ <<>> \o s \in [1..Len(s) -> S]
    BY <2>1, <2>2
  <2>4. \A i \in 1..Len(s) : (s \o <<>>)[i] = s[i] /\ (<<>> \o s)[i] = s[i]
    BY <2>1, <2>2
  <2> QED
    BY <2>1, <2>3, <2>4
<1> QED
  BY <1>2, <1>3, Zenon

\* The indices and the elements of a sequence.
LEMMA SeqElements ==
    ASSUME NEW S, NEW s \in Seq(S)
    PROVE  DOMAIN s \subseteq Nat /\ \A i \in DOMAIN s : s[i] \in S
OBVIOUS

\* A sequence of one element.
LEMMA OneElement ==
    /\ \A x : Range(<<x>>) = {x}
    /\ \A S : \A s \in Seq(S) : Len(s) = 1 => DOMAIN s = {1} /\ s # <<>> /\ Range(s) = {s[1]}
<1>1. ASSUME NEW x
      PROVE  Range(<<x>>) = {x}
  <2>1. DOMAIN <<x>> = {1} /\ <<x>>[1] = x
    OBVIOUS
  <2> QED
    BY <2>1, Zenon DEF Range
<1>2. ASSUME NEW S, NEW s \in Seq(S), Len(s) = 1
      PROVE  DOMAIN s = {1} /\ s # <<>> /\ Range(s) = {s[1]}
  <2>1. DOMAIN s = {1} /\ s # <<>>
    BY <1>2
  <2> QED
    BY <2>1, Zenon DEF Range
<1> QED
  BY <1>1, <1>2, Zenon

\* What one entry makes of an API resource: one target if it matches, or none.
LEMMA SingleEntry ==
    ASSUME NEW match, NEW resource, NEW labels, DOMAIN match.kinds = {1}
    PROVE  LET target == [resource   |-> resource,
                          namespaces |-> match.namespaces
                              \o getLabelMatchedNamespace(match.namespaceSelector, labels)]
           IN  checkIfRuleMatchWithGVK(match, resource, labels)
                 = IF EntryMatches(match.kinds[1], resource) THEN <<target>> ELSE <<>>
<1> DEFINE hits == {i \in DOMAIN match.kinds : EntryMatches(match.kinds[i], resource)}
           target == [resource   |-> resource,
                      namespaces |-> match.namespaces
                          \o getLabelMatchedNamespace(match.namespaceSelector, labels)]
<1>1. checkIfRuleMatchWithGVK(match, resource, labels) = [i \in 1..Cardinality(hits) |-> target]
  BY Zenon DEF checkIfRuleMatchWithGVK
<1>2. hits = IF EntryMatches(match.kinds[1], resource) THEN {1} ELSE {}
  BY Zenon
<1>3. Cardinality(hits) = IF EntryMatches(match.kinds[1], resource) THEN 1 ELSE 0
  BY <1>2, FS_Singleton, FS_EmptySet, Zenon
<1> HIDE DEF hits, target
<1>4. [i \in 1..1 |-> target] = <<target>> /\ [i \in 1..0 |-> target] = <<>>
  OBVIOUS
<1> QED
  BY <1>1, <1>3, <1>4, Zenon DEF target

\* The namespaces the observer lists for a simple condition: those the admission
\* controller finds in it.
LEMMA SimpleNamespaces ==
    ASSUME NEW in \in AllInputs, NEW labels, IsFiniteSet(DOMAIN labels), Simple(in.match),
           in.obj.ns # ""
    PROVE  LET list == in.match.namespaces
                         \o getLabelMatchedNamespace(in.match.namespaceSelector, labels)
           IN  /\ \E S : list \in Seq(S)
               /\ in.obj.ns \in Range(list) <=>
                    /\ checkNamespaceMatch(in.obj, in.match.namespaces)
                    /\ checkNamespaceLabelMatch(in.obj.ns, in.match.namespaceSelector, labels)
<1> DEFINE match == in.match
           ns == in.obj.ns
           chosen == {n \in DOMAIN labels : SelectorMatches(match.namespaceSelector, labels[n])}
<1>0. match.namespaces \in Seq(STRING)
  BY Zenon DEF AllInputs
<1>1. CASE match.namespaceSelector = {} /\ Literal(Range(match.namespaces))
  <2>1. getLabelMatchedNamespace(match.namespaceSelector, labels) = <<>>
    BY <1>1, Zenon DEF getLabelMatchedNamespace
  <2>2. match.namespaces \o <<>> = match.namespaces
    BY <1>0, EmptySeqFacts, Zenon
  <2>3. Range(<<>>) = {}
    BY EmptySeqFacts, Zenon
  <2>4. checkNamespaceMatch(in.obj, match.namespaces) <=> ns \in Range(match.namespaces)
    BY <1>1, <2>3, Zenon DEF checkNamespaceMatch, MatchWithPatternArray, MatchPattern, Literal
  <2>5. checkNamespaceLabelMatch(ns, match.namespaceSelector, labels)
    BY <1>1, Zenon DEF checkNamespaceLabelMatch
  <2> QED
    BY <1>0, <2>1, <2>2, <2>4, <2>5, Zenon
<1>2. CASE match.namespaceSelector # {} /\ match.namespaces = <<>>
  <2>1. getLabelMatchedNamespace(match.namespaceSelector, labels) = InListOrder(chosen)
    BY <1>2, Zenon DEF getLabelMatchedNamespace
  <2>2. IsFiniteSet(chosen)
    BY FS_Subset, Zenon
  <2>3. InListOrder(chosen) \in Seq(chosen) /\ Range(InListOrder(chosen)) = chosen
    BY <2>2, ListsTheSet, Zenon
  <2>4. checkNamespaceMatch(in.obj, match.namespaces)
    BY <1>2, Zenon DEF checkNamespaceMatch
  <2>5. checkNamespaceLabelMatch(ns, match.namespaceSelector, labels) <=> ns \in chosen
    BY <1>2, Zenon DEF checkNamespaceLabelMatch
  <2> HIDE DEF chosen
  <2>6. <<>> \o InListOrder(chosen) = InListOrder(chosen)
    BY <2>3, EmptySeqFacts, Zenon
  <2> QED
    BY <1>2, <2>1, <2>3, <2>4, <2>5, <2>6, Zenon
<1> QED
  BY <1>1, <1>2, Zenon DEF Simple

\* A List call of the target answers with the object; the object is of the
\* target's namespaced resource and in one of its namespaces.
Listed(target, obj) ==
    \E call \in Range(ListCalls(target)) : Answers(call, obj)
Within(r, list, obj) ==
    /\ r.namespaced /\ obj.group = r.group /\ obj.kind = r.kind
    /\ obj.ns \in Range(list)

\* The List calls of a target answer for an object in a namespace if they name
\* its resource and its namespace.
LEMMA CallsAnswer ==
    ASSUME NEW obj, obj.ns # "", NEW target, NEW r, NEW list, NEW S,
           target.resource = r, target.namespaces = list, list \in Seq(S),
           r.namespaced \in BOOLEAN
    PROVE  Listed(target, obj) <=> Within(r, list, obj)
<1> DEFINE calls == ListCalls(target)
           call(n) == [resource |-> r, ns |-> n]
<1>a. \A n : Answers(call(n), obj) <=> obj.group = r.group /\ obj.kind = r.kind /\ obj.ns = n
  BY Zenon DEF Answers
<1>1. CASE r.namespaced
  <2>1. calls = [i \in DOMAIN list |-> call(list[i])]
    BY <1>1, Zenon DEF ListCalls
  <2> HIDE DEF calls, call
  <2>2. Range(calls) = {call(list[i]) : i \in DOMAIN list}
    BY <2>1, Zenon DEF Range
  <2>3. (\E c \in Range(calls) : Answers(c, obj)) <=> \E i \in DOMAIN list : Answers(call(list[i]), obj)
    BY <2>2, Zenon
  <2>4. (\E i \in DOMAIN list : Answers(call(list[i]), obj)) <=>
          obj.group = r.group /\ obj.kind = r.kind /\ obj.ns \in Range(list)
    BY <1>a, Zenon DEF Range
  <2> QED
    BY <1>1, <2>3, <2>4, Zenon DEF calls, Listed, Within
<1>2. CASE ~r.namespaced
  <2>1. calls = <<call("")>>
    BY <1>2, Zenon DEF ListCalls
  <2> HIDE DEF calls, call
  <2>2. Range(calls) = {call("")}
    BY <2>1, OneElement, Zenon
  <2>3. ~Answers(call(""), obj)
    BY <1>a, Zenon
  <2> QED
    BY <1>2, <2>2, <2>3, Zenon DEF calls, Listed, Within
<1> QED
  BY <1>1, <1>2, Zenon

\* On a simple condition the observer and matchCheck agree about an object of a
\* discovered resource.
LEMMA AgreesOnSimple ==
    ASSUME NEW in \in AllInputs, NEW labels, IsFiniteSet(DOMAIN labels), Simple(in.match),
           in.obj.ns # "",
           \E r \in Range(APIResources) :
              r.group = in.obj.group /\ r.kind = in.obj.kind /\ r.namespaced
    PROVE  Selected(in.obj, in.match, APIResources, labels)
             <=> matchCheck(in.obj, in.match, labels)
<1> DEFINE obj == in.obj
           match == in.match
           entry == match.kinds[1]
           list == match.namespaces \o getLabelMatchedNamespace(match.namespaceSelector, labels)
           check(r) == checkIfRuleMatchWithGVK(match, r, labels)
           target(r) == [resource |-> r, namespaces |-> list]
           named(r) == r.group \in entry.apiGroups /\ r.kind \in entry.kinds
           hits == {i \in DOMAIN APIResources : check(APIResources[i]) # <<>>}
           inside == /\ checkNamespaceMatch(obj, match.namespaces)
                     /\ checkNamespaceLabelMatch(obj.ns, match.namespaceSelector, labels)
<1>1. match.kinds \in Seq([kinds : SUBSET STRING, apiGroups : SUBSET STRING])
  BY Zenon DEF AllInputs
<1>2. DOMAIN match.kinds = {1} /\ match.kinds # <<>> /\ Range(match.kinds) = {entry}
  <2>1. Len(match.kinds) = 1
    BY Zenon DEF Simple
  <2> HIDE DEF match
  <2> QED
    BY <1>1, <2>1, OneElement, Zenon
<1>3. /\ Literal(entry.kinds) /\ Literal(entry.apiGroups)
      /\ match.excluded = {} /\ match.labelSelector = {}
      /\ \A r, s \in Range(APIResources) : named(r) /\ named(s) => r = s
  BY Zenon DEF Simple
<1>4. \A r : EntryMatches(entry, r) <=> named(r)
  BY <1>3, Zenon DEF EntryMatches, Literal
<1>5. \A r : check(r) = IF named(r) THEN <<target(r)>> ELSE <<>>
  <2>1. SUFFICES ASSUME NEW r
                 PROVE  check(r) = IF named(r) THEN <<target(r)>> ELSE <<>>
    BY Zenon
  <2>2. check(r) = IF EntryMatches(entry, r) THEN <<target(r)>> ELSE <<>>
    BY <1>2, SingleEntry, Zenon
  <2> QED
    BY <1>4, <2>2, Zenon
<1>6. checkKindMatch(obj, match.kinds) <=> named(obj)
  BY <1>2, <1>3, Zenon DEF checkKindMatch, MatchWithPatternArray, MatchPattern, Literal
<1>7. matchCheck(obj, match, labels) <=> named(obj) /\ inside
  BY <1>3, <1>6, Zenon DEF matchCheck, checkLabelMatch, SelectorMatches, MatchWithPatternArray
<1>8. (obj.ns \in Range(list) <=> inside) /\ \E S : list \in Seq(S)
  BY SimpleNamespaces, Zenon
<1>9. PICK d \in DOMAIN APIResources :
        /\ APIResources[d].group = obj.group /\ APIResources[d].kind = obj.kind
        /\ APIResources[d].namespaced
  BY Zenon DEF Range
<1>10. /\ DOMAIN APIResources \subseteq Nat
       /\ \A i \in DOMAIN APIResources : /\ APIResources[i].namespaced \in BOOLEAN
                                         /\ APIResources[i] \in Range(APIResources)
  <2> DEFINE R == [group : STRING, kind : STRING, namespaced : BOOLEAN]
  <2>1. \A r \in R : r.namespaced \in BOOLEAN
    BY Zenon
  <2>2. APIResources \in Seq(R)
    BY DecisionAssumption, Zenon
  <2> HIDE DEF R
  <2>3. /\ DOMAIN APIResources \subseteq Nat
        /\ \A i \in DOMAIN APIResources : APIResources[i] \in R
    BY <2>2, SeqElements, Zenon
  <2> QED
    BY <2>1, <2>3, ZenonT(30) DEF Range
<1>11. getPossibleProtectedGVKs(match, APIResources, labels)
         = IF hits = {} THEN <<>> ELSE check(APIResources[Min(hits)])
  BY Zenon DEF getPossibleProtectedGVKs
<1> HIDE DEF entry, list, check, inside
<1>12. \A i \in DOMAIN APIResources : i \in hits <=> named(APIResources[i])
  BY <1>5, Zenon
<1>13. CASE hits = {}
  <2>1. ~named(obj)
    BY <1>9, <1>12, <1>13, Zenon
  <2>2. ~Selected(obj, match, APIResources, labels)
    BY <1>11, <1>13, EmptySeqFacts, Zenon DEF Selected
  <2> QED
    BY <1>7, <2>1, <2>2, Zenon
<1>14. CASE hits # {}
  <2> DEFINE r == APIResources[Min(hits)]
  <2>1. Min(hits) \in hits
    BY <1>10, <1>14, MinIsFirst, Zenon
  <2>2. named(r) /\ r.namespaced \in BOOLEAN /\ r \in Range(APIResources)
    BY <1>10, <1>12, <2>1, Zenon
  <2>3. getPossibleProtectedGVKs(match, APIResources, labels) = <<target(r)>>
    BY <1>5, <1>11, <1>14, <2>2, Zenon
  <2> HIDE DEF r, hits
  <2>4. Range(<<target(r)>>) = {target(r)}
    BY OneElement, Zenon
  <2> HIDE DEF named
  <2>5. Selected(obj, match, APIResources, labels)
          <=> \E call \in Range(ListCalls(target(r))) : Answers(call, obj)
    BY <2>3, <2>4, Zenon DEF Selected
  <2>6. Selected(obj, match, APIResources, labels)
          <=> r.namespaced /\ obj.group = r.group /\ obj.kind = r.kind /\ inside
    <3>1. PICK S : list \in Seq(S)
      BY <1>8, Zenon
    <3>2. Listed(target(r), obj) <=> Within(r, list, obj)
      <4>1. obj.ns # "" /\ r.namespaced \in BOOLEAN
        BY <2>2, Zenon
      <4>2. target(r).resource = r /\ target(r).namespaces = list
        BY Zenon
      <4> HIDE DEF obj, target, list
      <4> QED
        BY <3>1, <4>1, <4>2, CallsAnswer, Zenon
    <3> QED
      BY <1>8, <2>5, <3>2, ZenonT(60) DEF Listed, Within
  <2>7. named(obj) => r.namespaced /\ obj.group = r.group /\ obj.kind = r.kind
    <3>1. named(obj) => named(APIResources[d])
      BY <1>9, Zenon DEF named
    <3>2. APIResources[d] \in Range(APIResources)
      BY <1>10, Zenon
    <3>3. named(obj) => APIResources[d] = r
      BY <1>3, <2>2, <3>1, <3>2, Zenon
    <3> QED
      BY <1>9, <3>3, Zenon
  <2>8. obj.group = r.group /\ obj.kind = r.kind => named(obj)
    BY <2>2, Zenon DEF named
  <2> QED
    BY <1>7, <2>6, <2>7, <2>8, Zenon
<1> QED
  BY <1>13, <1>14, Zenon

\* Where the condition of a constraint is simple, the observer reports on exactly
\* the objects that the admission controller checks, whatever the labels of the
\* namespaces: for all lists and objects, when the observer discovered the
\* resources of these objects.
THEOREM ObserverAlwaysAgrees ==
    ASSUME AllDiscovered
    PROVE  Spec => []ObserverAgrees
<1> DEFINE Chosen == input \in Inputs /\ nsLabels \in NamespaceLabels
<1>1. Init => Chosen
  BY Zenon DEF Init
<1>2. Chosen /\ [Next]_vars => Chosen'
  BY DEF Next, CheckConfig, CheckMatch, CallRequestHandler, vars
<1>3. Chosen => ObserverAgrees
  BY AgreesOnSimple, DecisionAssumption, Zenon DEF AllDiscovered, ObserverAgrees
<1> QED
  BY <1>1, <1>2, <1>3, PTL DEF Spec
==============================================================================
