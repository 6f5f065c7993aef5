--------------------------- MODULE ObserverProofs ---------------------------
(***************************************************************************)
(* Proofs about Observer: what its summaries say is true.                  *)
(***************************************************************************)
EXTENDS Observer, FiniteSetTheorems, TLAPS

Places  == Nat \X Nat
Extents == {"complete", "partial"}

AllCalls(c, labels) == CallsOf(Targets(Constraints[c].match, labels))

\* The calls that are left of those for some constraint.
CallsIn(c, labels) == {AllCalls(c, labels)[at] : at \in DOMAIN AllCalls(c, labels)}
AnyCall ==
    UNION {CallsIn(c, labels) : c \in DOMAIN Constraints,
                                labels \in NamespaceLabels \union {<<>>}}
CallLists == UNION {[D -> AnyCall] : D \in SUBSET Places}

Entries == [at : Places, object : Objects, content : Contents \union {Absent}]
Results == [at : Places, object : Objects]

SummarySet ==
    [constraint : DOMAIN Constraints, violations : SUBSET Results,
     nonViolations : SUBSET Results, ignored : BOOLEAN, changed : SUBSET Objects,
     extent : Extents]

PodStates ==
    [pc : Steps, config : {"none", "loaded"}, todo : Seq(DOMAIN Constraints),
     calls : CallLists, listed : SUBSET Entries, changed : SUBSET Objects,
     extent : Extents, results : Seq(SummarySet),
     got : {"none", "create", "update", "conflict"}]

-----------------------------------------------------------------------------
(* The inductive invariant *)

\* What a pod has listed of a resource that has not changed since it selected
\* the resources: the calls that are left are those for the constraint, every
\* copy is the resource as it is, from a call that returns it, and a copy that
\* is missing is still to come, unless a list failed.
CollectedOf(r, calls, content, o) ==
    /\ \A at \in DOMAIN r.calls : at \in DOMAIN calls /\ r.calls[at] = calls[at]
    /\ \A e \in r.listed : e.object = o =>
         e.content = content /\ e.at \in Listings(calls, content, o)
    /\ r.extent = "complete" =>
         \A at \in Listings(calls, content, o) :
            at \in DOMAIN r.calls \/ \E e \in r.listed : e.at = at /\ e.object = o

Collected(r, contents, labels) ==
    \A o \in Objects \ r.changed :
        CollectedOf(r, AllCalls(Head(r.todo), labels), contents[o], o)

\* The fields of a pod that belong to a step.
Control(r) ==
    /\ r.got # "none" <=> r.pc \in {"put", "detailPut"}
    /\ r.pc \in {"list", "verify", "get", "put"} => r.todo # <<>>
    /\ r.pc = "list" <=> DOMAIN r.calls # {}
    /\ r.pc \in {"get", "put"} => r.results # <<>>

SummaryOK(s, contents, labels) == s \in SummarySet /\ IsTrue(s, contents, labels)

AllOK(q, contents, labels) ==
    q \in Seq(SummarySet) /\ \A i \in DOMAIN q : IsTrue(q[i], contents, labels)

StoredOK(s, contents, labels) == s = None \/ SummaryOK(s, contents, labels)

DetailOK(d, contents, labels) ==
    \/ d = None
    \/ d = [constraint |-> 1, results |-> d.results] /\ AllOK(d.results, contents, labels)

PodOK(r, contents, labels) ==
    /\ r \in PodStates
    /\ Control(r)
    /\ AllOK(r.results, contents, labels)
    /\ r.pc \in {"list", "verify"} => Collected(r, contents, labels)

LiveSet == [Objects -> Contents \union {Absent}]

Inv ==
    /\ live \in LiveSet
    /\ applied \subseteq DOMAIN Constraints
    /\ nsLabels \in NamespaceLabels
    /\ edits \in 0..MaxEdits /\ faults \in 0..MaxFaults
    /\ DOMAIN mis = Names /\ DOMAIN pod = Pods
    /\ \A n \in Names : StoredOK(mis[n], live, nsLabels)
    /\ DetailOK(detail, live, nsLabels)
    /\ \A p \in Pods : PodOK(pod[p], live, nsLabels)

-----------------------------------------------------------------------------
(* Summaries *)

\* A summary is not the None that stands for no summary.
LEMMA SummaryIsNotNone ==
    \A s \in SummarySet : s # None
<1>1. DOMAIN Constraints \subseteq Nat \ {0}
  BY ObserverAssumption
<1> QED
  BY <1>1 DEF SummarySet, None

\* When some resources change, a summary stays true of the others.
LEMMA TouchedSummary ==
    ASSUME NEW s, NEW c, NEW l, NEW c2, NEW l2, NEW objs \in SUBSET Objects,
           SummaryOK(s, c, l),
           \A o \in Objects \ objs : c2[o] = c[o],
           l2 = l \/ objs = Objects
    PROVE  SummaryOK(Touch(s, objs), c2, l2)
<1> DEFINE t == Touch(s, objs)
<1>0. s \in SummarySet /\ s # None
  BY SummaryIsNotNone, Zenon DEF SummaryOK
<1>1. t = [s EXCEPT !.changed = @ \union objs]
  BY <1>0, Zenon DEF Touch
<1>2. /\ t \in SummarySet /\ t.changed = s.changed \union objs
      /\ t.constraint = s.constraint /\ t.violations = s.violations
      /\ t.nonViolations = s.nonViolations /\ t.extent = s.extent
  BY <1>0, <1>1 DEF SummarySet
<1> HIDE DEF t
<1>3. SUFFICES IsTrue(t, c2, l2)
  BY <1>2, Zenon DEF SummaryOK, t
<1>4. CASE objs = Objects
  <2>1. Objects \ t.changed = {}
    BY <1>2, <1>4, Zenon
  <2> QED
    BY <2>1, Zenon DEF IsTrue
<1>5. CASE l2 = l
  <2> DEFINE calls == CallsOf(Targets(Constraints[s.constraint].match, l))
  <2>1. \A o \in Objects \ t.changed : o \in Objects \ s.changed /\ c2[o] = c[o]
    BY <1>2, Zenon
  <2>2. \A o : IsTrueOf(s, calls, c[o], o) => IsTrueOf(t, calls, c[o], o)
    BY <1>2, Zenon DEF IsTrueOf
  <2>3. IsTrue(s, c, l)
    BY Zenon DEF SummaryOK
  <2>4. \A o \in Objects \ s.changed : IsTrueOf(s, calls, c[o], o)
    BY <2>3, Zenon DEF IsTrue
  <2>5. calls = CallsOf(Targets(Constraints[t.constraint].match, l2))
    BY <1>2, <1>5, Zenon
  <2> HIDE DEF calls
  <2>6. \A o \in Objects \ t.changed : IsTrueOf(t, calls, c2[o], o)
    BY <2>1, <2>2, <2>4, Zenon
  <2> QED
    BY <2>5, <2>6, Zenon DEF IsTrue
<1> QED
  BY <1>4, <1>5, Zenon

\* ... and so do all summaries of a sequence.
LEMMA TouchedAll ==
    ASSUME NEW q, NEW c, NEW l, NEW c2, NEW l2, NEW objs \in SUBSET Objects,
           AllOK(q, c, l),
           \A o \in Objects \ objs : c2[o] = c[o],
           l2 = l \/ objs = Objects
    PROVE  AllOK([i \in DOMAIN q |-> Touch(q[i], objs)], c2, l2)
<1> DEFINE t == [i \in DOMAIN q |-> Touch(q[i], objs)]
<1>1. q \in Seq(SummarySet) /\ \A i \in DOMAIN q : SummaryOK(q[i], c, l)
  BY DEF AllOK, SummaryOK
<1>2. \A i \in DOMAIN q : SummaryOK(Touch(q[i], objs), c2, l2)
  BY <1>1, TouchedSummary
<1>3. DOMAIN t = DOMAIN q /\ \A i \in DOMAIN q : t[i] \in SummarySet /\ IsTrue(t[i], c2, l2)
  BY <1>2, Zenon DEF SummaryOK
<1>4. t \in Seq(SummarySet)
  BY <1>1, <1>3
<1> HIDE DEF t
<1>5. AllOK(t, c2, l2)
  BY <1>3, <1>4, Zenon DEF AllOK
<1> QED
  BY <1>5, Zenon DEF t

-----------------------------------------------------------------------------
(* Calls *)

\* The constraints are numbered from 1 and have the fields they should have.
LEMMA ConstraintTypes ==
    /\ DOMAIN Constraints \subseteq Nat \ {0} /\ IsFiniteSet(DOMAIN Constraints)
    /\ \A c \in DOMAIN Constraints :
         Constraints[c].match \in MatchConditions /\ Constraints[c].inform \in BOOLEAN
<1> DEFINE C == [name : STRING, match : MatchConditions, inform : BOOLEAN]
<1>1. Constraints \in Seq(C)
  BY ObserverAssumption, Zenon
<1>2. \A x \in C : x.match \in MatchConditions /\ x.inform \in BOOLEAN
  BY Zenon
<1> HIDE DEF C
<1>3. /\ Len(Constraints) \in Nat /\ DOMAIN Constraints = 1..Len(Constraints)
      /\ \A c \in DOMAIN Constraints : Constraints[c] \in C
  BY <1>1
<1>4. DOMAIN Constraints \subseteq Nat \ {0}
  BY <1>3
<1>5. 1 \in Int /\ Len(Constraints) \in Int
  BY <1>3
<1>6. IsFiniteSet(1..Len(Constraints))
  BY <1>5, FS_Interval, Zenon
<1> QED
  BY <1>2, <1>3, <1>4, <1>6, Zenon

\* InListOrder lists a finite set.
LEMMA ListsTheSet ==
    ASSUME NEW S, IsFiniteSet(S)
    PROVE  InListOrder(S) \in Seq(S)
<1> DEFINE n == Cardinality(S)
           q == InListOrder(S)
<1>1. n \in Nat /\ \E f : f \in Bijection(1..n, S)
  BY FS_CardinalityType, Zenon DEF ExistsBijection
<1>2. PICK f \in [1..n -> S] : IsInjective(f)
  BY <1>1, Zenon DEF Bijection, Injection, IsInjective
<1>3. q \in [1..n -> S]
  BY <1>2, Zenon DEF InListOrder
<1> HIDE DEF n, q
<1>4. q \in Seq(S)
  BY <1>1, <1>3
<1> QED
  BY <1>4, Zenon DEF q

\* A constant function is empty if its domain is.
LEMMA EmptyFunction ==
    \A S, x : [i \in S |-> x] = <<>> <=> S = {}
<1>1. DOMAIN <<>> = {}
  OBVIOUS
<1>2. ASSUME NEW S, NEW x, S = {}
      PROVE  [i \in S |-> x] = <<>>
  BY <1>2
<1>3. ASSUME NEW S, NEW x, [i \in S |-> x] = <<>>
      PROVE  S = {}
  BY <1>1, <1>3, Zenon
<1> QED
  BY <1>2, <1>3, Zenon

\* The namespaces of a target: those the constraint names come first.
LEMMA NamespacesInOrder ==
    ASSUME NEW m \in MatchConditions, NEW labels \in NamespaceLabels \union {<<>>}
    PROVE  LET all   == m.namespaces \o getLabelMatchedNamespace(m.namespaceSelector, labels)
               named == m.namespaces \o getLabelMatchedNamespace(m.namespaceSelector, <<>>)
           IN  /\ all \in Seq(STRING)
               /\ DOMAIN named \subseteq DOMAIN all
               /\ \A j \in DOMAIN named : named[j] = all[j]
<1> DEFINE matched(l) == {ns \in DOMAIN l : SelectorMatches(m.namespaceSelector, l[ns])}
           more(l) == getLabelMatchedNamespace(m.namespaceSelector, l)
<1>1. m.namespaces \in Seq(STRING)
  BY Zenon DEF MatchConditions
<1>2. DOMAIN <<>> = {}
  OBVIOUS
<1>3. \A l \in NamespaceLabels \union {<<>>} : DOMAIN l \subseteq STRING /\ IsFiniteSet(DOMAIN l)
  BY <1>2, ObserverAssumption, FS_EmptySet
<1>4. \A l \in NamespaceLabels \union {<<>>} : more(l) \in Seq(STRING)
  <2>1. SUFFICES ASSUME NEW l \in NamespaceLabels \union {<<>>}
                 PROVE  more(l) \in Seq(STRING)
    OBVIOUS
  <2>2. IsFiniteSet(matched(l)) /\ matched(l) \subseteq STRING
    BY <1>3, FS_Subset
  <2> HIDE DEF matched
  <2>3. InListOrder(matched(l)) \in Seq(matched(l))
    BY <2>2, ListsTheSet, Zenon
  <2>4. InListOrder(matched(l)) \in Seq(STRING)
    BY <2>2, <2>3
  <2>5. <<>> \in Seq(STRING)
    OBVIOUS
  <2> QED
    BY <2>4, <2>5, Zenon DEF getLabelMatchedNamespace, matched
<1>5. more(<<>>) = <<>>
  <2>1. matched(<<>>) = {} /\ Cardinality({}) = 0
    BY <1>2, FS_EmptySet, Zenon
  <2>2. InListOrder({}) \in [1..0 -> {}]
    <3>1. InListOrder({}) \in Seq({})
      BY ListsTheSet, FS_EmptySet, Zenon
    <3> QED
      BY <3>1
  <2>3. InListOrder({}) = <<>>
    BY <2>2
  <2> QED
    BY <2>1, <2>3, Zenon DEF getLabelMatchedNamespace
<1> HIDE DEF more
<1>6. more(labels) \in Seq(STRING)
  BY <1>4, Zenon
<1>7. DOMAIN m.namespaces \subseteq DOMAIN (m.namespaces \o more(labels))
  BY <1>1, <1>6
<1>8. \A j \in DOMAIN m.namespaces : (m.namespaces \o more(labels))[j] = m.namespaces[j]
  BY <1>1, <1>6
<1>9. m.namespaces \o <<>> = m.namespaces
  BY <1>1
<1>10. m.namespaces \o more(labels) \in Seq(STRING)
  BY <1>1, <1>6
<1> QED
  BY <1>5, <1>7, <1>8, <1>9, <1>10, Zenon DEF more

\* The targets: with the labels of the namespaces they have the same resources,
\* and more namespaces.
LEMMA TargetsGrow ==
    ASSUME NEW m \in MatchConditions, NEW labels \in NamespaceLabels \union {<<>>}
    PROVE  LET all   == Targets(m, labels)
               named == Targets(m, <<>>)
           IN  /\ DOMAIN all \subseteq Nat /\ DOMAIN named = DOMAIN all
               /\ \A i \in DOMAIN all :
                    /\ all[i].namespaces \in Seq(STRING)
                    /\ named[i].resource = all[i].resource
                    /\ DOMAIN named[i].namespaces \subseteq DOMAIN all[i].namespaces
                    /\ \A j \in DOMAIN named[i].namespaces :
                         named[i].namespaces[j] = all[i].namespaces[j]
<1> DEFINE spaces(l) == m.namespaces \o getLabelMatchedNamespace(m.namespaceSelector, l)
           target(r, l) == [resource |-> r, namespaces |-> spaces(l)]
           n(r) == Cardinality({i \in DOMAIN m.kinds : EntryMatches(m.kinds[i], r)})
           check(r, l) == checkIfRuleMatchWithGVK(m, r, l)
           hits(l) == {i \in DOMAIN APIResources : check(APIResources[i], l) # <<>>}
           first == APIResources[Min(hits(<<>>))]
<1>1. \A r, l : check(r, l) = [i \in 1..n(r) |-> target(r, l)]
  BY Zenon DEF checkIfRuleMatchWithGVK
<1>2. \A r, l : check(r, l) # <<>> <=> 1..n(r) # {}
  <2>1. SUFFICES ASSUME NEW r, NEW l
                 PROVE  check(r, l) # <<>> <=> 1..n(r) # {}
    BY Zenon
  <2> HIDE DEF n, target, check
  <2> QED
    BY <1>1, EmptyFunction, Zenon
<1>3. \A l : Targets(m, l) = IF hits(l) = {} THEN <<>> ELSE check(APIResources[Min(hits(l))], l)
  BY Zenon DEF Targets, getPossibleProtectedGVKs
<1> HIDE DEF check, n
<1>4. \A l : hits(l) = hits(<<>>)
  BY <1>2, Zenon
<1>5. \A l : Targets(m, l) = IF hits(<<>>) = {} THEN <<>>
                             ELSE [i \in 1..n(first) |-> target(first, l)]
  <2>1. SUFFICES ASSUME NEW l
                 PROVE  Targets(m, l) = IF hits(<<>>) = {} THEN <<>>
                                        ELSE [i \in 1..n(first) |-> target(first, l)]
    BY Zenon
  <2>2. hits(l) = hits(<<>>)
    BY <1>4, Zenon
  <2>3. Targets(m, l) = IF hits(l) = {} THEN <<>> ELSE check(APIResources[Min(hits(l))], l)
    BY <1>3, Zenon
  <2> HIDE DEF hits, target
  <2> QED
    BY <1>1, <2>2, <2>3, Zenon
<1>6. /\ spaces(labels) \in Seq(STRING)
      /\ DOMAIN spaces(<<>>) \subseteq DOMAIN spaces(labels)
      /\ \A j \in DOMAIN spaces(<<>>) : spaces(<<>>)[j] = spaces(labels)[j]
  BY NamespacesInOrder, Zenon
<1> HIDE DEF hits, first, spaces
<1>7. CASE hits(<<>>) = {}
  <2>1. Targets(m, labels) = <<>> /\ Targets(m, <<>>) = <<>> /\ DOMAIN <<>> = {}
    BY <1>5, <1>7
  <2> QED
    BY <2>1, Zenon
<1>8. CASE hits(<<>>) # {}
  <2>1. /\ Targets(m, labels) = [i \in 1..n(first) |-> target(first, labels)]
        /\ Targets(m, <<>>) = [i \in 1..n(first) |-> target(first, <<>>)]
    BY <1>5, <1>8, Zenon
  <2>2. 1..n(first) \subseteq Nat
    OBVIOUS
  <2>3. \A l : target(first, l).resource = first /\ target(first, l).namespaces = spaces(l)
    BY Zenon
  <2> HIDE DEF target, n
  <2>4. /\ DOMAIN Targets(m, labels) = 1..n(first) /\ DOMAIN Targets(m, <<>>) = 1..n(first)
        /\ \A i \in 1..n(first) : /\ Targets(m, labels)[i] = target(first, labels)
                                  /\ Targets(m, <<>>)[i] = target(first, <<>>)
    BY <2>1, Zenon
  <2> QED
    BY <1>6, <2>2, <2>3, <2>4, Zenon
<1> QED
  BY <1>7, <1>8, Zenon

\* The calls for a constraint are a list of calls, and those made when the
\* namespaces cannot be read are among them.
LEMMA CallsGrow ==
    ASSUME NEW c \in DOMAIN Constraints, NEW labels \in NamespaceLabels \union {<<>>}
    PROVE  /\ AllCalls(c, labels) \in CallLists
           /\ \A at \in DOMAIN AllCalls(c, <<>>) :
                at \in DOMAIN AllCalls(c, labels)
                /\ AllCalls(c, <<>>)[at] = AllCalls(c, labels)[at]
<1> DEFINE m == Constraints[c].match
           t(l) == Targets(m, l)
           lists(l) == [i \in DOMAIN t(l) |-> ListCalls(t(l)[i])]
           places(l) == UNION {{i} \X DOMAIN lists(l)[i] : i \in DOMAIN lists(l)}
<1>1. m \in MatchConditions
  BY ConstraintTypes, Zenon
<1>2. /\ DOMAIN t(labels) \subseteq Nat /\ DOMAIN t(<<>>) = DOMAIN t(labels)
      /\ \A i \in DOMAIN t(labels) :
           /\ t(labels)[i].namespaces \in Seq(STRING)
           /\ t(<<>>)[i].resource = t(labels)[i].resource
           /\ DOMAIN t(<<>>)[i].namespaces \subseteq DOMAIN t(labels)[i].namespaces
           /\ \A j \in DOMAIN t(<<>>)[i].namespaces :
                t(<<>>)[i].namespaces[j] = t(labels)[i].namespaces[j]
  <2> HIDE DEF m
  <2> QED
    BY <1>1, TargetsGrow, Zenon
<1>3. \A l : AllCalls(c, l) = [at \in places(l) |-> lists(l)[at[1]][at[2]]]
  BY Zenon DEF AllCalls, CallsOf
<1> HIDE DEF t
<1>4. ASSUME NEW i \in DOMAIN t(labels)
      PROVE  /\ DOMAIN ListCalls(t(labels)[i]) \subseteq Nat
             /\ DOMAIN ListCalls(t(<<>>)[i]) \subseteq DOMAIN ListCalls(t(labels)[i])
             /\ \A j \in DOMAIN ListCalls(t(<<>>)[i]) :
                  ListCalls(t(<<>>)[i])[j] = ListCalls(t(labels)[i])[j]
  <2>1. CASE t(labels)[i].resource.namespaced
    <3> DEFINE calls(x) == [j \in DOMAIN x.namespaces |->
                              [resource |-> x.resource, ns |-> x.namespaces[j]]]
               all == t(labels)[i]
               named == t(<<>>)[i]
    <3>1. /\ all.namespaces \in Seq(STRING) /\ named.resource = all.resource
          /\ DOMAIN named.namespaces \subseteq DOMAIN all.namespaces
          /\ \A j \in DOMAIN named.namespaces : named.namespaces[j] = all.namespaces[j]
      BY <1>2, <1>4, Zenon
    <3>2. ListCalls(all) = calls(all) /\ ListCalls(named) = calls(named)
      BY <2>1, <3>1, Zenon DEF ListCalls
    <3> HIDE DEF all, named
    <3>3. DOMAIN all.namespaces \subseteq Nat
      BY <3>1
    <3>4. /\ DOMAIN ListCalls(all) = DOMAIN all.namespaces
          /\ DOMAIN ListCalls(named) = DOMAIN named.namespaces
          /\ \A j \in DOMAIN named.namespaces : calls(named)[j] = calls(all)[j]
      BY <3>1, <3>2, Zenon
    <3> QED
      BY <3>1, <3>2, <3>3, <3>4, Zenon DEF all, named
  <2>2. CASE ~t(labels)[i].resource.namespaced
    <3>1. ListCalls(t(<<>>)[i]) = ListCalls(t(labels)[i])
      BY <1>2, <1>4, <2>2, Zenon DEF ListCalls
    <3>2. ListCalls(t(labels)[i]) = <<[resource |-> t(labels)[i].resource, ns |-> ""]>>
      BY <2>2, Zenon DEF ListCalls
    <3>3. \A x : DOMAIN <<x>> = {1}
      OBVIOUS
    <3>4. DOMAIN ListCalls(t(labels)[i]) = {1}
      BY <3>2, <3>3, Zenon
    <3> QED
      BY <3>1, <3>4
  <2> QED
    BY <2>1, <2>2, Zenon
<1>5. places(labels) \subseteq Places /\ places(<<>>) \subseteq places(labels)
  BY <1>2, <1>4 DEF Places
<1>6. \A at \in places(<<>>) : lists(<<>>)[at[1]][at[2]] = lists(labels)[at[1]][at[2]]
  BY <1>2, <1>4
<1> HIDE DEF places, lists
<1>7. /\ DOMAIN AllCalls(c, labels) = places(labels) /\ DOMAIN AllCalls(c, <<>>) = places(<<>>)
      /\ \A at \in places(labels) : AllCalls(c, labels)[at] = lists(labels)[at[1]][at[2]]
      /\ \A at \in places(<<>>) : AllCalls(c, <<>>)[at] = lists(<<>>)[at[1]][at[2]]
  BY <1>3
<1>8. \A at \in places(labels) : AllCalls(c, labels)[at] \in AnyCall
  <2>1. \A at \in places(labels) : AllCalls(c, labels)[at] \in CallsIn(c, labels)
    BY <1>7, Zenon DEF CallsIn
  <2>2. CallsIn(c, labels) \subseteq AnyCall
    BY DEF AnyCall
  <2> QED
    BY <2>1, <2>2, Zenon
<1>9. AllCalls(c, labels) \in [places(labels) -> AnyCall]
  BY <1>3, <1>7, <1>8, Zenon
<1>10. AllCalls(c, labels) \in CallLists
  BY <1>5, <1>9 DEF CallLists
<1> QED
  BY <1>5, <1>6, <1>7, <1>10

-----------------------------------------------------------------------------
(* Pods *)

\* A part of a list of calls is a list of calls.
LEMMA CallsLeft ==
    ASSUME NEW calls \in CallLists, NEW D \in SUBSET DOMAIN calls
    PROVE  Restrict(calls, D) \in CallLists
<1>1. PICK E \in SUBSET Places : calls \in [E -> AnyCall]
  BY Zenon DEF CallLists
<1>2. Restrict(calls, D) \in [D -> AnyCall] /\ D \in SUBSET Places
  BY <1>1 DEF Restrict
<1> QED
  BY <1>2, Zenon DEF CallLists

\* A pod that starts, waits or is not there knows nothing.
LEMMA Empty ==
    ASSUME NEW contents, NEW labels, NEW pc \in {"init", "wait", "off"}
    PROVE  PodOK([Down EXCEPT !.pc = pc], contents, labels) /\ PodOK(Down, contents, labels)
<1> DEFINE state(x) == [Down EXCEPT !.pc = x]
<1>1. DOMAIN <<>> = {}
  OBVIOUS
<1>2. <<>> \in CallLists
  <2>1. <<>> \in [{} -> AnyCall]
    BY <1>1
  <2> QED
    BY <2>1, Zenon DEF CallLists
<1>3. <<>> \in Seq(SummarySet) /\ <<>> \in Seq(DOMAIN Constraints)
  OBVIOUS
<1>4. AllOK(<<>>, contents, labels)
  BY <1>1, <1>3, Zenon DEF AllOK
<1>5. ASSUME NEW x \in {"init", "wait", "off"}
      PROVE  PodOK(state(x), contents, labels)
  <2>1. state(x) \in PodStates
    BY <1>2, <1>3, Zenon DEF Down, PodStates, Steps, Extents
  <2>2. /\ state(x).pc = x /\ state(x).got = "none" /\ state(x).calls = <<>>
        /\ state(x).results = <<>>
    BY Zenon DEF Down
  <2>3. Control(state(x))
    BY <1>1, <2>2, Zenon DEF Control
  <2> HIDE DEF state
  <2> QED
    BY <1>4, <2>1, <2>2, <2>3, Zenon DEF PodOK
<1>6. state("init") = Down
  BY DEF Down
<1> QED
  BY <1>5, <1>6, Zenon

\* When some resources change, a pod stays right about the others.
LEMMA TouchedPod ==
    ASSUME NEW r, NEW c, NEW l, NEW c2, NEW l2, NEW objs \in SUBSET Objects,
           PodOK(r, c, l),
           \A o \in Objects \ objs : c2[o] = c[o],
           l2 = l \/ objs = Objects,
           NEW results, results = [i \in DOMAIN r.results |-> Touch(r.results[i], objs)]
    PROVE  PodOK([r EXCEPT !.changed = @ \union objs, !.results = results], c2, l2)
<1> DEFINE t == [r EXCEPT !.changed = @ \union objs, !.results = results]
<1>1. /\ r \in PodStates /\ Control(r) /\ AllOK(r.results, c, l)
      /\ r.pc \in {"list", "verify"} => Collected(r, c, l)
  BY Zenon DEF PodOK
<1>2. AllOK(results, c2, l2)
  BY <1>1, TouchedAll
<1>3. results \in Seq(SummarySet) /\ (results = <<>> => r.results = <<>>)
  <2>1. results \in Seq(SummarySet)
    BY <1>2, Zenon DEF AllOK
  <2>2. r.results \in Seq(SummarySet) /\ DOMAIN results = DOMAIN r.results
    BY <1>1, Zenon DEF PodStates
  <2> QED
    BY <2>1, <2>2
<1>4. t = [r EXCEPT !.changed = r.changed \union objs, !.results = results]
  BY Zenon
<1> HIDE DEF t
<1>5. /\ t \in PodStates /\ t.changed = r.changed \union objs /\ t.results = results
      /\ t.pc = r.pc /\ t.got = r.got /\ t.todo = r.todo /\ t.calls = r.calls
      /\ t.listed = r.listed /\ t.extent = r.extent
  BY <1>1, <1>3, <1>4, Zenon DEF PodStates
<1>6. Control(t)
  BY <1>1, <1>3, <1>5, Zenon DEF Control
<1>7. ASSUME t.pc \in {"list", "verify"}
      PROVE  Collected(t, c2, l2)
  <2>1. Collected(r, c, l)
    BY <1>1, <1>5, <1>7, Zenon
  <2>2. CASE objs = Objects
    <3>1. Objects \ t.changed = {}
      BY <1>5, <2>2
    <3> QED
      BY <3>1, Zenon DEF Collected
  <2>3. CASE l2 = l
    <3> DEFINE calls == AllCalls(Head(r.todo), l)
    <3>1. \A o \in Objects \ t.changed : o \in Objects \ r.changed /\ c2[o] = c[o]
      BY <1>5, Zenon
    <3>2. \A o : CollectedOf(r, calls, c[o], o) => CollectedOf(t, calls, c[o], o)
      BY <1>5, Zenon DEF CollectedOf
    <3>3. \A o \in Objects \ r.changed : CollectedOf(r, calls, c[o], o)
      BY <2>1, Zenon DEF Collected
    <3>4. calls = AllCalls(Head(t.todo), l2)
      BY <1>5, <2>3, Zenon
    <3> HIDE DEF calls
    <3>5. \A o \in Objects \ t.changed : CollectedOf(t, calls, c2[o], o)
      BY <3>1, <3>2, <3>3, Zenon
    <3> QED
      BY <3>4, <3>5, Zenon DEF Collected
  <2> QED
    BY <2>2, <2>3, Zenon
<1>8. PodOK(t, c2, l2)
  BY <1>2, <1>5, <1>6, <1>7, Zenon DEF PodOK
<1> QED
  BY <1>8, Zenon DEF t

\* A pod that has nothing to collect, with the results it had.
LEMMA MovedPod ==
    ASSUME NEW r, NEW t \in PodStates, NEW c, NEW l, PodOK(r, c, l),
           Control(t), t.results = r.results, t.pc \notin {"list", "verify"}
    PROVE  PodOK(t, c, l)
BY Zenon DEF PodOK

\* The first constraint of a list.
LEMMA FirstOfTodo ==
    ASSUME NEW todo \in Seq(DOMAIN Constraints), todo # <<>>
    PROVE  Head(todo) \in DOMAIN Constraints /\ Tail(todo) \in Seq(DOMAIN Constraints)
<1> DEFINE D == DOMAIN Constraints
<1> HIDE DEF D
<1>1. todo \in Seq(D)
  BY Zenon DEF D
<1>2. Head(todo) \in D /\ Tail(todo) \in Seq(D)
  BY <1>1
<1> QED
  BY <1>2, Zenon DEF D

\* A pod that has selected the resources of a constraint has listed none.
LEMMA SelectedPod ==
    ASSUME NEW r, NEW c, NEW l \in NamespaceLabels, PodOK(r, c, l),
           r.pc = "select", r.todo # <<>>,
           NEW labels \in {l, <<>>}, NEW calls, calls = AllCalls(Head(r.todo), labels)
    PROVE  PodOK([r EXCEPT !.pc = Looping(calls), !.calls = calls, !.listed = {},
                           !.changed = {},
                           !.extent = IF labels = l THEN "complete" ELSE "partial"], c, l)
<1> DEFINE extent == IF labels = l THEN "complete" ELSE "partial"
           t == [r EXCEPT !.pc = Looping(calls), !.calls = calls, !.listed = {},
                          !.changed = {}, !.extent = extent]
           all == AllCalls(Head(r.todo), l)
<1>1. r \in PodStates /\ Control(r) /\ AllOK(r.results, c, l)
  BY Zenon DEF PodOK
<1>2. Head(r.todo) \in DOMAIN Constraints
  BY <1>1, FirstOfTodo, Zenon DEF PodStates
<1>3. calls \in CallLists
  BY <1>2, CallsGrow
<1>4. \A at \in DOMAIN calls : at \in DOMAIN all /\ calls[at] = all[at]
  BY <1>2, CallsGrow
<1>5. Looping(calls) \in {"list", "verify"} /\ (Looping(calls) = "list" <=> DOMAIN calls # {})
  BY Zenon DEF Looping
<1>6. extent \in Extents /\ (extent = "complete" => labels = l)
  BY DEF Extents
<1> HIDE DEF extent, all
<1>7. /\ t \in PodStates /\ t.pc = Looping(calls) /\ t.calls = calls /\ t.listed = {}
      /\ t.changed = {} /\ t.extent = extent /\ t.todo = r.todo /\ t.results = r.results
      /\ t.got = r.got
  BY <1>1, <1>3, <1>5, <1>6, Zenon DEF PodStates, Steps
<1> HIDE DEF t
<1>8. Control(t)
  BY <1>1, <1>5, <1>7 DEF Control
<1>9. extent = "complete" => calls = all
  BY <1>6, Zenon DEF all
<1>10. \A content, o : CollectedOf(t, all, content, o)
  BY <1>4, <1>7, <1>9, Zenon DEF CollectedOf, Listings
<1>11. Collected(t, c, l)
  BY <1>7, <1>10, Zenon DEF Collected, all
<1>12. PodOK(t, c, l)
  BY <1>1, <1>7, <1>8, <1>11, Zenon DEF PodOK
<1> QED
  BY <1>12, Zenon DEF t, extent

\* A List call that succeeds takes the copies of its place.
LEMMA ListedPod ==
    ASSUME NEW r, NEW c \in LiveSet, NEW l, PodOK(r, c, l), r.pc = "list",
           NEW at \in DOMAIN r.calls, NEW rest, rest = Restrict(r.calls, DOMAIN r.calls \ {at}),
           NEW copies,
           copies = {[at |-> at, object |-> o, content |-> c[o]] :
                        o \in {x \in Objects : c[x] # Absent /\ Answers(r.calls[at], x)}}
    PROVE  PodOK([r EXCEPT !.pc = Looping(rest), !.calls = rest,
                           !.listed = @ \union copies], c, l)
<1> DEFINE t == [r EXCEPT !.pc = Looping(rest), !.calls = rest, !.listed = @ \union copies]
           all == AllCalls(Head(r.todo), l)
<1>1. r \in PodStates /\ Control(r) /\ AllOK(r.results, c, l) /\ Collected(r, c, l)
  BY Zenon DEF PodOK
<1>2. r.calls \in CallLists /\ r.listed \in SUBSET Entries
  BY <1>1 DEF PodStates
<1>3. rest \in CallLists
  BY <1>2, CallsLeft, Zenon
<1>4. DOMAIN rest = DOMAIN r.calls \ {at} /\ \A b \in DOMAIN rest : rest[b] = r.calls[b]
  BY Zenon DEF Restrict
<1>5. at \in Places
  BY <1>2 DEF CallLists
<1>6. copies \subseteq Entries
  BY <1>5 DEF LiveSet, Entries
<1>7. Looping(rest) \in {"list", "verify"} /\ (Looping(rest) = "list" <=> DOMAIN rest # {})
  BY Zenon DEF Looping
<1>8. /\ t \in PodStates /\ t.pc = Looping(rest) /\ t.calls = rest
      /\ t.listed = r.listed \union copies /\ t.changed = r.changed /\ t.extent = r.extent
      /\ t.todo = r.todo /\ t.results = r.results /\ t.got = r.got
  BY <1>1, <1>2, <1>3, <1>6, <1>7, Zenon DEF PodStates, Steps
<1> HIDE DEF t
<1>9. Control(t)
  BY <1>1, <1>7, <1>8, Zenon DEF Control
<1>10. ASSUME NEW o \in Objects \ r.changed
       PROVE  CollectedOf(t, all, c[o], o)
  <2>1. CollectedOf(r, all, c[o], o)
    BY <1>1, <1>10, Zenon DEF Collected
  <2>2. at \in DOMAIN all /\ r.calls[at] = all[at]
    BY <2>1, Zenon DEF CollectedOf
  <2> HIDE DEF all
  <2>3. \A b \in DOMAIN t.calls : b \in DOMAIN all /\ t.calls[b] = all[b]
    BY <1>4, <1>8, <2>1, Zenon DEF CollectedOf
  <2>4. \A e \in copies : e.object = o => e.content = c[o] /\ e.at \in Listings(all, c[o], o)
    BY <2>2 DEF Listings
  <2>5. \A e \in t.listed : e.object = o => e.content = c[o] /\ e.at \in Listings(all, c[o], o)
    BY <1>8, <2>1, <2>4, Zenon DEF CollectedOf
  <2>6. ASSUME at \in Listings(all, c[o], o)
        PROVE  \E e \in copies : e.at = at /\ e.object = o
    <3> DEFINE e == [at |-> at, object |-> o, content |-> c[o]]
    <3>1. c[o] # Absent /\ Answers(r.calls[at], o)
      BY <2>2, <2>6, Zenon DEF Listings
    <3>2. e \in copies
      BY <1>10, <3>1, Zenon
    <3>3. e.at = at /\ e.object = o
      BY Zenon
    <3> QED
      BY <3>2, <3>3, Zenon
  <2>7. t.extent = "complete" =>
          \A b \in Listings(all, c[o], o) :
             b \in DOMAIN t.calls \/ \E e \in t.listed : e.at = b /\ e.object = o
    BY <1>4, <1>8, <2>1, <2>6 DEF CollectedOf
  <2> QED
    BY <2>3, <2>5, <2>7, Zenon DEF CollectedOf
<1>11. Collected(t, c, l)
  BY <1>8, <1>10, Zenon DEF Collected
<1>12. PodOK(t, c, l)
  BY <1>1, <1>8, <1>9, <1>11, Zenon DEF PodOK
<1> QED
  BY <1>12, Zenon DEF t

\* One that fails drops calls and copies.
LEMMA DroppedPod ==
    ASSUME NEW r, NEW c, NEW l, PodOK(r, c, l), r.pc = "list",
           NEW D \in SUBSET DOMAIN r.calls, NEW others, others = Restrict(r.calls, D),
           NEW kept \in SUBSET r.listed
    PROVE  PodOK([r EXCEPT !.pc = Looping(others), !.calls = others,
                           !.listed = kept, !.extent = "partial"], c, l)
<1> DEFINE t == [r EXCEPT !.pc = Looping(others), !.calls = others,
                          !.listed = kept, !.extent = "partial"]
           all == AllCalls(Head(r.todo), l)
<1>1. r \in PodStates /\ Control(r) /\ AllOK(r.results, c, l) /\ Collected(r, c, l)
  BY Zenon DEF PodOK
<1>2. r.calls \in CallLists /\ r.listed \in SUBSET Entries
  BY <1>1, Zenon DEF PodStates
<1>3. others \in CallLists
  BY <1>2, CallsLeft
<1>4. DOMAIN others \subseteq DOMAIN r.calls /\ \A b \in DOMAIN others : others[b] = r.calls[b]
  BY Zenon DEF Restrict
<1>5. kept \subseteq r.listed
  BY Zenon
<1>6. Looping(others) \in {"list", "verify"} /\ (Looping(others) = "list" <=> DOMAIN others # {})
  BY Zenon DEF Looping
<1>7. /\ t \in PodStates /\ t.pc = Looping(others) /\ t.calls = others
      /\ t.listed = kept /\ t.changed = r.changed /\ t.extent = "partial"
      /\ t.todo = r.todo /\ t.results = r.results /\ t.got = r.got
  BY <1>1, <1>2, <1>3, <1>5, <1>6, Zenon DEF PodStates, Steps, Extents
<1> HIDE DEF t, all
<1>8. Control(t)
  BY <1>1, <1>6, <1>7, Zenon DEF Control
<1>9. ASSUME NEW o \in Objects \ r.changed
      PROVE  CollectedOf(t, all, c[o], o)
  <2>1. CollectedOf(r, all, c[o], o)
    BY <1>1, <1>9, Zenon DEF Collected, all
  <2> QED
    BY <1>4, <1>5, <1>7, <2>1 DEF CollectedOf
<1>10. Collected(t, c, l)
  BY <1>7, <1>9, Zenon DEF Collected, all
<1>11. PodOK(t, c, l)
  BY <1>1, <1>7, <1>8, <1>10, Zenon DEF PodOK
<1> QED
  BY <1>11 DEF t

\* The summary of what a pod has listed is true: the copies are those of all
\* the calls, and each is on the side that its content puts it on.
LEMMA SummaryIsTrue ==
    ASSUME NEW r, NEW c \in LiveSet, NEW l, PodOK(r, c, l), r.pc = "verify",
           NEW error \in SUBSET Objects
    PROVE  SummaryOK(Summary(r, error), c, l)
<1> DEFINE s == Summary(r, error)
           bad(x) == \/ ObserveResource(x.content.sig, x.object \in error)
                     \/ ~ObserveImage(x.content.images)
           result(x) == [at |-> x.at, object |-> x.object]
           v == {result(x) : x \in {y \in r.listed : bad(y)}}
           w == {result(x) : x \in {y \in r.listed : ~bad(y)}}
           of(results, o) == {x.at : x \in {y \in results : y.object = o}}
           all == AllCalls(Head(r.todo), l)
<1>1. r \in PodStates /\ Control(r) /\ Collected(r, c, l)
  BY Zenon DEF PodOK
<1>2. Head(r.todo) \in DOMAIN Constraints
  BY <1>1, FirstOfTodo, Zenon DEF PodStates, Control
<1>3. r.listed \in SUBSET Entries /\ r.changed \in SUBSET Objects /\ r.extent \in Extents
  BY <1>1 DEF PodStates
<1>4. \A x \in r.listed : x \in Entries /\ result(x) \in Results
  BY <1>3, Zenon DEF Entries, Results
<1>5. s = [constraint |-> Head(r.todo), violations |-> v, nonViolations |-> w,
           ignored |-> ~Constraints[Head(r.todo)].inform, changed |-> r.changed \union error,
           extent |-> r.extent]
  BY Zenon DEF Summary
<1> HIDE DEF result, bad
<1>6. v \in SUBSET Results /\ w \in SUBSET Results
  BY <1>4
<1>7. (~Constraints[Head(r.todo)].inform) \in BOOLEAN
  OBVIOUS
<1> HIDE DEF v, w
<1>8. /\ s \in SummarySet /\ s.constraint = Head(r.todo) /\ s.violations = v
      /\ s.nonViolations = w /\ s.changed = r.changed \union error /\ s.extent = r.extent
  BY <1>2, <1>3, <1>5, <1>6, <1>7 DEF SummarySet
<1> HIDE DEF s
<1>9. ASSUME NEW o \in Objects \ s.changed
      PROVE  IsTrueOf(s, all, c[o], o)
  <2>1. o \in Objects \ r.changed /\ o \notin error
    BY <1>8, <1>9, Zenon
  <2>2. CollectedOf(r, all, c[o], o)
    BY <1>1, <2>1, Zenon DEF Collected
  <2>3. DOMAIN r.calls = {}
    BY <1>1, Zenon DEF Control
  <2> HIDE DEF all
  <2>4. \A x \in r.listed : x.object = o =>
          x.content = c[o] /\ x.at \in Listings(all, c[o], o)
    BY <2>2, Zenon DEF CollectedOf
  <2>5. r.extent = "complete" =>
          \A at \in Listings(all, c[o], o) : \E x \in r.listed : x.at = at /\ x.object = o
    BY <2>2, <2>3 DEF CollectedOf
  <2>6. \A x : result(x).at = x.at /\ result(x).object = x.object
    BY DEF result
  <2>7. \A x \in r.listed : x.object = o => (bad(x) <=> Violates(c[o]))
    <3>1. SUFFICES ASSUME NEW x \in r.listed, x.object = o
                   PROVE  bad(x) <=> Violates(c[o])
      BY Zenon
    <3>2. x.content = c[o] /\ c[o] # Absent
      BY <2>4, <3>1, Zenon DEF Listings
    <3>3. c[o] \in Contents
      BY <2>1, <3>2, Zenon DEF LiveSet
    <3>4. c[o].sig \in {"verified", "unverified"}
      BY <3>3, ObserverAssumption, Zenon
    <3>5. c[o].sig # "verified" <=> c[o].sig = "unverified"
      BY <3>4, Zenon
    <3> QED
      BY <2>1, <3>1, <3>2, <3>5, Zenon DEF bad, Violates, ObserveResource, ObserveImage
  <2>8. /\ of(v, o) # {} => Violates(c[o])
        /\ of(w, o) # {} => ~Violates(c[o])
    BY <2>6, <2>7 DEF v, w
  <2>9. of(v \union w, o) = {x.at : x \in {y \in r.listed : y.object = o}}
    BY <2>6 DEF v, w
  <2>10. of(v \union w, o) \subseteq Listings(all, c[o], o)
    BY <2>4, <2>9, Zenon
  <2>11. r.extent = "complete" => Listings(all, c[o], o) \subseteq of(v \union w, o)
    BY <2>5, <2>9
  <2> QED
    BY <1>8, <2>8, <2>10, <2>11, Zenon DEF IsTrueOf
<1>10. IsTrue(s, c, l)
  BY <1>8, <1>9, Zenon DEF IsTrue, AllCalls
<1> QED
  BY <1>8, <1>10, Zenon DEF SummaryOK, s

\* ... and it is appended to the results.
LEMMA VerifiedPod ==
    ASSUME NEW r, NEW c \in LiveSet, NEW l, PodOK(r, c, l), r.pc = "verify",
           NEW error \in SUBSET Objects
    PROVE  PodOK([r EXCEPT !.pc = "get", !.results = Append(@, Summary(r, error)),
                           !.changed = {}, !.extent = "complete"], c, l)
<1> DEFINE s == Summary(r, error)
           q == Append(r.results, s)
           t == [r EXCEPT !.pc = "get", !.results = q, !.changed = {}, !.extent = "complete"]
<1>1. r \in PodStates /\ Control(r) /\ AllOK(r.results, c, l)
  BY Zenon DEF PodOK
<1>2. s \in SummarySet /\ IsTrue(s, c, l)
  BY SummaryIsTrue, Zenon DEF SummaryOK
<1>3. r.results \in Seq(SummarySet) /\ \A i \in DOMAIN r.results : IsTrue(r.results[i], c, l)
  BY <1>1, Zenon DEF AllOK
<1>a. [r EXCEPT !.pc = "get", !.results = Append(@, Summary(r, error)),
                !.changed = {}, !.extent = "complete"] = t
  BY <1>1 DEF PodStates
<1> HIDE DEF s
<1>4. /\ q \in Seq(SummarySet) /\ q # <<>>
      /\ \A i \in DOMAIN q : (i \in DOMAIN r.results /\ q[i] = r.results[i]) \/ q[i] = s
  BY <1>2, <1>3
<1> HIDE DEF q
<1>5. AllOK(q, c, l)
  BY <1>2, <1>3, <1>4, Zenon DEF AllOK
<1>6. /\ t \in PodStates /\ t.pc = "get" /\ t.results = q /\ t.todo = r.todo
      /\ t.calls = r.calls /\ t.got = r.got
  BY <1>1, <1>4, Zenon DEF PodStates, Steps, Extents
<1> HIDE DEF t
<1>7. Control(t)
  BY <1>1, <1>4, <1>6, Zenon DEF Control
<1>8. PodOK(t, c, l)
  BY <1>5, <1>6, <1>7, Zenon DEF PodOK
<1> QED
  BY <1>8, <1>a, Zenon

-----------------------------------------------------------------------------
(* Steps *)

\* A call that fails stays within the bound.
LEMMA FaultBound ==
    ASSUME Inv, Fault \/ UNCHANGED faults
    PROVE  faults' \in 0..MaxFaults
BY ObserverAssumption DEF Inv, Fault

\* A step of one pod that writes nothing keeps the invariant if the pod is right.
LEMMA PodStep ==
    ASSUME Inv, NEW p \in Pods, NEW t, PodOK(t, live, nsLabels), Goto(p, t),
           UNCHANGED <<Cluster, Stored>>, Fault \/ UNCHANGED faults
    PROVE  Inv'
<1>1. faults' \in 0..MaxFaults
  BY FaultBound, Zenon
<1>2. /\ live' = live /\ applied' = applied /\ nsLabels' = nsLabels /\ edits' = edits
      /\ mis' = mis /\ detail' = detail
  BY Zenon DEF Cluster, Stored
<1>3. DOMAIN pod' = Pods /\ \A q \in Pods : pod'[q] = IF q = p THEN t ELSE pod[q]
  BY Zenon DEF Goto, Inv
<1>4. \A q \in Pods : PodOK(pod'[q], live', nsLabels')
  BY <1>2, <1>3, Zenon DEF Inv
<1> QED
  BY <1>1, <1>2, <1>3, <1>4, Zenon DEF Inv

\* A restart and the end of a pass do.
LEMMA RestartStep ==
    ASSUME Inv, NEW p \in Pods, Restart(p) \/ EndPass(p),
           UNCHANGED <<Cluster, Stored>>, Fault \/ UNCHANGED faults
    PROVE  Inv'
<1>1. PodOK(Down, live, nsLabels) /\ PodOK([Down EXCEPT !.pc = "wait"], live, nsLabels)
  BY Empty
<1>2. Goto(p, Down) \/ Goto(p, [Down EXCEPT !.pc = "wait"])
  BY Zenon DEF Restart, EndPass, Goto
<1> QED
  BY <1>1, <1>2, PodStep, Zenon

\* A read does if both its outcomes are right.
LEMMA ReadStep ==
    ASSUME Inv, NEW p \in Pods, NEW ok, NEW failed, Read(p, ok, failed),
           PodOK(ok, live, nsLabels), PodOK(failed, live, nsLabels),
           UNCHANGED <<Cluster, Stored>>
    PROVE  Inv'
<1>1. CASE Goto(p, ok) /\ UNCHANGED faults
  BY <1>1, PodStep
<1>2. CASE Goto(p, failed) /\ Fault
  BY <1>2, PodStep, Zenon
<1> QED
  BY <1>1, <1>2, Zenon DEF Read

\* What is known of a pod.
LEMMA PodFacts ==
    ASSUME Inv, NEW p \in Pods
    PROVE  /\ pod[p] \in PodStates /\ Control(pod[p])
           /\ PodOK(pod[p], live, nsLabels)
           /\ live \in LiveSet /\ nsLabels \in NamespaceLabels
BY Zenon DEF Inv, PodOK

\* A change of resources or namespaces keeps the invariant: all that was known
\* of them is marked.
LEMMA TouchStep ==
    ASSUME Inv, NEW objs \in SUBSET Objects, TouchAll(objs),
           live' \in LiveSet, nsLabels' \in NamespaceLabels,
           \A o \in Objects \ objs : live'[o] = live[o],
           nsLabels' = nsLabels \/ objs = Objects,
           Edit, UNCHANGED <<applied, faults>>
    PROVE  Inv'
<1>1. edits' \in 0..MaxEdits /\ applied' = applied /\ faults' = faults
  BY ObserverAssumption DEF Inv, Edit
<1>2. DOMAIN mis' = Names /\ \A n \in Names : StoredOK(mis'[n], live', nsLabels')
  <2>1. mis' = [n \in Names |-> Touch(mis[n], objs)]
    BY Zenon DEF TouchAll
  <2>2. ASSUME NEW n \in Names
        PROVE  StoredOK(mis'[n], live', nsLabels')
    <3>1. mis'[n] = Touch(mis[n], objs)
      BY <2>1, <2>2, Zenon
    <3>2. CASE mis[n] = None
      BY <3>1, <3>2, Zenon DEF Touch, StoredOK
    <3>3. CASE SummaryOK(mis[n], live, nsLabels)
      <4>1. SummaryOK(Touch(mis[n], objs), live', nsLabels')
        BY <3>3, TouchedSummary
      <4> QED
        BY <3>1, <4>1, Zenon DEF StoredOK
    <3> QED
      BY <2>2, <3>2, <3>3, Zenon DEF Inv, StoredOK
  <2> QED
    BY <2>1, <2>2, Zenon
<1>3. DetailOK(detail', live', nsLabels')
  <2> DEFINE q == [i \in DOMAIN detail.results |-> Touch(detail.results[i], objs)]
  <2>1. CASE detail = None
    BY <2>1, Zenon DEF TouchAll, DetailOK
  <2>2. CASE detail # None
    <3>1. detail = [constraint |-> 1, results |-> detail.results]
          /\ AllOK(detail.results, live, nsLabels)
      BY <2>2, Zenon DEF Inv, DetailOK
    <3>2. AllOK(q, live', nsLabels')
      BY <3>1, TouchedAll
    <3>3. detail' = [detail EXCEPT !.results = [i \in DOMAIN @ |-> Touch(detail.results[i], objs)]]
      BY <2>2, Zenon DEF TouchAll
    <3>4. detail' = [constraint |-> 1, results |-> q]
      BY <3>1, <3>3
    <3> HIDE DEF q
    <3>5. detail'.results = q
      BY <3>4, Zenon
    <3> QED
      BY <3>2, <3>4, <3>5, Zenon DEF DetailOK
  <2> QED
    BY <2>1, <2>2, Zenon
<1>4. DOMAIN pod' = Pods /\ \A p \in Pods : PodOK(pod'[p], live', nsLabels')
  <2>1. /\ DOMAIN pod' = Pods
        /\ \A p \in Pods : pod'[p] = [pod[p] EXCEPT
             !.changed = @ \union objs,
             !.results = [i \in DOMAIN @ |-> Touch(pod[p].results[i], objs)]]
    BY Zenon DEF TouchAll
  <2>2. \A p \in Pods : PodOK(pod[p], live, nsLabels)
    BY Zenon DEF Inv
  <2>3. ASSUME NEW p \in Pods
        PROVE  PodOK(pod'[p], live', nsLabels')
    <3> DEFINE r == pod[p]
               results == [i \in DOMAIN r.results |-> Touch(r.results[i], objs)]
               t == [r EXCEPT !.changed = @ \union objs, !.results = results]
               c2 == live'
               l2 == nsLabels'
    <3>1. /\ PodOK(r, live, nsLabels) /\ \A o \in Objects \ objs : c2[o] = live[o]
          /\ l2 = nsLabels \/ objs = Objects
      BY <2>2, <2>3, Zenon
    <3>2. pod'[p] = t
      BY <2>1, <2>3, Zenon
    <3>a. results = [i \in DOMAIN r.results |-> Touch(r.results[i], objs)]
      OBVIOUS
    <3> HIDE DEF r, c2, l2, results
    <3>3. PodOK(t, c2, l2)
      BY <3>1, <3>a, TouchedPod, Zenon
    <3> HIDE DEF t
    <3> QED
      BY <3>2, <3>3, Zenon DEF c2, l2
  <2> QED
    BY <2>1, <2>3, Zenon
<1> QED
  BY <1>1, <1>2, <1>3, <1>4, Zenon DEF Inv

\* The changes of the cluster keep the invariant.
LEMMA ClusterSteps ==
    ASSUME Inv, EditObject \/ EditNamespaces \/ EditConstraints
    PROVE  Inv'
<1>1. CASE EditObject
  <2>1. PICK o \in Objects, content \in Contents \union {Absent} :
          live' = [live EXCEPT ![o] = content] /\ TouchAll({o})
    BY <1>1, Zenon DEF EditObject
  <2>2. live' \in LiveSet /\ \A x \in Objects \ {o} : live'[x] = live[x]
    BY <2>1 DEF Inv, LiveSet
  <2>3. {o} \in SUBSET Objects /\ TouchAll({o})
    BY <2>1, Zenon
  <2>4. nsLabels' = nsLabels /\ nsLabels' \in NamespaceLabels /\ Edit /\ UNCHANGED <<applied, faults>>
    BY <1>1, Zenon DEF EditObject, Inv
  <2> QED
    BY <2>2, <2>3, <2>4, TouchStep, Zenon
<1>2. CASE EditNamespaces
  <2>1. /\ live' = live /\ live' \in LiveSet /\ nsLabels' \in NamespaceLabels /\ Edit
        /\ TouchAll(Objects) /\ UNCHANGED <<applied, faults>>
    BY <1>2, Zenon DEF EditNamespaces, Inv
  <2>2. Objects \in SUBSET Objects
    OBVIOUS
  <2> QED
    BY <2>1, <2>2, TouchStep
<1>3. CASE EditConstraints
  <2>1. /\ live' = live /\ nsLabels' = nsLabels /\ mis' = mis /\ detail' = detail
        /\ pod' = pod /\ faults' = faults /\ Edit
    BY <1>3, Zenon DEF EditConstraints
  <2>2. edits' \in 0..MaxEdits
    BY <2>1, ObserverAssumption DEF Inv, Edit
  <2>3. applied' \subseteq DOMAIN Constraints
    BY <1>3 DEF EditConstraints, Inv
  <2> QED
    BY <2>1, <2>2, <2>3, Zenon DEF Inv
<1> QED
  BY <1>1, <1>2, <1>3

\* A pod that starts, reads its configuration and the constraints, or waits for
\* the ticker keeps the invariant.
LEMMA SetUpSteps ==
    ASSUME Inv, NEW p \in Pods,
           \/ Killed(p) \/ StartPod(p) \/ InitObserver(p) \/ LoadConfig(p)
           \/ loadConstraints(p) \/ Tick(p)
    PROVE  Inv'
<1> DEFINE r == pod[p]
<1>0. r \in PodStates /\ Control(r) /\ PodOK(r, live, nsLabels)
  BY PodFacts, Zenon
<1>1. CASE Killed(p) \/ StartPod(p)
  BY <1>1, RestartStep, Zenon DEF Killed, StartPod
<1>2. CASE InitObserver(p)
  <2> DEFINE t == [r EXCEPT !.pc = "config"]
  <2>1. r.pc = "init" /\ Read(p, t, r) /\ UNCHANGED <<Cluster, Stored>>
    BY <1>2, Zenon DEF InitObserver
  <2> HIDE DEF r
  <2>2. t \in PodStates /\ Control(t) /\ t.results = r.results /\ t.pc = "config"
    BY <1>0, <2>1 DEF PodStates, Steps, Control
  <2> HIDE DEF t
  <2>3. PodOK(t, live, nsLabels)
    BY <1>0, <2>2, MovedPod
  <2> QED
    BY <1>0, <2>1, <2>3, ReadStep
<1>3. CASE LoadConfig(p)
  <2> DEFINE t(x) == [r EXCEPT !.pc = "constraints", !.config = x]
  <2>1. r.pc = "config" /\ Read(p, t("loaded"), t("none")) /\ UNCHANGED <<Cluster, Stored>>
    BY <1>3, Zenon DEF LoadConfig
  <2> HIDE DEF r
  <2>2. \A x \in {"loaded", "none"} :
          t(x) \in PodStates /\ Control(t(x)) /\ t(x).results = r.results /\ t(x).pc = "constraints"
    BY <1>0, <2>1, Zenon DEF PodStates, Steps, Control
  <2> HIDE DEF t
  <2>3. \A x \in {"loaded", "none"} : PodOK(t(x), live, nsLabels)
    BY <1>0, <2>2, MovedPod, Zenon
  <2> QED
    BY <2>1, <2>3, ReadStep, Zenon
<1>4. CASE loadConstraints(p)
  <2>1. r.pc = "constraints" /\ UNCHANGED <<Cluster, Stored>>
    BY <1>4, Zenon DEF loadConstraints
  <2>2. CASE (Fault /\ EndPass(p)) \/ (Restart(p) /\ (Fault \/ UNCHANGED faults))
    BY <2>1, <2>2, RestartStep, Zenon
  <2>3. ASSUME NEW loaded \in {InListOrder(applied), <<>>},
               Goto(p, [r EXCEPT !.pc = "select", !.todo = loaded]),
               Fault \/ UNCHANGED faults
        PROVE  Inv'
    <3> DEFINE t == [r EXCEPT !.pc = "select", !.todo = loaded]
    <3>1. loaded \in Seq(DOMAIN Constraints)
      <4>1. applied \subseteq DOMAIN Constraints
        BY Zenon DEF Inv
      <4>2. IsFiniteSet(applied)
        BY <4>1, ConstraintTypes, FS_Subset, Zenon
      <4>3. InListOrder(applied) \in Seq(applied)
        BY <4>2, ListsTheSet, Zenon
      <4>4. InListOrder(applied) \in Seq(DOMAIN Constraints)
        BY <4>1, <4>3
      <4>5. <<>> \in Seq(DOMAIN Constraints)
        OBVIOUS
      <4> QED
        BY <2>3, <4>4, <4>5, Zenon
    <3>2. Goto(p, t)
      BY <2>3, Zenon
    <3> HIDE DEF r
    <3>3. t \in PodStates /\ Control(t) /\ t.results = r.results /\ t.pc = "select"
      BY <1>0, <2>1, <3>1, Zenon DEF PodStates, Steps, Control
    <3> HIDE DEF t
    <3>4. PodOK(t, live, nsLabels)
      BY <1>0, <3>3, MovedPod, Zenon
    <3> QED
      BY <2>1, <2>3, <3>2, <3>4, PodStep, Zenon
  <2> QED
    BY <1>4, <2>2, <2>3, Zenon DEF loadConstraints
<1>5. CASE Tick(p)
  <2> DEFINE t == [r EXCEPT !.pc = "config"]
  <2>1. r.pc = "wait" /\ Goto(p, t) /\ UNCHANGED <<Cluster, Stored>> /\ UNCHANGED faults
    BY <1>5, Zenon DEF Tick, Cluster, Stored
  <2> HIDE DEF r
  <2>2. t \in PodStates /\ Control(t) /\ t.results = r.results /\ t.pc = "config"
    BY <1>0, <2>1, Zenon DEF PodStates, Steps, Control
  <2> HIDE DEF t
  <2>3. PodOK(t, live, nsLabels)
    BY <1>0, <2>2, MovedPod
  <2> QED
    BY <2>1, <2>3, PodStep, Zenon
<1> QED
  BY <1>1, <1>2, <1>3, <1>4, <1>5, Zenon

\* Selecting, listing and verifying the resources do.
LEMMA CollectingSteps ==
    ASSUME Inv, NEW p \in Pods,
           Select(p) \/ getAllResoucesByGroupResource(p) \/ Verify(p)
    PROVE  Inv'
<1> DEFINE r == pod[p]
<1>0. /\ r \in PodStates /\ Control(r) /\ PodOK(r, live, nsLabels)
      /\ live \in LiveSet /\ nsLabels \in NamespaceLabels
  BY PodFacts, Zenon
<1>1. CASE Select(p)
  <2>1. PICK labels \in {nsLabels, <<>>} :
          /\ Fault \/ UNCHANGED faults
          /\ \E targets \in {Targets(Current(p).match, labels)} :
             \E calls \in {CallsOf(targets)} :
                Goto(p, [r EXCEPT !.pc = Looping(calls), !.calls = calls, !.listed = {},
                                  !.changed = {},
                                  !.extent = IF labels = nsLabels THEN "complete" ELSE "partial"])
    BY <1>1, Zenon DEF Select
  <2> DEFINE calls == AllCalls(Head(r.todo), labels)
             t == [r EXCEPT !.pc = Looping(calls), !.calls = calls, !.listed = {},
                            !.changed = {},
                            !.extent = IF labels = nsLabels THEN "complete" ELSE "partial"]
  <2>2. Goto(p, t)
    BY <2>1, Zenon DEF Current, AllCalls
  <2>3. r.pc = "select" /\ r.todo # <<>> /\ UNCHANGED <<Cluster, Stored>>
    BY <1>1, Zenon DEF Select
  <2> HIDE DEF r
  <2>4. PodOK(t, live, nsLabels)
    BY <1>0, <2>1, <2>3, SelectedPod, Zenon
  <2> HIDE DEF t
  <2> QED
    BY <2>1, <2>2, <2>3, <2>4, PodStep
<1>2. CASE getAllResoucesByGroupResource(p)
  <2> DEFINE rest(at) == Restrict(r.calls, DOMAIN r.calls \ {at})
             others(at) == Restrict(r.calls, {b \in DOMAIN r.calls : b[1] # at[1]})
             found(at) == [r EXCEPT !.pc = Looping(rest(at)), !.calls = rest(at),
                                    !.listed = @ \union Listing(at, r.calls[at])]
             dropped(at) == [r EXCEPT !.pc = Looping(others(at)), !.calls = others(at),
                                      !.listed = {e \in @ : e.at[1] # at[1]},
                                      !.extent = "partial"]
  <2>1. r.pc = "list" /\ UNCHANGED <<Cluster, Stored>>
    BY <1>2, Zenon DEF getAllResoucesByGroupResource
  <2>2. PICK at \in DOMAIN r.calls :
          \/ Goto(p, found(at)) /\ UNCHANGED faults
          \/ Fault /\ (Goto(p, dropped(at)) \/ Restart(p))
    BY <1>2, Zenon DEF getAllResoucesByGroupResource
  <2>3. CASE Goto(p, found(at)) /\ UNCHANGED faults
    <3>1. PodOK(found(at), live, nsLabels)
      <4> DEFINE copies == {[at |-> at, object |-> o, content |-> live[o]] :
                    o \in {x \in Objects : live[x] # Absent /\ Answers(r.calls[at], x)}}
      <4>1. Listing(at, r.calls[at]) = copies
        BY Zenon DEF Listing
      <4> HIDE DEF r
      <4>2. PodOK([r EXCEPT !.pc = Looping(rest(at)), !.calls = rest(at),
                            !.listed = @ \union copies], live, nsLabels)
        BY <1>0, <2>1, <2>2, ListedPod, Zenon
      <4> HIDE DEF copies, rest
      <4> QED
        BY <4>1, <4>2, Zenon
    <3> HIDE DEF found
    <3> QED
      BY <2>1, <2>3, <3>1, PodStep
  <2>4. CASE Goto(p, dropped(at)) /\ Fault
    <3>1. PodOK(dropped(at), live, nsLabels)
      <4> DEFINE D == {b \in DOMAIN r.calls : b[1] # at[1]}
                 left == others(at)
                 kept == {e \in r.listed : e.at[1] # at[1]}
      <4>1. /\ D \in SUBSET DOMAIN r.calls /\ left = Restrict(r.calls, D)
            /\ kept \in SUBSET r.listed
        BY Zenon
      <4> HIDE DEF r, D, left, kept
      <4>2. PodOK([r EXCEPT !.pc = Looping(left), !.calls = left,
                            !.listed = kept, !.extent = "partial"], live, nsLabels)
        BY <1>0, <2>1, <4>1, DroppedPod, Zenon
      <4> QED
        BY <4>2, Zenon DEF left, kept
    <3> HIDE DEF dropped
    <3> QED
      BY <2>1, <2>4, <3>1, PodStep
  <2>5. CASE Restart(p) /\ Fault
    BY <2>1, <2>5, RestartStep, Zenon
  <2> QED
    BY <2>2, <2>3, <2>4, <2>5, Zenon
<1>3. CASE Verify(p)
  <2>1. PICK error \in SUBSET {e.object : e \in r.listed} :
          /\ Fault \/ UNCHANGED faults
          /\ Goto(p, [r EXCEPT !.pc = "get", !.results = Append(@, Summary(r, error)),
                               !.changed = {}, !.extent = "complete"])
    BY <1>3, Zenon DEF Verify
  <2>2. r.pc = "verify" /\ UNCHANGED <<Cluster, Stored>>
    BY <1>3, Zenon DEF Verify
  <2>3. error \in SUBSET Objects
    <3>1. r.listed \in SUBSET Entries
      BY <1>0 DEF PodStates
    <3> HIDE DEF r
    <3> QED
      BY <2>1, <3>1 DEF Entries
  <2> DEFINE t == [r EXCEPT !.pc = "get", !.results = Append(@, Summary(r, error)),
                            !.changed = {}, !.extent = "complete"]
  <2>4. PodOK(t, live, nsLabels)
    <3> HIDE DEF r
    <3> QED
      BY <1>0, <2>2, <2>3, VerifiedPod, Zenon
  <2>5. Goto(p, t)
    BY <2>1, Zenon
  <2> HIDE DEF t
  <2> QED
    BY <2>1, <2>2, <2>4, <2>5, PodStep, Zenon
<1> QED
  BY <1>1, <1>2, <1>3, Zenon

\* A pod that reads what it is about to write keeps the invariant.
LEMMA GetStep ==
    ASSUME Inv, NEW p \in Pods, NEW stored, NEW put,
           \/ put = "put" /\ pod[p].pc = "get"
           \/ put = "detailPut" /\ pod[p].pc = "select",
           Get(p, stored, put)
    PROVE  Inv'
<1> DEFINE r == pod[p]
           t(got) == [r EXCEPT !.pc = put, !.got = got]
<1>0. r \in PodStates /\ Control(r) /\ PodOK(r, live, nsLabels)
  BY PodFacts, Zenon
<1>1. /\ Read(p, t("update"), t("create")) \/ (Goto(p, t("create")) /\ UNCHANGED faults)
      /\ UNCHANGED <<Cluster, Stored>>
  BY Zenon DEF Get
<1>2. \/ put = "put" /\ r.pc = "get"
      \/ put = "detailPut" /\ r.pc = "select"
  BY Zenon
<1> HIDE DEF r
<1>3. \A got \in {"update", "create"} :
        /\ t(got) \in PodStates /\ Control(t(got)) /\ t(got).results = r.results
        /\ t(got).pc = put
  BY <1>0, <1>2, Zenon DEF PodStates, Steps, Control
<1>4. put \notin {"list", "verify"}
  BY <1>2
<1> HIDE DEF t
<1>5. PodOK(t("update"), live, nsLabels) /\ PodOK(t("create"), live, nsLabels)
  BY <1>0, <1>3, <1>4, MovedPod, Zenon
<1> QED
  BY <1>1, <1>5, ReadStep, PodStep, Zenon

\* After a write that succeeds, the pods whose Update will fail stay right.
LEMMA AdvanceStep ==
    ASSUME Inv, NEW p \in Pods, NEW step \in {"put", "detailPut"}, NEW name, NEW t,
           PodOK(t, live, nsLabels), Advance(p, step, name, t)
    PROVE  DOMAIN pod' = Pods /\ \A q \in Pods : PodOK(pod'[q], live, nsLabels)
<1>1. /\ DOMAIN pod' = Pods
      /\ \A q \in Pods : pod'[q] = IF q = p THEN t
                                   ELSE IF q \in Conflict(p, step, name)
                                        THEN [pod[q] EXCEPT !.got = "conflict"] ELSE pod[q]
  BY Zenon DEF Advance
<1>2. ASSUME NEW q \in Pods, q \in Conflict(p, step, name)
      PROVE  PodOK([pod[q] EXCEPT !.got = "conflict"], live, nsLabels)
  <2> DEFINE r == pod[q]
             u == [r EXCEPT !.got = "conflict"]
  <2>1. r.pc = step
    BY <1>2, Zenon DEF Conflict
  <2>2. r \in PodStates /\ Control(r) /\ PodOK(r, live, nsLabels)
    BY <1>2, PodFacts, Zenon
  <2> HIDE DEF r
  <2>3. u \in PodStates /\ Control(u) /\ u.results = r.results /\ u.pc = step
    BY <2>1, <2>2, Zenon DEF PodStates, Control
  <2> HIDE DEF u
  <2>4. PodOK(u, live, nsLabels)
    BY <2>2, <2>3, MovedPod, Zenon
  <2> QED
    BY <2>4, Zenon DEF u, r
<1>3. \A q \in Pods : PodOK(pod[q], live, nsLabels)
  BY Zenon DEF Inv
<1> QED
  BY <1>1, <1>2, <1>3, Zenon

\* Writing a ManifestIntegrityState or the ConfigMap keeps the invariant.
LEMMA ExportSteps ==
    ASSUME Inv, NEW p \in Pods,
           \/ exportVerifyResultGet(p) \/ exportVerifyResultPut(p)
           \/ exportResultDetailGet(p) \/ exportResultDetailPut(p)
    PROVE  Inv'
<1> DEFINE r == pod[p]
<1>0. r \in PodStates /\ Control(r) /\ PodOK(r, live, nsLabels) /\ AllOK(r.results, live, nsLabels)
  BY PodFacts, Zenon DEF PodOK
<1>1. CASE exportVerifyResultGet(p)
  BY <1>1, GetStep, Zenon DEF exportVerifyResultGet
<1>2. CASE exportVerifyResultPut(p)
  <2> DEFINE name == Current(p).name
             last == r.results[Len(r.results)]
             t == [r EXCEPT !.pc = "select", !.todo = Tail(@), !.got = "none"]
  <2>1. /\ r.pc = "put" /\ UNCHANGED <<Cluster, detail>>
        /\ \/ /\ mis' = [mis EXCEPT ![name] = last]
              /\ Advance(p, "put", name, t) /\ UNCHANGED faults
           \/ Goto(p, t) /\ UNCHANGED mis /\ (Fault \/ UNCHANGED faults)
    BY <1>2, Zenon DEF exportVerifyResultPut
  <2>2. r.todo # <<>> /\ r.results # <<>>
    BY <1>0, <2>1, Zenon DEF Control
  <2>3. Head(r.todo) \in DOMAIN Constraints /\ Tail(r.todo) \in Seq(DOMAIN Constraints)
    BY <1>0, <2>2, FirstOfTodo, Zenon DEF PodStates
  <2>4. name \in Names
    BY <2>3, Zenon DEF Current, Names
  <2>5. SummaryOK(last, live, nsLabels)
    <3>1. r.results \in Seq(SummarySet)
          /\ \A i \in DOMAIN r.results : IsTrue(r.results[i], live, nsLabels)
      BY <1>0, Zenon DEF AllOK
    <3> HIDE DEF r
    <3>2. Len(r.results) \in DOMAIN r.results /\ last \in SummarySet
      BY <2>2, <3>1
    <3> QED
      BY <3>1, <3>2, Zenon DEF SummaryOK
  <2> HIDE DEF name, last, r
  <2>6. t \in PodStates /\ Control(t) /\ t.results = r.results /\ t.pc = "select"
    BY <1>0, <2>1, <2>3, Zenon DEF PodStates, Steps, Control
  <2> HIDE DEF t
  <2>7. PodOK(t, live, nsLabels)
    BY <1>0, <2>6, MovedPod, Zenon
  <2>8. CASE /\ mis' = [mis EXCEPT ![name] = last]
             /\ Advance(p, "put", name, t) /\ UNCHANGED faults
    <3>1. DOMAIN pod' = Pods /\ \A q \in Pods : PodOK(pod'[q], live, nsLabels)
      BY <2>7, <2>8, AdvanceStep
    <3>2. /\ live' = live /\ applied' = applied /\ nsLabels' = nsLabels /\ edits' = edits
          /\ detail' = detail /\ faults' = faults
      BY <2>1, <2>8, Zenon DEF Cluster
    <3>3. DOMAIN mis = Names /\ \A n \in Names : StoredOK(mis[n], live, nsLabels)
      BY Zenon DEF Inv
    <3>4. DOMAIN mis' = Names /\ \A n \in Names : mis'[n] = IF n = name THEN last ELSE mis[n]
      BY <2>8, <3>3, Zenon
    <3>5. \A n \in Names : StoredOK(mis'[n], live, nsLabels)
      BY <2>5, <3>3, <3>4, Zenon DEF StoredOK
    <3> QED
      BY <3>1, <3>2, <3>4, <3>5, Zenon DEF Inv
  <2>9. CASE Goto(p, t) /\ UNCHANGED mis /\ (Fault \/ UNCHANGED faults)
    <3>1. UNCHANGED <<Cluster, Stored>>
      BY <2>1, <2>9, Zenon DEF Cluster, Stored
    <3> QED
      BY <2>7, <2>9, <3>1, PodStep
  <2> QED
    BY <2>1, <2>8, <2>9, Zenon
<1>3. CASE exportResultDetailGet(p)
  <2>1. r.pc = "select"
    BY <1>3, Zenon DEF exportResultDetailGet
  <2>2. CASE EndPass(p) /\ UNCHANGED <<faults, Cluster, Stored>>
    <3>1. UNCHANGED faults /\ UNCHANGED <<Cluster, Stored>>
      BY <2>2 DEF Cluster, Stored
    <3> QED
      BY <2>2, <3>1, RestartStep, Zenon
  <2>3. CASE Get(p, detail, "detailPut")
    BY <2>1, <2>3, GetStep
  <2> QED
    BY <1>3, <2>2, <2>3, Zenon DEF exportResultDetailGet
<1>4. CASE exportResultDetailPut(p)
  <2> DEFINE after == IF interval THEN [Down EXCEPT !.pc = "wait"] ELSE Down
             new == [constraint |-> 1, results |-> r.results]
  <2>1. /\ UNCHANGED <<Cluster, mis>>
        /\ \/ /\ detail' = new /\ Advance(p, "detailPut", "", after) /\ UNCHANGED faults
           \/ Goto(p, after) /\ UNCHANGED detail /\ (Fault \/ UNCHANGED faults)
    BY <1>4, Zenon DEF exportResultDetailPut
  <2>2. PodOK(after, live, nsLabels)
    BY Empty
  <2>3. DetailOK(new, live, nsLabels)
    <3>1. new.results = r.results
      OBVIOUS
    <3> QED
      BY <1>0, <3>1, Zenon DEF DetailOK
  <2> HIDE DEF after, new
  <2>4. CASE detail' = new /\ Advance(p, "detailPut", "", after) /\ UNCHANGED faults
    <3>1. DOMAIN pod' = Pods /\ \A q \in Pods : PodOK(pod'[q], live, nsLabels)
      BY <2>2, <2>4, AdvanceStep, Zenon
    <3>2. /\ live' = live /\ applied' = applied /\ nsLabels' = nsLabels /\ edits' = edits
          /\ mis' = mis /\ faults' = faults
      BY <2>1, <2>4, Zenon DEF Cluster
    <3> QED
      BY <2>3, <2>4, <3>1, <3>2, Zenon DEF Inv
  <2>5. CASE Goto(p, after) /\ UNCHANGED detail /\ (Fault \/ UNCHANGED faults)
    <3>1. UNCHANGED <<Cluster, Stored>>
      BY <2>1, <2>5, Zenon DEF Cluster, Stored
    <3> QED
      BY <2>2, <2>5, <3>1, PodStep
  <2> QED
    BY <2>1, <2>4, <2>5, Zenon
<1> QED
  BY <1>1, <1>2, <1>3, <1>4, Zenon

-----------------------------------------------------------------------------
(* Theorems *)

\* The observer starts with nothing to be wrong about.
LEMMA InvInit ==
    ASSUME Init
    PROVE  Inv
<1>1. live \in LiveSet /\ applied \subseteq DOMAIN Constraints /\ nsLabels \in NamespaceLabels
  BY DEF Init, LiveSet
<1>2. edits \in 0..MaxEdits /\ faults \in 0..MaxFaults
  BY ObserverAssumption DEF Init
<1>3. DOMAIN mis = Names /\ \A n \in Names : StoredOK(mis[n], live, nsLabels)
  BY Zenon DEF Init, StoredOK
<1>4. DetailOK(detail, live, nsLabels)
  BY Zenon DEF Init, DetailOK
<1>5. DOMAIN pod = Pods /\ \A p \in Pods : PodOK(pod[p], live, nsLabels)
  <2>1. /\ DOMAIN pod = Pods
        /\ \A p \in Pods : pod[p] = Down \/ pod[p] = [Down EXCEPT !.pc = "off"]
    BY Zenon DEF Init
  <2>2. PodOK(Down, live, nsLabels) /\ PodOK([Down EXCEPT !.pc = "off"], live, nsLabels)
    BY Empty
  <2> QED
    BY <2>1, <2>2, Zenon
<1> QED
  BY <1>1, <1>2, <1>3, <1>4, <1>5, Zenon DEF Inv

\* Every step keeps the invariant.
LEMMA InvNext ==
    ASSUME Inv, [Next]_vars
    PROVE  Inv'
<1>1. CASE EditObject \/ EditNamespaces \/ EditConstraints
  BY <1>1, ClusterSteps
<1>2. ASSUME NEW p \in Pods, Step(p) \/ Killed(p) \/ StartPod(p)
      PROVE  Inv'
  BY <1>2, SetUpSteps, CollectingSteps, ExportSteps, Zenon DEF Step
<1>3. CASE UNCHANGED vars
  <2>1. /\ live' = live /\ applied' = applied /\ nsLabels' = nsLabels /\ mis' = mis
        /\ detail' = detail /\ pod' = pod /\ edits' = edits /\ faults' = faults
    BY <1>3 DEF vars
  <2> QED
    BY <2>1, Zenon DEF Inv
<1> QED
  BY <1>1, <1>2, <1>3, Zenon DEF Next

\* The invariant contains the type of the state.
LEMMA InvTyped ==
    Inv => TypeOK
<1> SUFFICES ASSUME Inv
             PROVE  TypeOK
  BY Zenon
<1>1. ASSUME NEW p \in Pods
      PROVE  /\ DOMAIN pod[p] = DOMAIN Down /\ pod[p].pc \in Steps
             /\ pod[p].config \in {"none", "loaded"}
             /\ pod[p].todo \in Seq(DOMAIN Constraints)
             /\ \A e \in pod[p].listed : e.object \in Objects
             /\ pod[p].changed \subseteq Objects
             /\ pod[p].extent \in {"complete", "partial"}
             /\ pod[p].got \in {"none", "create", "update", "conflict"}
  <2> DEFINE r == pod[p]
  <2>1. r \in PodStates
    BY <1>1, PodFacts, Zenon
  <2> HIDE DEF r
  <2>2. r.listed \in SUBSET Entries
    BY <2>1, Zenon DEF PodStates
  <2>3. \A e \in r.listed : e.object \in Objects
    BY <2>2 DEF Entries
  <2>4. DOMAIN r = DOMAIN Down
    BY <2>1, Zenon DEF PodStates, Down
  <2>5. /\ r.pc \in Steps /\ r.config \in {"none", "loaded"} /\ r.todo \in Seq(DOMAIN Constraints)
        /\ r.changed \subseteq Objects /\ r.extent \in {"complete", "partial"}
        /\ r.got \in {"none", "create", "update", "conflict"}
    BY <2>1, Zenon DEF PodStates, Extents
  <2> QED
    BY <2>3, <2>4, <2>5, Zenon DEF r
<1>2. \A p \in Pods : Control(pod[p])
  BY PodFacts, Zenon
<1> QED
  BY <1>1, <1>2, Zenon DEF Inv, TypeOK, Control, LiveSet

\* The state of the observer has its type: what a pod remembers belongs to the
\* step it is at, and nothing of it survives a restart.
THEOREM ObserverTypeCorrect == Spec => []TypeOK
<1>1. Spec => []Inv
  <2>1. Init => Inv
    BY InvInit
  <2>2. Inv /\ [Next]_vars => Inv'
    BY InvNext
  <2> QED
    BY <2>1, <2>2, PTL DEF Spec
<1> QED
  BY <1>1, InvTyped, PTL

\* Whatever changes, fails, restarts or writes concurrently, what a
\* ManifestIntegrityState or the ConfigMap says of a resource that has not
\* changed since the pass selected it is true, for any set of pods, resources,
\* constraints and namespaces.
THEOREM ReportsAlwaysTrue == Spec => []ReportsAreTrue
<1>1. Spec => []Inv
  <2>1. Init => Inv
    BY InvInit
  <2>2. Inv /\ [Next]_vars => Inv'
    BY InvNext
  <2> QED
    BY <2>1, <2>2, PTL DEF Spec
<1>2. Inv => ReportsAreTrue
  <2> SUFFICES ASSUME Inv, NEW s \in Summaries \ {None}
               PROVE  IsTrue(s, live, nsLabels)
    BY Zenon DEF ReportsAreTrue
  <2>1. CASE \E n \in Names : s = mis[n]
    BY <2>1, Zenon DEF Inv, StoredOK, SummaryOK
  <2>2. CASE detail # None /\ s \in Range(detail.results)
    <3>1. AllOK(detail.results, live, nsLabels)
      BY <2>2, Zenon DEF Inv, DetailOK
    <3> QED
      BY <2>2, <3>1, Zenon DEF AllOK, Range
  <2> QED
    BY <2>1, <2>2, Zenon DEF Summaries
<1> QED
  BY <1>1, <1>2, PTL

=============================================================================
