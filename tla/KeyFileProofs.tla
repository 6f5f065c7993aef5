-------------------------- MODULE KeyFileProofs ---------------------------
(***************************************************************************)
(* KeyFile, for any number of goroutines, any key lists and any sizes: no  *)
(* verification uses a version older than its request's own bound, and one *)
(* that no other request overlaps uses exactly what its request read.      *)
(***************************************************************************)
EXTENDS KeyFile, TLAPS

-----------------------------------------------------------------------------
(* The operators *)

\* The content of a Secret, or the value of the variable, is blocks of one version.
LEMMA WholeType ==
    ASSUME NEW i \in Items, NEW v \in 1..Len(Size)
    PROVE  Whole(i, v) \in Seq(Nat) /\ Range(Whole(i, v)) = {v}
<1>1. Size[v] \in Nat \ {0}
  BY KeyFileAssumption
<1>2. CASE i = Rekor
  BY <1>2 DEF Whole, Range
<1>3. CASE i # Rekor
  <2>1. Whole(i, v) \in Seq(Nat)
    BY <1>1, <1>3 DEF Whole
  <2>2. DOMAIN Whole(i, v) = 1..Size[v] /\ 1 \in 1..Size[v]
    BY <1>1, <1>3 DEF Whole
  <2> QED
    BY <1>3, <2>1, <2>2 DEF Whole, Range
<1> QED
  BY <1>2, <1>3

\* The blocks of two contents, one behind the other.
LEMMA ConcatFacts ==
    ASSUME NEW s \in Seq(Nat), NEW t \in Seq(Nat)
    PROVE  /\ s \o t \in Seq(Nat) /\ Len(s \o t) = Len(s) + Len(t)
           /\ \A k \in 1..(Len(s) + Len(t)) :
                  (s \o t)[k] = IF k <= Len(s) THEN s[k] ELSE t[k - Len(s)]
OBVIOUS

\* Overwriting the start of a file leaves nothing in it that is neither new nor
\* was there before.
LEMMA OverwrittenType ==
    ASSUME NEW old \in Seq(Nat), NEW new \in Seq(Nat)
    PROVE  /\ Overwritten(old, new) \in Seq(Nat)
           /\ Range(Overwritten(old, new)) \subseteq Range(old) \union Range(new)
<1> DEFINE first == Len(new) + 1
           rest  == SubSeq(old, first, Len(old))
           all   == new \o rest
<1>1. /\ Len(old) \in Nat /\ DOMAIN old = 1..Len(old)
      /\ Len(new) \in Nat /\ DOMAIN new = 1..Len(new)
  OBVIOUS
<1>2. \A k \in first..Len(old) : old[k] \in Nat
  BY <1>1
<1>3. /\ rest \in Seq(Nat)
      /\ Len(rest) = IF first <= Len(old) THEN Len(old) - first + 1 ELSE 0
      /\ \A k \in 1..(Len(old) - first + 1) : rest[k] = old[first + k - 1]
  <2>1. first \in Int /\ Len(old) \in Int
    BY <1>1
  <2> HIDE DEF first
  <2> QED
    BY <1>2, <2>1
<1>4. /\ all \in Seq(Nat) /\ Len(all) = Len(new) + Len(rest)
      /\ \A k \in 1..(Len(new) + Len(rest)) :
             all[k] = IF k <= Len(new) THEN new[k] ELSE rest[k - Len(new)]
  <2> HIDE DEF rest
  <2> QED
    BY ZenonT(60), <1>3, ConcatFacts
<1>5. ASSUME NEW k \in DOMAIN all
      PROVE  all[k] \in Range(old) \union Range(new)
  <2>1. k \in 1..(Len(new) + Len(rest))
    BY <1>4
  <2>2. CASE k <= Len(new)
    <3>1. k \in DOMAIN new /\ all[k] = new[k]
      BY SMTT(60), <1>1, <1>3, <1>4, <2>1, <2>2
    <3> QED
      BY <3>1 DEF Range
  <2>3. CASE ~(k <= Len(new))
    <3>1. k - Len(new) \in 1..(Len(old) - first + 1) /\ all[k] = rest[k - Len(new)]
      BY SMTT(60), <1>1, <1>3, <1>4, <2>1, <2>3
    <3>2. all[k] = old[k] /\ k \in DOMAIN old
      BY SMTT(60), <1>1, <1>3, <2>1, <2>3, <3>1
    <3> QED
      BY ZenonT(60), <3>2 DEF Range
  <2> QED
    BY SMTT(60), <2>2, <2>3
<1> QED
  BY ZenonT(60), <1>4, <1>5 DEF Overwritten, Range

-----------------------------------------------------------------------------
(* The inductive invariant *)

Versions == 1..Len(Size)
Used     == UNION {[S -> Seq(Nat)] : S \in SUBSET Items}

States ==
    [pc : {"idle", "get", "open", "write", "verify"}, phase : {"manifest", "image"},
     todo : Seq(Items), got : Nat, loaded : SUBSET Items, used : Used]

\* A goroutine in state s has a version of item i that it can still write.
Holds(s, i) == s.pc \in {"open", "write"} /\ Head(s.todo) = i

\* It will verify with what the file of i has, unless a call fails.
Covers(s, i) == i \in s.loaded \/ Holds(s, i)

\* It has begun to fill the file, or has filled it.
Relies(s, i) == i \in s.loaded \/ (s.pc = "write" /\ Head(s.todo) = i /\ i # Rekor)

\* The variable is set before any key is loaded.
WellFormed(s) ==
    /\ s.pc \in {"get", "open", "write"} => s.todo # <<>>
    /\ s.pc \in {"open", "write"} => s.got \in Versions
    /\ s.pc # "idle" => Rekor \in s.loaded \/ (s.pc # "verify" /\ Head(s.todo) = Rekor)

Typed ==
    /\ version \in [Items -> Versions]
    /\ stored \in [Items -> Seq(Nat)]
    /\ handler \in [Handlers -> States]
    /\ floor \in [Handlers -> [Items -> SUBSET Nat]]
    /\ \A h \in Handlers : WellFormed(handler[h])

Fine(h, i, v) == \E f \in floor[h][i] : v >= f

\* What a goroutine could yet find in the file of an item is no older than its
\* bound: the current version, those that others still hold, what is in the file.
CurrentFine ==
    \A h \in Handlers : \A i \in Items : Covers(handler[h], i) => Fine(h, i, version[i])
HeldFine ==
    \A h, g \in Handlers : \A i \in Items :
        Covers(handler[h], i) /\ Holds(handler[g], i) => Fine(h, i, handler[g].got)
StoredFine ==
    \A h \in Handlers : \A i \in Items :
        Relies(handler[h], i) => \A v \in Range(stored[i]) : Fine(h, i, v)

IInv == Typed /\ CurrentFine /\ HeldFine /\ StoredFine /\ StalenessBounded

-----------------------------------------------------------------------------
(* Local states *)

\* A request loads the configuration and then the keys of the manifest.
LEMMA ItemsOfLists ==
    /\ ManifestKeys \in Seq(Items) /\ ImageKeys \in Seq(Items)
    /\ <<Rekor>> \o ManifestKeys \in Seq(Items)
    /\ <<Rekor>> \o ManifestKeys # <<>>
    /\ Head(<<Rekor>> \o ManifestKeys) = Rekor
<1>1. ManifestKeys \in Seq(Items) /\ ImageKeys \in Seq(Items) /\ Rekor \in Items
  BY KeyFileAssumption DEF Items
<1> QED
  BY <1>1

\* A goroutine between two requests has nothing.
LEMMA IdleState ==
    /\ Idle \in States /\ WellFormed(Idle)
    /\ Idle.pc = "idle" /\ Idle.loaded = {} /\ Idle.used = <<>>
<1>1. <<>> \in Used
  <2>1. <<>> \in [{} -> Seq(Nat)]
    OBVIOUS
  <2> QED
    BY <2>1 DEF Used
<1> QED
  BY <1>1 DEF Idle, States, WellFormed

\* The item to load next is on the list.
LEMMA HeadInList ==
    ASSUME NEW s \in States, s.todo # <<>>
    PROVE  Head(s.todo) \in Range(s.todo) /\ Head(s.todo) \in Items
<1> DEFINE q == s.todo
<1>1. q \in Seq(Items) /\ q # <<>>
  BY DEF States
<1> HIDE DEF q
<1>2. Head(q) = q[1] /\ 1 \in DOMAIN q /\ q[1] \in Items
  BY <1>1
<1>3. Head(q) \in Range(q)
  BY <1>2 DEF Range
<1> QED
  BY <1>2, <1>3 DEF q

\* The state after an item: nothing is held.
LEMMA ContinueState ==
    ASSUME NEW s \in States, s.todo # <<>>, NEW L \in SUBSET Items
    PROVE  LET t == Continue(s, L) IN
           /\ t \in States /\ t.pc \in {"get", "verify"}
           /\ t.pc = "get" => t.todo # <<>>
           /\ t.loaded = L /\ t.used = s.used
<1> DEFINE p == IF Len(s.todo) > 1 THEN "get" ELSE "verify"
           t == [s EXCEPT !.todo = Tail(@), !.loaded = L, !.pc = p]
<1>1. Continue(s, L) = t
  BY DEF Continue
<1>2. s.todo \in Seq(Items)
  BY DEF States
<1>3. Tail(s.todo) \in Seq(Items) /\ (Len(s.todo) > 1 => Tail(s.todo) # <<>>)
  <2> DEFINE q == s.todo
             r == Tail(q)
  <2>1. q \in Seq(Items) /\ q # <<>>
    BY <1>2
  <2> HIDE DEF q
  <2>2. r \in Seq(Items) /\ Len(r) = Len(q) - 1
    BY <2>1
  <2> HIDE DEF r
  <2>3. Len(q) > 1 => r # <<>>
    BY <2>1, <2>2
  <2> QED
    BY <2>2, <2>3 DEF q, r
<1>4. p \in {"get", "verify"} /\ (p = "get" => Len(s.todo) > 1)
  OBVIOUS
<1> HIDE DEF p
<1>5. t \in States /\ t.pc = p /\ t.todo = Tail(s.todo) /\ t.loaded = L /\ t.used = s.used
  BY ZenonT(60), <1>3, <1>4 DEF States
<1> QED
  BY <1>1, <1>3, <1>4, <1>5

\* A failed load ends the request, or leaves out the item.
LEMMA LoadFailsState ==
    ASSUME NEW s \in States, s.pc \in {"get", "open", "write"}, WellFormed(s)
    PROVE  LET t == LoadFails(s) IN
           /\ t \in States /\ WellFormed(t) /\ t.pc \notin {"open", "write"}
           /\ t.loaded \subseteq s.loaded /\ t.used \in {s.used, <<>>}
<1>1. CASE Head(s.todo) = Rekor \/ s.phase = "image"
  BY <1>1, IdleState DEF LoadFails
<1>2. CASE ~(Head(s.todo) = Rekor \/ s.phase = "image")
  <2>1. s.todo # <<>> /\ s.loaded \in SUBSET Items /\ Rekor \in s.loaded
    BY <1>2 DEF WellFormed, States
  <2>2. LoadFails(s) = Continue(s, s.loaded)
    BY <1>2 DEF LoadFails
  <2> QED
    BY <2>1, <2>2, ContinueState DEF WellFormed
<1> QED
  BY <1>1, <1>2

-----------------------------------------------------------------------------
(* The actions *)

\* Nothing is held, relied on or used at first.
LEMMA InitIInv == Init => IInv
<1> SUFFICES ASSUME Init PROVE IInv
  OBVIOUS
<1>1. 1 \in Versions
  BY KeyFileAssumption DEF Versions
<1>2. Typed
  <2>1. <<>> \in Seq(Nat) /\ {} \in SUBSET Nat
    OBVIOUS
  <2> QED
    BY <1>1, <2>1, IdleState DEF Init, Typed
<1>3. \A h \in Handlers : \A i \in Items : ~Covers(handler[h], i) /\ ~Relies(handler[h], i)
  BY IdleState DEF Init, Covers, Holds, Relies
<1>4. StalenessBounded
  BY IdleState DEF Init, StalenessBounded
<1> QED
  BY <1>2, <1>3, <1>4 DEF IInv, CurrentFine, HeldFine, StoredFine

\* A version that is not too old stays so when the current one advances.
LEMMA RotateIInv == IInv /\ Rotate => IInv'
<1> SUFFICES ASSUME IInv, Rotate PROVE IInv'
  OBVIOUS
<1> USE DEF IInv
<1>1. PICK i \in Items : /\ version[i] + 1 \in DOMAIN Size
                         /\ version' = [version EXCEPT ![i] = @ + 1]
                         /\ UNCHANGED <<stored, handler, floor>>
  BY ZenonT(60) DEF Rotate, history
<1>2. DOMAIN Size = Versions /\ version \in [Items -> Versions]
  BY KeyFileAssumption DEF Versions, Typed
<1>3. Typed'
  BY <1>1, <1>2 DEF Typed
<1>4. ASSUME NEW h \in Handlers, NEW j \in Items, Covers(handler[h], j)
      PROVE  \E f \in floor[h][j] : version'[j] >= f
  <2>1. PICK f \in floor[h][j] : version[j] >= f
    BY <1>4 DEF CurrentFine, Fine
  <2>2. f \in Nat /\ version[j] \in Nat /\ version'[j] \in {version[j], version[j] + 1}
    BY SMTT(60), <1>1, <1>2 DEF Typed, Versions
  <2> QED
    BY <2>1, <2>2
<1> QED
  BY ZenonT(60), <1>1, <1>3, <1>4 DEF CurrentFine, HeldFine, StoredFine, StalenessBounded, Fine

\* A goroutine that holds nothing afterwards and relies on nothing more.
LEMMA ReleaseIInv ==
    ASSUME IInv, NEW h \in Handlers, NEW t \in States, WellFormed(t),
           t.pc \notin {"open", "write"}, t.loaded \subseteq handler[h].loaded,
           \A i \in DOMAIN t.used : \A v \in Range(t.used[i]) : Fine(h, i, v),
           handler' = [handler EXCEPT ![h] = t], UNCHANGED <<version, stored, floor>>
    PROVE  IInv'
<1> USE DEF IInv
<1>1. handler' \in [Handlers -> States] /\ \A g \in Handlers : handler'[g] = IF g = h THEN t ELSE handler[g]
  BY DEF Typed
<1>2. Typed'
  BY <1>1 DEF Typed
<1>3. \A g \in Handlers : \A i \in Items :
        /\ Holds(handler'[g], i) => Holds(handler[g], i) /\ handler'[g].got = handler[g].got
        /\ Covers(handler'[g], i) => Covers(handler[g], i)
        /\ Relies(handler'[g], i) => Relies(handler[g], i)
  BY <1>1 DEF Holds, Covers, Relies
<1>4. \A g \in Handlers : \A i \in DOMAIN handler'[g].used :
        \A v \in Range(handler'[g].used[i]) : Fine(g, i, v)
  BY SMTT(60), <1>1 DEF StalenessBounded, Fine
<1> QED
  BY ZenonT(60), <1>2, <1>3, <1>4 DEF CurrentFine, HeldFine, StoredFine, StalenessBounded, Fine

\* A request begins with nothing loaded.
LEMMA StartIInv == \A h \in Handlers : IInv /\ Start(h) => IInv'
<1> SUFFICES ASSUME IInv, NEW h \in Handlers, Start(h) PROVE IInv'
  OBVIOUS
<1> DEFINE list == <<Rekor>> \o ManifestKeys
           t    == [Idle EXCEPT !.pc = "get", !.todo = list]
<1>1. handler' = [handler EXCEPT ![h] = t] /\ UNCHANGED <<version, stored, floor>>
  BY DEF Start, history
<1>2. list \in Seq(Items) /\ list # <<>> /\ Head(list) = Rekor
  BY ItemsOfLists
<1> HIDE DEF list
<1>3. t \in States /\ t.pc = "get" /\ t.todo = list /\ t.loaded = {} /\ t.used = <<>>
  BY ZenonT(60), <1>2, IdleState DEF States
<1> HIDE DEF t
<1>4. \A i \in DOMAIN t.used : \A v \in Range(t.used[i]) : Fine(h, i, v)
  BY <1>3
<1>5. t.loaded \subseteq handler[h].loaded /\ WellFormed(t)
  BY <1>2, <1>3 DEF WellFormed
<1> QED
  BY ZenonT(60), <1>1, <1>3, <1>4, <1>5, ReleaseIInv

\* A failed load lets go of the item.
LEMMA FailIInv ==
    ASSUME IInv, NEW h \in Handlers, handler[h].pc \in {"get", "open", "write"},
           handler' = [handler EXCEPT ![h] = LoadFails(@)], UNCHANGED <<version, stored, floor>>
    PROVE  IInv'
<1> DEFINE s == handler[h]
           t == LoadFails(s)
<1>1. s \in States /\ WellFormed(s)
  BY DEF IInv, Typed
<1>2. handler' = [handler EXCEPT ![h] = t]
  OBVIOUS
<1>3. /\ t \in States /\ WellFormed(t) /\ t.pc \notin {"open", "write"}
      /\ t.loaded \subseteq s.loaded /\ t.used \in {s.used, <<>>}
  BY <1>1, LoadFailsState
<1> HIDE DEF t
<1>4. \A i \in DOMAIN t.used : \A v \in Range(t.used[i]) : Fine(h, i, v)
  <2>1. CASE t.used = s.used
    BY <2>1 DEF IInv, StalenessBounded, Fine
  <2>2. CASE t.used = <<>>
    BY <2>2
  <2> QED
    BY <1>3, <2>1, <2>2
<1> QED
  BY ZenonT(60), <1>2, <1>3, <1>4, ReleaseIInv

\* What a verification uses is what the files have, and the files of what was
\* loaded have nothing too old.
LEMMA VerifyIInv == \A h \in Handlers : IInv /\ Verify(h) => IInv'
<1> SUFFICES ASSUME IInv, NEW h \in Handlers, Verify(h) PROVE IInv'
  OBVIOUS
<1> DEFINE s    == handler[h]
           used == [i \in s.loaded |-> stored[i]]
           next == [s EXCEPT !.pc = "get", !.phase = "image", !.todo = ImageKeys,
                             !.loaded = {Rekor}, !.used = used]
           last == [Idle EXCEPT !.used = used]
<1>1. s \in States /\ WellFormed(s) /\ s.pc = "verify"
  BY DEF IInv, Typed, Verify
<1>2. Rekor \in s.loaded /\ s.loaded \in SUBSET Items
  BY <1>1 DEF WellFormed, States
<1>3. used \in Used
  <2>1. used \in [s.loaded -> Seq(Nat)]
    BY <1>2 DEF IInv, Typed
  <2> QED
    BY <1>2, <2>1 DEF Used
<1>4. \A i \in DOMAIN used : \A v \in Range(used[i]) : Fine(h, i, v)
  BY <1>2 DEF IInv, StoredFine, Relies
<1>5. UNCHANGED <<version, stored, floor>>
  BY DEF Verify, history
<1>6. \/ ImageKeys # <<>> /\ handler' = [handler EXCEPT ![h] = next]
      \/ handler' = [handler EXCEPT ![h] = last]
  BY DEF Verify
<1> HIDE DEF used
<1>7. CASE ImageKeys # <<>> /\ handler' = [handler EXCEPT ![h] = next]
  <2>1. /\ next \in States /\ next.pc = "get" /\ next.todo = ImageKeys
        /\ next.loaded = {Rekor} /\ next.used = used
    BY ZenonT(60), <1>1, <1>2, <1>3, ItemsOfLists DEF States
  <2> HIDE DEF next
  <2> QED
    BY ZenonT(60), <1>2, <1>4, <1>5, <1>7, <2>1, ReleaseIInv DEF WellFormed
<1>8. CASE handler' = [handler EXCEPT ![h] = last]
  <2>1. /\ last \in States /\ last.pc = "idle" /\ last.loaded = {} /\ last.used = used
    BY <1>3, IdleState DEF States
  <2> HIDE DEF last
  <2> QED
    BY ZenonT(60), <1>4, <1>5, <1>8, <2>1, ReleaseIInv DEF WellFormed
<1> QED
  BY <1>6, <1>7, <1>8

\* The version read becomes one that others must reckon with, and the bound of
\* the reader becomes what it can find from now on.
LEMMA ReadIInv ==
    ASSUME IInv, NEW h \in Handlers, NEW i \in Items,
           NEW t \in States, WellFormed(t), t.pc = "write" => i = Rekor,
           t.pc \in {"open", "write"}, Head(t.todo) = i,
           t.got = version[i], t.loaded = handler[h].loaded, t.used = <<>>,
           NEW bound \in SUBSET Nat, version[i] \in bound,
           \A g \in Handlers : Holds(handler[g], i) => handler[g].got \in bound,
           i \in handler[h].loaded => floor[h][i] \subseteq bound,
           handler' = [handler EXCEPT ![h] = t],
           floor' = [floor EXCEPT ![h] = [floor[h] EXCEPT ![i] = bound]],
           UNCHANGED <<version, stored>>
    PROVE  IInv'
<1>1. /\ version \in [Items -> Versions] /\ handler \in [Handlers -> States]
      /\ floor \in [Handlers -> [Items -> SUBSET Nat]]
      /\ version[i] \in Nat /\ \A g \in Handlers : handler[g].got \in Nat
  BY DEF IInv, Typed, Versions, States
<1>2. \A g \in Handlers : handler'[g] = IF g = h THEN t ELSE handler[g]
  BY <1>1
<1>3. \A g \in Handlers : g # h => floor'[g] = floor[g]
  BY <1>1
<1>4. floor'[h][i] = bound /\ \A j \in Items : j # i => floor'[h][j] = floor[h][j]
  <2>1. floor'[h] = [floor[h] EXCEPT ![i] = bound] /\ floor[h] \in [Items -> SUBSET Nat]
    BY <1>1
  <2> QED
    BY <2>1
<1>5. Typed'
  <2>1. floor' \in [Handlers -> [Items -> SUBSET Nat]]
    BY <1>1
  <2>2. handler' \in [Handlers -> States] /\ \A g \in Handlers : WellFormed(handler'[g])
    BY <1>1, <1>2 DEF IInv, Typed
  <2> QED
    BY SMTT(60), <2>1, <2>2 DEF IInv, Typed
<1>6. ASSUME NEW g \in Handlers, NEW j \in Items, NEW v, Fine(g, j, v),
             g = h /\ j = i => i \in handler[h].loaded
      PROVE  Fine(g, j, v)'
  <2>1. floor[g][j] \subseteq floor'[g][j]
    BY <1>3, <1>4, <1>6
  <2> QED
    BY <1>6, <2>1 DEF Fine
<1>7. \A v \in bound : Fine(h, i, v)'
  BY <1>4 DEF Fine
<1>8. \A j \in Items : Holds(t, j) <=> j = i
  BY DEF Holds
<1>9. ASSUME NEW g \in Handlers, NEW j \in Items, Covers(handler'[g], j)
      PROVE  (g = h /\ j = i) \/ Covers(handler[g], j)
  BY <1>2, <1>8, <1>9 DEF Covers
<1>10. CurrentFine'
  <2> SUFFICES ASSUME NEW g \in Handlers, NEW j \in Items, Covers(handler'[g], j)
               PROVE  Fine(g, j, version[j])'
    BY DEF CurrentFine
  <2>1. CASE g = h /\ j = i
    BY <1>7, <2>1
  <2>2. CASE ~(g = h /\ j = i)
    <3>1. Fine(g, j, version[j])
      BY <1>9, <2>2 DEF IInv, CurrentFine
    <3>2. Fine(g, j, version[j])'
      BY SMTT(60), <1>6, <2>2, <3>1
    <3> QED
      BY <3>2
  <2> QED
    BY <2>1, <2>2
<1>11. HeldFine'
  <2> SUFFICES ASSUME NEW g \in Handlers, NEW k \in Handlers, NEW j \in Items,
                      Covers(handler'[g], j), Holds(handler'[k], j)
               PROVE  Fine(g, j, handler[k].got)'
    BY DEF HeldFine
  <2>1. CASE k = h
    <3>1. j = i /\ handler'[k].got = version'[j]
      BY SMTT(60), <1>2, <1>8, <2>1
    <3> QED
      BY <1>10, <3>1 DEF CurrentFine
  <2>2. CASE k # h
    <3>1. handler'[k] = handler[k] /\ Holds(handler[k], j)
      BY <1>2, <2>2
    <3>2. CASE g = h /\ j = i
      BY SMTT(60), <1>7, <3>1, <3>2
    <3>3. CASE ~(g = h /\ j = i)
      <4>1. Fine(g, j, handler[k].got)
        BY SMTT(60), <1>9, <3>1, <3>3 DEF IInv, HeldFine
      <4> QED
        BY SMTT(60), <1>6, <3>1, <3>3, <4>1 DEF Fine
    <3> QED
      BY <3>2, <3>3
  <2> QED
    BY <2>1, <2>2
<1>12. StoredFine'
  <2> SUFFICES ASSUME NEW g \in Handlers, NEW j \in Items, Relies(handler'[g], j),
                      NEW v \in Range(stored[j])
               PROVE  Fine(g, j, v)'
    BY DEF StoredFine
  <2>1. Relies(handler[g], j) /\ (g = h => j \in handler[h].loaded)
    BY <1>2 DEF Relies
  <2> QED
    BY SMTT(60), <1>6, <2>1 DEF IInv, StoredFine
<1>13. StalenessBounded'
  <2>1. DOMAIN handler'[h].used = {}
    BY <1>2
  <2>2. \A g \in Handlers : g # h => handler'[g] = handler[g] /\ floor'[g] = floor[g]
    BY SMTT(60), <1>2, <1>3
  <2> QED
    BY ZenonT(60), <2>1, <2>2 DEF IInv, StalenessBounded
<1> QED
  BY SMTT(60), <1>5, <1>10, <1>11, <1>12, <1>13 DEF IInv

\* A Secret, or the configuration, is read, or the call fails.
LEMMA GetIInv == \A h \in Handlers : IInv /\ Get(h) => IInv'
<1> SUFFICES ASSUME IInv, NEW h \in Handlers, Get(h) PROVE IInv'
  OBVIOUS
<1> DEFINE s     == handler[h]
           i     == Item(h)
           p     == IF i = Rekor THEN "write" ELSE "open"
           t     == [s EXCEPT !.pc = p, !.got = version[i], !.used = <<>>]
           held  == {handler[g].got : g \in Loading(i)}
           bound == {version[i]} \union held \union (IF i \in s.loaded THEN floor[h][i] ELSE {})
<1>1. s \in States /\ WellFormed(s) /\ s.pc = "get" /\ UNCHANGED <<version, stored>>
  BY DEF IInv, Typed, Get
<1>2. s.todo \in Seq(Items) /\ s.todo # <<>>
  BY <1>1 DEF States, WellFormed
<1>3. i \in Items
  BY <1>2 DEF Item
<1>4. CASE handler' = [handler EXCEPT ![h] = LoadFails(@)] /\ UNCHANGED history
  BY ZenonT(60), <1>1, <1>4, FailIInv DEF history
<1>5. ASSUME handler' = [handler EXCEPT ![h].pc = p, ![h].got = version[i], ![h].used = <<>>],
             floor' = [floor EXCEPT ![h][i] = {version[i]} \union held
                                      \union (IF i \in s.loaded THEN @ ELSE {})]
      PROVE  IInv'
  <2>1. handler' = [handler EXCEPT ![h] = t]
    BY ZenonT(60), <1>5 DEF IInv, Typed
  <2>2. floor' = [floor EXCEPT ![h] = [floor[h] EXCEPT ![i] = bound]]
    BY <1>5
  <2>3. version[i] \in Versions /\ version[i] \in Nat
    BY <1>3 DEF IInv, Typed, Versions
  <2>4. /\ \A g \in Handlers : Holds(handler[g], i) => g \in Loading(i)
        /\ \A g \in Loading(i) : handler[g].got \in Nat
    BY DEF IInv, Typed, States, Holds, Loading, Item
  <2>5. bound \in SUBSET Nat
    <3>1. floor[h][i] \in SUBSET Nat
      BY SMTT(60), <1>3 DEF IInv, Typed
    <3> QED
      BY <2>3, <2>4, <3>1
  <2>6. /\ version[i] \in bound /\ (i \in s.loaded => floor[h][i] \subseteq bound)
        /\ \A g \in Handlers : Holds(handler[g], i) => handler[g].got \in bound
    BY <2>4
  <2> HIDE DEF bound
  <2>7. p \in {"open", "write"} /\ (p = "write" => i = Rekor)
    OBVIOUS
  <2>8. /\ t \in States /\ t.pc = p /\ t.todo = s.todo /\ t.got = version[i]
        /\ t.loaded = s.loaded /\ t.used = <<>>
    <3> HIDE DEF p, i
    <3> QED
      BY ZenonT(60), <1>1, <2>3, <2>7, IdleState DEF States
  <2>9. WellFormed(t) /\ Head(t.todo) = i
    BY <1>1, <1>2, <2>3, <2>8 DEF WellFormed, Item
  <2> HIDE DEF t, p, i
  <2> QED
    BY ZenonT(60), <1>1, <1>3, <2>1, <2>2, <2>5, <2>6, <2>7, <2>8, <2>9, ReadIInv
<1> QED
  BY <1>4, <1>5 DEF Get

\* An empty file has nothing too old in it.
LEMMA OpenFileIInv == \A h \in Handlers : IInv /\ OpenFile(h) => IInv'
<1> SUFFICES ASSUME IInv, NEW h \in Handlers, OpenFile(h) PROVE IInv'
  OBVIOUS
<1> DEFINE s == handler[h]
           i == Item(h)
           t == [s EXCEPT !.pc = "write"]
<1>1. s \in States /\ WellFormed(s) /\ s.pc = "open" /\ UNCHANGED <<version, floor>>
  BY DEF IInv, Typed, OpenFile, history
<1>2. s.todo \in Seq(Items) /\ s.todo # <<>>
  BY SMTT(60), <1>1 DEF States, WellFormed
<1>3. i \in Items
  BY <1>2 DEF Item
<1>4. CASE handler' = [handler EXCEPT ![h] = LoadFails(@)] /\ UNCHANGED stored
  BY ZenonT(60), <1>1, <1>4, FailIInv
<1>5. ASSUME stored' = [stored EXCEPT ![i] = <<>>], handler' = [handler EXCEPT ![h].pc = "write"]
      PROVE  IInv'
  <2>1. handler' = [handler EXCEPT ![h] = t] /\ handler \in [Handlers -> States]
    BY <1>5 DEF IInv, Typed
  <2>2. /\ t \in States /\ WellFormed(t) /\ t.got = s.got /\ t.loaded = s.loaded
        /\ t.used = s.used /\ t.pc = "write" /\ t.todo = s.todo
    BY SMTT(60), <1>1 DEF States, WellFormed
  <2> HIDE DEF t
  <2>3. \A g \in Handlers : handler'[g] = IF g = h THEN t ELSE handler[g]
    BY SMTT(60), <2>1
  <2>4. \A g \in Handlers : \A j \in Items :
          /\ Holds(handler'[g], j) => Holds(handler[g], j) /\ handler'[g].got = handler[g].got
          /\ Covers(handler'[g], j) => Covers(handler[g], j)
          /\ Relies(handler'[g], j) => Relies(handler[g], j) \/ j = i
    BY SMTT(60), <1>1, <2>2, <2>3 DEF Holds, Covers, Relies, Item
  <2>5. /\ stored' \in [Items -> Seq(Nat)] /\ Range(stored'[i]) = {}
        /\ \A j \in Items : j # i => stored'[j] = stored[j]
    BY SMTT(60), <1>3, <1>5 DEF IInv, Typed, Range
  <2>6. Typed'
    BY SMTT(60), <1>1, <2>1, <2>2, <2>3, <2>5 DEF IInv, Typed
  <2>7. CurrentFine' /\ HeldFine'
    BY SMTT(60), <1>1, <2>4 DEF IInv, CurrentFine, HeldFine, Fine
  <2>8. StoredFine'
    BY ZenonT(60), <1>1, <2>4, <2>5 DEF IInv, StoredFine, Fine
  <2>9. StalenessBounded'
    BY SMTT(60), <1>1, <2>2, <2>3 DEF IInv, StalenessBounded
  <2> QED
    BY <2>6, <2>7, <2>8, <2>9 DEF IInv
<1> QED
  BY <1>4, <1>5 DEF OpenFile

\* What is written was held, so every goroutine that relies on the file had it
\* within its bound.
LEMMA WriteIInv == \A h \in Handlers : IInv /\ Write(h) => IInv'
<1> SUFFICES ASSUME IInv, NEW h \in Handlers, Write(h) PROVE IInv'
  OBVIOUS
<1> DEFINE s   == handler[h]
           i   == Item(h)
           new == Whole(i, s.got)
           all == IF i = Rekor THEN new ELSE Overwritten(stored[i], new)
           L   == s.loaded \union {i}
           t   == Continue(s, L)
<1>1. s \in States /\ WellFormed(s) /\ s.pc = "write" /\ UNCHANGED <<version, floor>>
  BY DEF IInv, Typed, Write, history
<1>2. s.todo \in Seq(Items) /\ s.todo # <<>> /\ s.got \in Versions /\ s.loaded \in SUBSET Items
  BY <1>1 DEF States, WellFormed
<1>3. i \in Items /\ L \in SUBSET Items
  BY <1>2 DEF Item
<1>4. CASE handler' = [handler EXCEPT ![h] = LoadFails(@)] /\ UNCHANGED stored
  BY ZenonT(60), <1>1, <1>4, FailIInv
<1>5. ASSUME stored' = [stored EXCEPT ![i] = IF i = Rekor THEN new ELSE Overwritten(@, new)],
             handler' = [handler EXCEPT ![h] = Continue(@, @.loaded \union {i})]
      PROVE  IInv'
  <2>1. /\ handler' = [handler EXCEPT ![h] = t] /\ handler \in [Handlers -> States]
        /\ stored' = [stored EXCEPT ![i] = all] /\ stored \in [Items -> Seq(Nat)]
    BY <1>5 DEF IInv, Typed
  <2>2. /\ all \in Seq(Nat) /\ Range(all) \subseteq Range(stored[i]) \union {s.got}
        /\ i = Rekor => Range(all) = {s.got}
    <3>1. new \in Seq(Nat) /\ Range(new) = {s.got}
      BY SMTT(60), <1>2, <1>3, WholeType DEF Versions
    <3>2. stored[i] \in Seq(Nat)
      BY SMTT(60), <1>3, <2>1
    <3> HIDE DEF new
    <3> QED
      BY SMTT(60), <3>1, <3>2, OverwrittenType
  <2>3. /\ t \in States /\ t.pc \in {"get", "verify"} /\ (t.pc = "get" => t.todo # <<>>)
        /\ t.loaded = L /\ t.used = s.used
    BY SMTT(60), <1>1, <1>2, <1>3, ContinueState
  <2>4. WellFormed(t)
    BY ZenonT(60), <1>1, <2>3 DEF WellFormed, Item
  <2> HIDE DEF t, all
  <2>5. /\ \A g \in Handlers : handler'[g] = IF g = h THEN t ELSE handler[g]
        /\ \A j \in Items : stored'[j] = IF j = i THEN all ELSE stored[j]
        /\ stored' \in [Items -> Seq(Nat)]
    BY SMTT(60), <1>3, <2>1, <2>2
  <2>6. \A g \in Handlers : \A j \in Items :
          /\ Holds(handler'[g], j) => Holds(handler[g], j) /\ handler'[g].got = handler[g].got
          /\ Covers(handler'[g], j) => Covers(handler[g], j)
          /\ Relies(handler'[g], j) => Relies(handler[g], j) \/ (j = i /\ i = Rekor /\ Covers(handler[g], j))
    BY SMTT(60), <1>1, <2>3, <2>5 DEF Holds, Covers, Relies, Item
  <2>7. Typed'
    BY SMTT(60), <1>1, <2>1, <2>3, <2>4, <2>5 DEF IInv, Typed
  <2>8. CurrentFine' /\ HeldFine'
    BY SMTT(60), <1>1, <2>6 DEF IInv, CurrentFine, HeldFine, Fine
  <2>9. StalenessBounded'
    BY ZenonT(60), <1>1, <2>3, <2>5 DEF IInv, StalenessBounded
  <2>10. StoredFine'
    <3> SUFFICES ASSUME NEW g \in Handlers, NEW j \in Items, Relies(handler'[g], j),
                        NEW v \in Range(stored'[j])
                 PROVE  Fine(g, j, v)
      BY SMTT(60), <1>1 DEF StoredFine, Fine
    <3>1. Covers(handler[g], j) /\ ((j = i /\ i = Rekor) \/ Relies(handler[g], j))
      BY <2>6 DEF Covers, Relies, Holds
    <3>2. CASE j = i /\ v = s.got
      <4>1. Holds(handler[h], j)
        BY SMTT(60), <1>1, <3>2 DEF Holds, Item
      <4> QED
        BY SMTT(60), <3>1, <3>2, <4>1 DEF IInv, HeldFine
    <3>3. CASE ~(j = i /\ v = s.got)
      <4>1. v \in Range(stored[j]) /\ ~(j = i /\ i = Rekor)
        BY SMTT(60), <2>2, <2>5, <3>3
      <4> QED
        BY SMTT(60), <3>1, <4>1 DEF IInv, StoredFine
    <3> QED
      BY <3>2, <3>3
  <2> QED
    BY SMTT(60), <2>7, <2>8, <2>9, <2>10 DEF IInv
<1> QED
  BY SMTT(60), <1>4, <1>5 DEF Write

-----------------------------------------------------------------------------

\* No step brings back a version that is too old for anyone.
LEMMA IInvStep == IInv /\ [Next]_vars => IInv'
<1> SUFFICES ASSUME IInv, [Next]_vars PROVE IInv'
  OBVIOUS
<1>1. CASE Rotate
  BY SMTT(60), <1>1, RotateIInv
<1>2. ASSUME NEW h \in Handlers, Start(h) \/ Get(h) \/ OpenFile(h) \/ Write(h) \/ Verify(h)
      PROVE  IInv'
  BY SMTT(60), <1>2, StartIInv, GetIInv, OpenFileIInv, WriteIInv, VerifyIInv
<1>3. CASE UNCHANGED vars
  <2>1. UNCHANGED <<version, stored, handler, floor>>
    BY <1>3 DEF vars
  <2> QED
    BY <2>1 DEF IInv, Typed, CurrentFine, HeldFine, StoredFine, StalenessBounded, Fine
<1> QED
  BY SMTT(60), <1>1, <1>2, <1>3 DEF Next

\* The keys and the Rekor server that a verification of any request uses are no
\* older than what that request read and what was still to be written when it
\* did, for any number of concurrent requests, any lists of key Secrets and any
\* sizes of their versions: Get, WriteFile and Setenv interleave in any way.
THEOREM Staleness == Spec => []StalenessBounded
<1>1. Init => IInv
  BY InitIInv
<1>2. IInv /\ [Next]_vars => IInv'
  BY IInvStep
<1>3. IInv => StalenessBounded
  BY DEF IInv
<1> QED
  BY <1>1, <1>2, <1>3, PTL DEF Spec

-----------------------------------------------------------------------------
(* Types *)

\* A goroutine has something to load exactly while it is loading.
Busy(s) == s.pc \in {"get", "open", "write"} <=> s.todo # <<>>

\* A file is never longer than the longest version.
Fits(i, content) ==
    /\ Range(content) \subseteq DOMAIN Size
    /\ i = Rekor => Len(content) <= 1
    /\ i # Rekor => \E v \in DOMAIN Size : Len(content) <= Size[v]

TInv ==
    /\ \A h \in Handlers : Busy(handler[h])
    /\ \A i \in Items : Fits(i, stored[i])

\* The list is empty exactly when the verification is next.
LEMMA ContinueBusy ==
    ASSUME NEW s \in States, s.todo # <<>>, NEW L \in SUBSET Items
    PROVE  Busy(Continue(s, L))
<1> DEFINE q == s.todo
           r == Tail(q)
           p == IF Len(q) > 1 THEN "get" ELSE "verify"
           t == [s EXCEPT !.todo = Tail(@), !.loaded = L, !.pc = p]
<1>1. Continue(s, L) = t
  BY DEF Continue
<1>2. t.todo = r /\ t.pc = p
  <2> HIDE DEF p
  <2> QED
    BY ZenonT(60) DEF States
<1>3. q \in Seq(Items) /\ q # <<>>
  BY DEF States
<1> HIDE DEF q, t
<1>4. r \in Seq(Items) /\ Len(r) = Len(q) - 1 /\ Len(q) \in Nat
  BY <1>3
<1> HIDE DEF r
<1>5. Len(q) > 1 <=> r # <<>>
  BY <1>4
<1> QED
  BY <1>1, <1>2, <1>5 DEF Busy

\* So it is after a failure.
LEMMA LoadFailsBusy ==
    ASSUME NEW s \in States, s.todo # <<>>
    PROVE  Busy(LoadFails(s))
<1>1. Busy(Idle)
  BY DEF Busy, Idle
<1>2. s.loaded \in SUBSET Items
  BY DEF States
<1> QED
  BY SMTT(60), <1>1, <1>2, ContinueBusy DEF LoadFails

\* Every step of a goroutine keeps its list and its place in step.
LEMMA BusyStep ==
    ASSUME IInv, TInv, NEW h \in Handlers,
           Start(h) \/ Get(h) \/ OpenFile(h) \/ Write(h) \/ Verify(h)
    PROVE  \A g \in Handlers : Busy(handler'[g])
<1> DEFINE s == handler[h]
<1>1. s \in States /\ WellFormed(s) /\ Busy(s) /\ handler \in [Handlers -> States]
  BY DEF IInv, Typed, TInv
<1>2. ASSUME NEW t, handler' = [handler EXCEPT ![h] = t], Busy(t)
      PROVE  \A g \in Handlers : Busy(handler'[g])
  BY SMTT(60), <1>1, <1>2 DEF TInv
<1>3. ASSUME s.todo # <<>>, handler' = [handler EXCEPT ![h] = LoadFails(@)]
      PROVE  \A g \in Handlers : Busy(handler'[g])
  <2>1. Busy(LoadFails(s))
    BY <1>1, <1>3, LoadFailsBusy
  <2> QED
    BY ZenonT(60), <1>2, <1>3, <2>1
<1>4. CASE Start(h)
  <2> DEFINE list == <<Rekor>> \o ManifestKeys
             t == [Idle EXCEPT !.pc = "get", !.todo = list]
  <2>1. handler' = [handler EXCEPT ![h] = t]
    BY <1>4 DEF Start
  <2>2. list # <<>>
    BY ItemsOfLists
  <2> HIDE DEF list
  <2>3. t.pc = "get" /\ t.todo = list
    BY DEF Idle
  <2> HIDE DEF t
  <2> QED
    BY ZenonT(60), <1>2, <2>1, <2>2, <2>3 DEF Busy
<1>5. CASE Get(h)
  <2> DEFINE p == IF Item(h) = Rekor THEN "write" ELSE "open"
             v == version[Item(h)]
             t == [s EXCEPT !.pc = p, !.got = v, !.used = <<>>]
  <2>1. s.pc = "get" /\ s.todo # <<>>
    BY <1>1, <1>5 DEF Get, Busy
  <2>2. \/ handler' = [handler EXCEPT ![h] = LoadFails(@)]
        \/ handler' = [handler EXCEPT ![h] = t]
    BY ZenonT(60), <1>1, <1>5 DEF Get
  <2>3. t.pc = p /\ t.todo = s.todo /\ p \in {"open", "write"}
    <3>1. p \in {"open", "write"}
      OBVIOUS
    <3> HIDE DEF p, v
    <3> QED
      BY ZenonT(60), <1>1, <3>1 DEF States
  <2> HIDE DEF t, p
  <2>4. Busy(t)
    BY SMTT(60), <2>1, <2>3 DEF Busy
  <2> QED
    BY SMTT(60), <1>2, <1>3, <2>1, <2>2, <2>4
<1>6. CASE OpenFile(h)
  <2> DEFINE t == [s EXCEPT !.pc = "write"]
  <2>1. s.pc = "open" /\ s.todo # <<>>
    BY <1>1, <1>6 DEF OpenFile, Busy
  <2>2. \/ handler' = [handler EXCEPT ![h] = LoadFails(@)]
        \/ handler' = [handler EXCEPT ![h] = t]
    BY <1>1, <1>6 DEF OpenFile
  <2>3. t.pc = "write" /\ t.todo = s.todo
    BY <1>1 DEF States
  <2> HIDE DEF t
  <2>4. Busy(t)
    BY SMTT(60), <2>1, <2>3 DEF Busy
  <2> QED
    BY SMTT(60), <1>2, <1>3, <2>1, <2>2, <2>4
<1>7. CASE Write(h)
  <2> DEFINE L == s.loaded \union {Item(h)}
             t == Continue(s, L)
  <2>1. s.pc = "write" /\ s.todo # <<>>
    BY <1>1, <1>7 DEF Write, Busy
  <2>2. \/ handler' = [handler EXCEPT ![h] = LoadFails(@)]
        \/ handler' = [handler EXCEPT ![h] = t]
    BY ZenonT(60), <1>1, <1>7 DEF Write
  <2>3. L \in SUBSET Items
    BY SMTT(60), <1>1, <2>1, HeadInList DEF States, Item
  <2>4. Busy(t)
    BY SMTT(60), <1>1, <2>1, <2>3, ContinueBusy
  <2> HIDE DEF t
  <2> QED
    BY SMTT(60), <1>2, <1>3, <2>1, <2>2, <2>4
<1>8. CASE Verify(h)
  <2> DEFINE used == [i \in s.loaded |-> stored[i]]
             next == [s EXCEPT !.pc = "get", !.phase = "image", !.todo = ImageKeys,
                               !.loaded = {Rekor}, !.used = used]
             last == [Idle EXCEPT !.used = used]
  <2>1. \/ ImageKeys # <<>> /\ handler' = [handler EXCEPT ![h] = next]
        \/ handler' = [handler EXCEPT ![h] = last]
    BY <1>8 DEF Verify
  <2> HIDE DEF used
  <2>2. next.pc = "get" /\ next.todo = ImageKeys /\ last.pc = "idle" /\ last.todo = <<>>
    BY <1>1 DEF States, Idle
  <2> HIDE DEF next, last
  <2>3. Busy(last) /\ (ImageKeys # <<>> => Busy(next))
    BY <2>2 DEF Busy
  <2> QED
    BY <1>2, <2>1, <2>3
<1> QED
  BY SMTT(60), <1>4, <1>5, <1>6, <1>7, <1>8

\* A write makes no file longer than it was and than what is written.
LEMMA OverwrittenFits ==
    ASSUME NEW i \in Items, NEW old \in Seq(Nat), Fits(i, old), NEW v \in Versions
    PROVE  Fits(i, IF i = Rekor THEN Whole(i, v) ELSE Overwritten(old, Whole(i, v)))
<1> DEFINE new  == Whole(i, v)
           all  == Overwritten(old, new)
           rest == SubSeq(old, Len(new) + 1, Len(old))
<1>1. new \in Seq(Nat) /\ Range(new) = {v} /\ DOMAIN Size = Versions /\ Size[v] \in Nat
  BY WholeType, KeyFileAssumption DEF Versions
<1>2. (i = Rekor => Len(new) <= 1) /\ (i # Rekor => Len(new) = Size[v])
  BY <1>1 DEF Whole
<1>3. CASE i = Rekor
  <2> HIDE DEF new
  <2>1. Range(new) \subseteq DOMAIN Size
    BY Zenon, <1>1
  <2>2. Len(new) <= 1
    BY Zenon, <1>2, <1>3
  <2>3. Fits(i, new)
    BY Zenon, <1>3, <2>1, <2>2 DEF Fits
  <2> QED
    BY Zenon, <1>3, <2>3 DEF new
<1>4. CASE i # Rekor
  <2> HIDE DEF new
  <2>1. all \in Seq(Nat) /\ Range(all) \subseteq Range(old) \union Range(new)
    BY <1>1, OverwrittenType
  <2>2. PICK w \in DOMAIN Size : Len(old) <= Size[w]
    BY <1>4 DEF Fits
  <2>3. Len(old) \in Nat /\ Len(new) \in Nat /\ Size[w] \in Nat
    BY SMTT(60), <1>1, KeyFileAssumption
  <2>4. Len(all) = Len(new) \/ Len(all) = Len(old)
    <3>1. rest \in Seq(Nat) /\ Len(rest) = IF Len(new) + 1 <= Len(old) THEN Len(old) - Len(new) ELSE 0
      BY SMTT(60), <1>1, <2>3
    <3>2. all = new \o rest
      BY DEF Overwritten
    <3> HIDE DEF rest, all
    <3>3. Len(all) = Len(new) + Len(rest)
      BY ZenonT(60), <1>1, <3>1, <3>2, ConcatFacts
    <3> QED
      BY <2>3, <3>1, <3>3
  <2> HIDE DEF all
  <2>5. Range(all) \subseteq DOMAIN Size
    BY <1>1, <2>1 DEF Fits
  <2>6. \E x \in DOMAIN Size : Len(all) <= Size[x]
    <3>1. CASE Len(all) = Len(new)
      BY SMTT(60), <1>1, <1>2, <1>4, <3>1
    <3>2. CASE Len(all) = Len(old)
      BY <2>2, <3>2
    <3> QED
      BY <2>4, <3>1, <3>2
  <2> QED
    BY <1>4, <2>5, <2>6 DEF Fits, new, all
<1> QED
  BY <1>3, <1>4

\* Every step of a goroutine leaves files that fit.
LEMMA FitsStep ==
    ASSUME IInv, TInv, NEW h \in Handlers,
           Start(h) \/ Get(h) \/ OpenFile(h) \/ Write(h) \/ Verify(h)
    PROVE  \A i \in Items : Fits(i, stored'[i])
<1>1. CASE UNCHANGED stored
  BY <1>1 DEF TInv
<1>2. stored \in [Items -> Seq(Nat)] /\ handler[h] \in States /\ WellFormed(handler[h])
  BY DEF IInv, Typed
<1>3. CASE stored' = [stored EXCEPT ![Item(h)] = <<>>]
  <2>1. \A i \in Items : Fits(i, <<>>)
    <3>1. 1 \in DOMAIN Size /\ Size[1] \in Nat /\ Len(<<>>) = 0 /\ Range(<<>>) = {}
      BY KeyFileAssumption DEF Range
    <3> QED
      BY <3>1 DEF Fits
  <2>2. \A i \in Items : stored'[i] = <<>> \/ stored'[i] = stored[i]
    BY <1>2, <1>3
  <2> QED
    BY <2>1, <2>2 DEF TInv
<1>4. ASSUME Write(h), ~UNCHANGED stored
      PROVE  \A i \in Items : Fits(i, stored'[i])
  <2> DEFINE k == Item(h)
             v == handler[h].got
             c == IF k = Rekor THEN Whole(k, v) ELSE Overwritten(stored[k], Whole(k, v))
  <2>1. handler[h].pc = "write" /\ v \in Versions /\ k \in Items
    BY SMTT(60), <1>2, <1>4, HeadInList DEF Write, WellFormed, Item
  <2>2. stored' = [stored EXCEPT ![k] = c]
    BY SMTT(60), <1>4 DEF Write
  <2>3. Fits(k, c)
    BY SMTT(60), <1>2, <2>1, OverwrittenFits DEF TInv
  <2> HIDE DEF c, k
  <2>4. \A i \in Items : stored'[i] = IF i = k THEN c ELSE stored[i]
    BY SMTT(60), <1>2, <2>1, <2>2
  <2> QED
    BY SMTT(60), <2>3, <2>4 DEF TInv
<1>5. CASE Start(h) \/ Get(h) \/ Verify(h)
  BY SMTT(60), <1>1, <1>5 DEF Start, Get, Verify
<1>6. CASE OpenFile(h)
  BY SMTT(60), <1>1, <1>3, <1>6 DEF OpenFile
<1> QED
  BY SMTT(60), <1>1, <1>4, <1>5, <1>6

\* Every variable keeps its type: a goroutine has a list exactly while it is
\* loading, a file holds blocks of versions that exist and is no longer than one
\* of them, however the writes of different requests interleave.
THEOREM KeyFileTypeCorrect == Spec => []TypeOK
<1>1. Init => IInv /\ TInv
  <2> SUFFICES ASSUME Init PROVE TInv
    BY InitIInv
  <2>1. Busy(Idle)
    BY DEF Busy, Idle
  <2>2. \A i \in Items : Fits(i, <<>>)
    <3>1. 1 \in DOMAIN Size /\ Size[1] \in Nat /\ Len(<<>>) = 0 /\ Range(<<>>) = {}
      BY KeyFileAssumption DEF Range
    <3> QED
      BY <3>1 DEF Fits
  <2> QED
    BY <2>1, <2>2 DEF Init, TInv
<1>2. IInv /\ TInv /\ [Next]_vars => IInv' /\ TInv'
  <2> SUFFICES ASSUME IInv, TInv, [Next]_vars PROVE TInv'
    BY IInvStep
  <2>1. CASE Rotate \/ UNCHANGED vars
    <3>1. UNCHANGED <<stored, handler>>
      BY ZenonT(60), <2>1 DEF Rotate, vars
    <3> QED
      BY <3>1 DEF TInv
  <2>2. ASSUME NEW h \in Handlers, Start(h) \/ Get(h) \/ OpenFile(h) \/ Write(h) \/ Verify(h)
        PROVE  TInv'
    BY ZenonT(60), <2>2, BusyStep, FitsStep DEF TInv
  <2> QED
    BY <2>1, <2>2 DEF Next
<1>3. IInv /\ TInv => TypeOK
  <2> SUFFICES ASSUME IInv, TInv PROVE TypeOK
    OBVIOUS
  <2>1. DOMAIN Size = Versions /\ version \in [Items -> Versions]
    BY KeyFileAssumption DEF IInv, Typed, Versions
  <2>2. \A h \in Handlers : handler[h] \in States
    BY DEF IInv, Typed
  <2>3. \A h \in Handlers :
          /\ handler[h].pc \in {"idle", "get", "open", "write", "verify"}
          /\ handler[h].loaded \subseteq Items
    BY <2>2 DEF States
  <2>4. Rekor \in Items /\ Keys \subseteq Items /\ Rekor \notin Keys
    BY KeyFileAssumption DEF Items
  <2> QED
    BY SMTT(60), <2>1, <2>3, <2>4 DEF TInv, Busy, Fits, TypeOK
<1> QED
  BY <1>1, <1>2, <1>3, PTL DEF Spec

-----------------------------------------------------------------------------
(* What a request has to itself *)

\* No Secret is named twice in the constraint.
Distinct(list) == \A a, b \in DOMAIN list : list[a] = list[b] => a = b

\* An item that was loaded for the manifest is not loaded again.
LoadsOnce(s) ==
    s.phase = "manifest" => Distinct(s.todo) /\ Range(s.todo) \intersect s.loaded = {}

\* An item that a goroutine covers and shares with none: no other one holds a
\* version of it, it holds what it read, the file it is to write is empty, and
\* the one it wrote is whole.
AloneHolds ==
    \A h, g \in Handlers : \A i \in Items \ shared[h] :
        g # h /\ Covers(handler[h], i) => ~Holds(handler[g], i)
AloneReads ==
    \A h \in Handlers : \A i \in Items \ shared[h] :
        Holds(handler[h], i) =>
            /\ handler[h].got = read[h][i]
            /\ handler[h].pc = "write" /\ i # Rekor => stored[i] = <<>>
AloneWrote ==
    \A h \in Handlers : \A i \in Items \ shared[h] :
        i \in handler[h].loaded /\ ~Holds(handler[h], i) =>
            read[h][i] \in Versions /\ stored[i] = Whole(i, read[h][i])

EInv ==
    /\ read \in [Handlers -> [Items -> Nat]] /\ shared \in [Handlers -> SUBSET Items]
    /\ \A h \in Handlers : LoadsOnce(handler[h])
    /\ AloneHolds /\ AloneReads /\ AloneWrote /\ AloneIsExact

\* The rest of a list names no item twice, and none that was loaded.
LEMMA ContinueOnce ==
    ASSUME NEW s \in States, s.todo # <<>>, LoadsOnce(s),
           NEW L \in SUBSET Items, L \subseteq s.loaded \union {Head(s.todo)}
    PROVE  LoadsOnce(Continue(s, L))
<1> DEFINE q == s.todo
           r == Tail(q)
           p == IF Len(s.todo) > 1 THEN "get" ELSE "verify"
           t == [s EXCEPT !.todo = Tail(@), !.loaded = L, !.pc = p]
<1>1. Continue(s, L) = t
  BY DEF Continue
<1>2. t.phase = s.phase /\ t.todo = r /\ t.loaded = L
  <2> HIDE DEF p
  <2> QED
    BY ZenonT(60) DEF States
<1>3. q \in Seq(Items) /\ q # <<>>
  BY DEF States
<1> HIDE DEF q, t
<1>4. /\ r \in Seq(Items) /\ Len(r) = Len(q) - 1 /\ Len(q) \in Nat /\ 1 \in 1..Len(q)
      /\ \A k \in 1..Len(r) : r[k] = q[k + 1] /\ k + 1 \in 1..Len(q)
      /\ Head(q) = q[1] /\ DOMAIN q = 1..Len(q)
  BY <1>3
<1> HIDE DEF r
<1>5. DOMAIN r = 1..Len(r)
  BY <1>4
<1>6. ASSUME s.phase = "manifest"
      PROVE  Distinct(r) /\ Range(r) \intersect L = {}
  <2>1. Distinct(q) /\ Range(q) \intersect s.loaded = {} /\ L \subseteq s.loaded \union {Head(q)}
    BY <1>6 DEF LoadsOnce, q
  <2>2. Distinct(r)
    BY SMTT(60), <1>4, <1>5, <2>1 DEF Distinct
  <2>3. \A k \in DOMAIN r : r[k] \in Range(q) /\ r[k] # Head(q)
    BY SMTT(60), <1>4, <1>5, <2>1 DEF Distinct, Range
  <2>4. \A x \in Range(r) : x \in Range(q) /\ x # Head(q)
    BY <2>3 DEF Range
  <2> QED
    BY SMTT(60), <2>1, <2>2, <2>4
<1> QED
  BY <1>1, <1>2, <1>6 DEF LoadsOnce

\* What stays loaded after a failure is not what was being loaded.
LEMMA LoadFailsOnce ==
    ASSUME NEW s \in States, s.pc \in {"get", "open", "write"}, WellFormed(s), LoadsOnce(s)
    PROVE  LET t == LoadFails(s) IN
           LoadsOnce(t) /\ \A i \in t.loaded : ~Holds(s, i)
<1>1. CASE Head(s.todo) = Rekor \/ s.phase = "image"
  <2>1. LoadFails(s) = Idle
    BY <1>1 DEF LoadFails
  <2>2. Idle.loaded = {} /\ Idle.todo = <<>>
    BY DEF Idle
  <2> QED
    BY <2>1, <2>2 DEF LoadsOnce, Distinct
<1>2. CASE ~(Head(s.todo) = Rekor \/ s.phase = "image")
  <2>1. s.todo # <<>> /\ s.loaded \in SUBSET Items /\ s.phase = "manifest"
    BY <1>2 DEF WellFormed, States
  <2>2. LoadFails(s) = Continue(s, s.loaded)
    BY <1>2 DEF LoadFails
  <2>3. LoadsOnce(Continue(s, s.loaded)) /\ Continue(s, s.loaded).loaded = s.loaded
    BY SMTT(60), <2>1, ContinueOnce, ContinueState
  <2>4. Head(s.todo) \notin s.loaded
    BY <2>1, HeadInList DEF LoadsOnce
  <2> QED
    BY <2>2, <2>3, <2>4 DEF Holds
<1> QED
  BY <1>1, <1>2

\* A goroutine that holds nothing afterwards and relies on nothing more.
LEMMA ReleaseEInv ==
    ASSUME IInv, EInv, NEW h \in Handlers, NEW t \in States, LoadsOnce(t),
           t.pc \notin {"open", "write"}, t.loaded \subseteq handler[h].loaded,
           \A i \in t.loaded : ~Holds(handler[h], i),
           \A i \in DOMAIN t.used : i \notin shared[h] =>
               \E v \in DOMAIN Size : v = read[h][i] /\ t.used[i] = Whole(i, v),
           handler' = [handler EXCEPT ![h] = t], UNCHANGED <<stored, read, shared>>
    PROVE  EInv'
<1>1. \A g \in Handlers : handler'[g] = IF g = h THEN t ELSE handler[g]
  BY SMTT(60) DEF IInv, Typed
<1>2. \A g \in Handlers : \A i \in Items :
        /\ Holds(handler'[g], i) => Holds(handler[g], i) /\ handler'[g] = handler[g]
        /\ Covers(handler'[g], i) => Covers(handler[g], i)
        /\ i \in handler'[g].loaded /\ ~Holds(handler'[g], i) =>
               i \in handler[g].loaded /\ ~Holds(handler[g], i)
  BY <1>1 DEF Holds, Covers
<1>3. \A g \in Handlers : LoadsOnce(handler'[g])
  BY <1>1 DEF EInv
<1>4. AloneHolds'
  BY ZenonT(60), <1>2 DEF EInv, AloneHolds
<1>5. AloneWrote'
  <2> SUFFICES ASSUME NEW g \in Handlers, NEW i \in Items \ shared[g],
                      i \in handler'[g].loaded, ~Holds(handler'[g], i)
               PROVE  read[g][i] \in Versions /\ stored[i] = Whole(i, read[g][i])
    BY SMTT(60) DEF AloneWrote
  <2>1. i \in handler[g].loaded /\ ~Holds(handler[g], i)
    BY SMTT(60), <1>2
  <2> QED
    BY SMTT(60), <2>1 DEF EInv, AloneWrote
<1>6. AloneReads'
  <2> SUFFICES ASSUME NEW g \in Handlers, NEW i \in Items \ shared[g], Holds(handler'[g], i)
               PROVE  /\ handler'[g].got = read[g][i]
                      /\ handler'[g].pc = "write" /\ i # Rekor => stored[i] = <<>>
    BY SMTT(60) DEF AloneReads
  <2>1. handler'[g] = handler[g] /\ Holds(handler[g], i)
    BY SMTT(60), <1>2
  <2> QED
    BY SMTT(60), <2>1 DEF EInv, AloneReads
<1>7. AloneIsExact'
  BY SMTT(60), <1>1 DEF EInv, AloneIsExact
<1> QED
  BY ZenonT(60), <1>3, <1>4, <1>5, <1>6, <1>7 DEF EInv

\* A new request has its list to go through, each item once.
LEMMA StartEInv ==
    ASSUME IInv, EInv, Distinct(ManifestKeys), NEW h \in Handlers, Start(h)
    PROVE  EInv'
<1> DEFINE list == <<Rekor>> \o ManifestKeys
           t    == [Idle EXCEPT !.pc = "get", !.todo = list]
<1>1. handler' = [handler EXCEPT ![h] = t] /\ UNCHANGED <<stored, read, shared>>
  BY DEF Start, history
<1>2. list \in Seq(Items) /\ Distinct(list)
  <2>1. /\ ManifestKeys \in Seq(Items) /\ DOMAIN ManifestKeys = 1..Len(ManifestKeys)
        /\ \A k \in 1..Len(ManifestKeys) : ManifestKeys[k] # Rekor
        /\ Len(ManifestKeys) \in Nat
    BY KeyFileAssumption DEF Items
  <2>2. /\ DOMAIN list = 1..(Len(ManifestKeys) + 1) /\ list[1] = Rekor
        /\ \A k \in 2..(Len(ManifestKeys) + 1) :
               list[k] = ManifestKeys[k - 1] /\ k - 1 \in 1..Len(ManifestKeys)
    BY <2>1
  <2>3. list \in Seq(Items)
    BY ItemsOfLists
  <2> HIDE DEF list
  <2>4. ASSUME NEW a \in DOMAIN list, NEW b \in DOMAIN list, list[a] = list[b]
        PROVE  a = b
    <3>1. /\ a \in Nat /\ b \in Nat
          /\ a # 1 => a \in 2..(Len(ManifestKeys) + 1)
          /\ b # 1 => b \in 2..(Len(ManifestKeys) + 1)
      BY <2>1, <2>2
    <3>2. CASE a = 1 \/ b = 1
      BY <2>1, <2>2, <2>4, <3>1, <3>2
    <3>3. CASE a # 1 /\ b # 1
      <4>1. /\ ManifestKeys[a - 1] = ManifestKeys[b - 1]
            /\ a - 1 \in DOMAIN ManifestKeys /\ b - 1 \in DOMAIN ManifestKeys
        BY <2>1, <2>2, <2>4, <3>1, <3>3
      <4>2. a - 1 = b - 1
        BY <4>1 DEF Distinct
      <4> QED
        BY <3>1, <4>2
    <3> QED
      BY <3>2, <3>3
  <2> QED
    BY <2>3, <2>4 DEF Distinct
<1> HIDE DEF list
<1>3. /\ t \in States /\ t.pc = "get" /\ t.todo = list /\ t.loaded = {} /\ t.used = <<>>
  BY ZenonT(60), <1>2, IdleState DEF States
<1> HIDE DEF t
<1>4. \A i \in DOMAIN t.used : i \notin shared[h] =>
          \E v \in DOMAIN Size : v = read[h][i] /\ t.used[i] = Whole(i, v)
  BY <1>3
<1>5. LoadsOnce(t)
  BY <1>2, <1>3 DEF LoadsOnce
<1> QED
  BY ZenonT(60), <1>1, <1>3, <1>4, <1>5, ReleaseEInv

\* A failed load leaves nothing loaded that was being loaded again.
LEMMA FailEInv ==
    ASSUME IInv, EInv, NEW h \in Handlers, handler[h].pc \in {"get", "open", "write"},
           handler' = [handler EXCEPT ![h] = LoadFails(@)], UNCHANGED <<stored, read, shared>>
    PROVE  EInv'
<1> DEFINE s == handler[h]
           t == LoadFails(s)
<1>1. s \in States /\ WellFormed(s) /\ LoadsOnce(s)
  BY DEF IInv, Typed, EInv
<1>2. handler' = [handler EXCEPT ![h] = t]
  OBVIOUS
<1>3. /\ t \in States /\ t.pc \notin {"open", "write"}
      /\ t.loaded \subseteq s.loaded /\ t.used \in {s.used, <<>>}
  BY SMTT(60), <1>1, LoadFailsState
<1>4. LoadsOnce(t) /\ \A i \in t.loaded : ~Holds(s, i)
  BY SMTT(60), <1>1, LoadFailsOnce
<1> HIDE DEF t
<1>5. \A i \in DOMAIN t.used : i \notin shared[h] =>
          \E v \in DOMAIN Size : v = read[h][i] /\ t.used[i] = Whole(i, v)
  BY SMTT(60), <1>3 DEF EInv, AloneIsExact
<1> QED
  BY ZenonT(60), <1>2, <1>3, <1>4, <1>5, ReleaseEInv

\* A verification uses the whole of what an undisturbed request wrote.
LEMMA VerifyEInv ==
    ASSUME IInv, EInv, NEW h \in Handlers, Verify(h)
    PROVE  EInv'
<1> DEFINE s    == handler[h]
           used == [i \in s.loaded |-> stored[i]]
           next == [s EXCEPT !.pc = "get", !.phase = "image", !.todo = ImageKeys,
                             !.loaded = {Rekor}, !.used = used]
           last == [Idle EXCEPT !.used = used]
<1>1. s \in States /\ WellFormed(s) /\ s.pc = "verify"
  BY DEF IInv, Typed, Verify
<1>2. Rekor \in s.loaded /\ s.loaded \in SUBSET Items
  BY <1>1 DEF WellFormed, States
<1>3. used \in Used
  <2>1. used \in [s.loaded -> Seq(Nat)]
    BY <1>2 DEF IInv, Typed
  <2> QED
    BY <1>2, <2>1 DEF Used
<1>4. \A i \in Items : ~Holds(s, i)
  BY SMTT(60), <1>1 DEF Holds
<1>5. \A i \in DOMAIN used : i \notin shared[h] =>
          \E v \in DOMAIN Size : v = read[h][i] /\ used[i] = Whole(i, v)
  <2>1. DOMAIN Size = Versions
    BY KeyFileAssumption DEF Versions
  <2> QED
    BY SMTT(60), <1>2, <1>4, <2>1 DEF EInv, AloneWrote
<1>6. UNCHANGED <<stored, read, shared>>
  BY DEF Verify, history
<1>7. \/ ImageKeys # <<>> /\ handler' = [handler EXCEPT ![h] = next]
      \/ handler' = [handler EXCEPT ![h] = last]
  BY DEF Verify
<1> HIDE DEF used
<1>8. CASE ImageKeys # <<>> /\ handler' = [handler EXCEPT ![h] = next]
  <2>1. /\ next \in States /\ next.pc = "get" /\ next.phase = "image"
        /\ next.loaded = {Rekor} /\ next.used = used
    BY ZenonT(60), <1>1, <1>2, <1>3, ItemsOfLists DEF States
  <2> HIDE DEF next
  <2>2. LoadsOnce(next) /\ next.loaded \subseteq s.loaded /\ \A i \in next.loaded : ~Holds(s, i)
    BY SMTT(60), <1>2, <1>4, <2>1 DEF LoadsOnce
  <2> QED
    BY ZenonT(60), <1>5, <1>6, <1>8, <2>1, <2>2, ReleaseEInv
<1>9. CASE handler' = [handler EXCEPT ![h] = last]
  <2>1. /\ last \in States /\ last.pc = "idle" /\ last.loaded = {} /\ last.todo = <<>>
        /\ last.used = used
    BY ZenonT(60), <1>3, IdleState DEF States, Idle
  <2> HIDE DEF last
  <2>2. LoadsOnce(last) /\ last.loaded \subseteq s.loaded /\ \A i \in last.loaded : ~Holds(s, i)
    BY <2>1 DEF LoadsOnce, Distinct
  <2> QED
    BY ZenonT(60), <1>5, <1>6, <1>9, <2>1, <2>2, ReleaseEInv
<1> QED
  BY SMTT(60), <1>7, <1>8, <1>9

\* Whoever is loading the item, or has loaded it, shares it with the reader.
LEMMA ReadEInv ==
    ASSUME IInv, EInv, NEW h \in Handlers, NEW i \in Items, NEW t \in States,
           handler[h].pc = "get", t.pc \in {"open", "write"}, t.pc = "write" => i = Rekor,
           Head(t.todo) = i, t.got = version[i], t.used = <<>>,
           t.phase = handler[h].phase, t.todo = handler[h].todo, t.loaded = handler[h].loaded,
           handler' = [handler EXCEPT ![h] = t],
           read' = [read EXCEPT ![h] = [read[h] EXCEPT ![i] = version[i]]],
           shared' \in [Handlers -> SUBSET Items],
           \A g \in Handlers : g # h => shared[g] \subseteq shared'[g],
           \A g \in Handlers : g # h /\ Covers(handler[g], i) => i \in shared'[g],
           shared[h] \ {i} \subseteq shared'[h],
           i \in shared'[h] \/ \A g \in Handlers : ~Holds(handler[g], i),
           UNCHANGED stored
    PROVE  EInv'
<1>1. \A g \in Handlers : handler'[g] = IF g = h THEN t ELSE handler[g]
  BY SMTT(60) DEF IInv, Typed
<1>2. /\ read' \in [Handlers -> [Items -> Nat]] /\ read'[h][i] = version[i]
      /\ \A g \in Handlers : \A j \in Items : ~(g = h /\ j = i) => read'[g][j] = read[g][j]
  <2>1. read \in [Handlers -> [Items -> Nat]] /\ version[i] \in Nat
    BY SMTT(60) DEF IInv, Typed, EInv, Versions
  <2>2. read[h] \in [Items -> Nat] /\ read'[h] = [read[h] EXCEPT ![i] = version[i]]
    BY SMTT(60), <2>1
  <2>3. [read[h] EXCEPT ![i] = version[i]] \in [Items -> Nat]
    BY SMTT(60), <2>1, <2>2
  <2>4. read' \in [Handlers -> [Items -> Nat]] /\ \A g \in Handlers : g # h => read'[g] = read[g]
    BY SMTT(60), <2>1, <2>3
  <2> QED
    BY SMTT(60), <2>2, <2>4
<1>3. /\ \A j \in Items : Holds(t, j) <=> j = i
      /\ \A j \in Items : ~Holds(handler[h], j)
  BY DEF Holds
<1>4. ASSUME NEW g \in Handlers, NEW j \in Items \ shared'[g], ~(g = h /\ j = i)
      PROVE  j \in Items \ shared[g]
  BY SMTT(60), <1>4
<1>5. \A g \in Handlers : LoadsOnce(handler'[g])
  BY SMTT(60), <1>1 DEF EInv, LoadsOnce
<1>6. AloneHolds'
  <2> SUFFICES ASSUME NEW a \in Handlers, NEW b \in Handlers, NEW j \in Items \ shared'[a],
                      b # a, Covers(handler'[a], j)
               PROVE  ~Holds(handler'[b], j)
    BY DEF AloneHolds
  <2>1. CASE j = i
    BY SMTT(60), <1>1, <2>1
  <2>2. CASE j # i
    <3>1. Covers(handler[a], j) /\ j \in Items \ shared[a]
      BY SMTT(60), <1>1, <1>3, <1>4, <2>2 DEF Covers
    <3>2. ~Holds(handler[b], j)
      BY SMTT(60), <3>1 DEF EInv, AloneHolds
    <3> QED
      BY SMTT(60), <1>1, <1>3, <2>2, <3>2
  <2> QED
    BY SMTT(60), <2>1, <2>2
<1>7. AloneReads'
  <2> SUFFICES ASSUME NEW g \in Handlers, NEW j \in Items \ shared'[g], Holds(handler'[g], j)
               PROVE  /\ handler'[g].got = read'[g][j]
                      /\ handler'[g].pc = "write" /\ j # Rekor => stored[j] = <<>>
    BY SMTT(60) DEF AloneReads
  <2>1. CASE g = h
    BY SMTT(60), <1>1, <1>2, <1>3, <2>1
  <2>2. CASE g # h
    <3>1. handler'[g] = handler[g] /\ read'[g][j] = read[g][j] /\ j \in Items \ shared[g]
      BY SMTT(60), <1>1, <1>2, <2>2
    <3> QED
      BY SMTT(60), <3>1 DEF EInv, AloneReads
  <2> QED
    BY SMTT(60), <2>1, <2>2
<1>8. AloneWrote'
  <2> SUFFICES ASSUME NEW g \in Handlers, NEW j \in Items \ shared'[g],
                      j \in handler'[g].loaded, ~Holds(handler'[g], j)
               PROVE  read'[g][j] \in Versions /\ stored[j] = Whole(j, read'[g][j])
    BY DEF AloneWrote
  <2>1. ~(g = h /\ j = i) /\ j \in handler[g].loaded /\ ~Holds(handler[g], j)
    BY SMTT(60), <1>1, <1>3
  <2>2. read'[g][j] = read[g][j] /\ j \in Items \ shared[g]
    BY SMTT(60), <1>2, <1>4, <2>1
  <2> QED
    BY SMTT(60), <2>1, <2>2 DEF EInv, AloneWrote
<1>9. AloneIsExact'
  <2> SUFFICES ASSUME NEW g \in Handlers, NEW j \in DOMAIN handler'[g].used, j \notin shared'[g]
               PROVE  \E v \in DOMAIN Size :
                          v = read'[g][j] /\ handler'[g].used[j] = Whole(j, v)
    BY DEF AloneIsExact
  <2>1. g # h /\ handler'[g] = handler[g]
    BY <1>1
  <2>2. j \in Items /\ j \notin shared[g]
    BY SMTT(60), <2>1 DEF IInv, Typed, States, Used
  <2>3. read'[g][j] = read[g][j]
    BY <1>2, <2>1, <2>2
  <2> QED
    BY SMTT(60), <2>1, <2>2, <2>3 DEF EInv, AloneIsExact
<1> QED
  BY ZenonT(60), <1>2, <1>5, <1>6, <1>7, <1>8, <1>9 DEF EInv

\* A Secret, or the configuration, is read, or the call fails.
LEMMA GetEInv ==
    ASSUME IInv, EInv, NEW h \in Handlers, Get(h)
    PROVE  EInv'
<1> DEFINE s == handler[h]
           i == Item(h)
           p == IF i = Rekor THEN "write" ELSE "open"
           t == [s EXCEPT !.pc = p, !.got = version[i], !.used = <<>>]
           others == Loading(i)
<1>1. s \in States /\ WellFormed(s) /\ s.pc = "get" /\ UNCHANGED <<version, stored>>
  BY DEF IInv, Typed, Get
<1>2. s.todo # <<>> /\ i \in Items
  BY <1>1, HeadInList DEF WellFormed, Item
<1>3. CASE handler' = [handler EXCEPT ![h] = LoadFails(@)] /\ UNCHANGED history
  BY ZenonT(60), <1>1, <1>3, FailEInv DEF history
<1>4. ASSUME handler' = [handler EXCEPT ![h].pc = p, ![h].got = version[i], ![h].used = <<>>],
             read' = [read EXCEPT ![h][i] = version[i]],
             shared' = [g \in Handlers |->
                          IF g = h THEN IF others = {} THEN shared[h] \ {i}
                                                       ELSE shared[h] \union {i}
                          ELSE IF g \in others \/ i \in handler[g].loaded
                               THEN shared[g] \union {i} ELSE shared[g]]
      PROVE  EInv'
  <2>1. handler' = [handler EXCEPT ![h] = t]
    BY ZenonT(60), <1>4 DEF IInv, Typed
  <2>2. read' = [read EXCEPT ![h] = [read[h] EXCEPT ![i] = version[i]]]
    BY <1>4
  <2>3. version[i] \in Nat
    BY <1>2 DEF IInv, Typed, Versions
  <2>4. \A g \in Handlers : Holds(handler[g], i) <=> g \in others
    BY DEF Holds, Loading, Item
  <2>5. shared \in [Handlers -> SUBSET Items]
    BY DEF EInv
  <2> HIDE DEF others, i
  <2>6. /\ shared' \in [Handlers -> SUBSET Items]
        /\ \A g \in Handlers : g # h => shared[g] \subseteq shared'[g]
        /\ shared[h] \ {i} \subseteq shared'[h]
    BY SMTT(60), <1>2, <1>4, <2>5
  <2>7. \A g \in Handlers : g # h /\ Covers(handler[g], i) => i \in shared'[g]
    BY <1>4, <2>4 DEF Covers
  <2>8. i \in shared'[h] \/ \A g \in Handlers : ~Holds(handler[g], i)
    BY <1>4, <2>4
  <2>9. p \in {"open", "write"} /\ (p = "write" => i = Rekor)
    OBVIOUS
  <2>10. /\ t \in States /\ t.pc = p /\ t.todo = s.todo /\ t.got = version[i]
         /\ t.loaded = s.loaded /\ t.used = <<>> /\ t.phase = s.phase
    <3> HIDE DEF p
    <3> QED
      BY ZenonT(60), <1>1, <2>3, <2>9, IdleState DEF States
  <2>11. Head(t.todo) = i
    BY <2>10 DEF i, Item
  <2> HIDE DEF t, p
  <2> QED
    BY ZenonT(60), <1>1, <1>2, <2>1, <2>2, <2>6, <2>7, <2>8, <2>9, <2>10, <2>11, ReadEInv
<1> QED
  BY ZenonT(60), <1>3, <1>4 DEF Get

\* Nobody who has the item to themselves loses it to a truncation.
LEMMA OpenFileEInv ==
    ASSUME IInv, EInv, NEW h \in Handlers, OpenFile(h)
    PROVE  EInv'
<1> DEFINE s == handler[h]
           i == Item(h)
           t == [s EXCEPT !.pc = "write"]
<1>1. s \in States /\ WellFormed(s) /\ s.pc = "open" /\ UNCHANGED <<read, shared>>
  BY DEF IInv, Typed, OpenFile, history
<1>2. i \in Items
  BY <1>1, HeadInList DEF WellFormed, Item
<1>3. CASE handler' = [handler EXCEPT ![h] = LoadFails(@)] /\ UNCHANGED stored
  BY ZenonT(60), <1>1, <1>3, FailEInv
<1>4. ASSUME stored' = [stored EXCEPT ![i] = <<>>], handler' = [handler EXCEPT ![h].pc = "write"]
      PROVE  EInv'
  <2>1. handler' = [handler EXCEPT ![h] = t]
    BY <1>4 DEF IInv, Typed
  <2>2. /\ t.got = s.got /\ t.loaded = s.loaded /\ t.used = s.used /\ t.pc = "write"
        /\ t.todo = s.todo /\ t.phase = s.phase
    BY <1>1 DEF States
  <2> HIDE DEF t
  <2>3. \A g \in Handlers : handler'[g] = IF g = h THEN t ELSE handler[g]
    BY SMTT(60), <2>1 DEF IInv, Typed
  <2>4. \A g \in Handlers :
          /\ handler'[g].got = handler[g].got /\ handler'[g].loaded = handler[g].loaded
          /\ handler'[g].used = handler[g].used
          /\ \A j \in Items : Holds(handler'[g], j) <=> Holds(handler[g], j)
    BY SMTT(60), <1>1, <2>2, <2>3 DEF Holds
  <2>5. stored'[i] = <<>> /\ \A j \in Items : j # i => stored'[j] = stored[j]
    BY <1>2, <1>4 DEF IInv, Typed
  <2>6. Holds(handler[h], i) /\ \A j \in Items : Holds(handler[h], j) => j = i
    BY SMTT(60), <1>1 DEF Holds, Item
  <2>7. \A g \in Handlers : LoadsOnce(handler'[g])
    BY <2>2, <2>3 DEF EInv, LoadsOnce
  <2>8. AloneHolds'
    BY ZenonT(60), <1>1, <2>4 DEF EInv, AloneHolds, Covers
  <2>9. AloneReads'
    <3> SUFFICES ASSUME NEW g \in Handlers, NEW j \in Items \ shared[g], Holds(handler'[g], j)
                 PROVE  /\ handler'[g].got = read[g][j]
                        /\ handler'[g].pc = "write" /\ j # Rekor => stored'[j] = <<>>
      BY <1>1 DEF AloneReads
    <3>1. Holds(handler[g], j)
      BY <2>4
    <3>2. handler'[g].got = read[g][j]
      BY <2>4, <3>1 DEF EInv, AloneReads
    <3>3. j # i => handler'[g] = handler[g]
      BY SMTT(60), <2>3, <2>6, <3>1
    <3>4. handler[g].pc = "write" /\ j # Rekor => stored[j] = <<>>
      BY SMTT(60), <3>1 DEF EInv, AloneReads
    <3> QED
      BY SMTT(60), <2>5, <3>2, <3>3, <3>4
  <2>10. AloneWrote'
    <3> SUFFICES ASSUME NEW g \in Handlers, NEW j \in Items \ shared[g],
                        j \in handler'[g].loaded, ~Holds(handler'[g], j)
                 PROVE  read[g][j] \in Versions /\ stored'[j] = Whole(j, read[g][j])
      BY <1>1 DEF AloneWrote
    <3>1. j \in handler[g].loaded /\ ~Holds(handler[g], j)
      BY <2>4
    <3>2. j # i
      BY SMTT(60), <2>6, <3>1 DEF EInv, AloneHolds, Covers
    <3> QED
      BY SMTT(60), <2>5, <3>1, <3>2 DEF EInv, AloneWrote
  <2>11. AloneIsExact'
    BY <1>1, <2>4 DEF EInv, AloneIsExact
  <2> QED
    BY ZenonT(60), <1>1, <2>7, <2>8, <2>9, <2>10, <2>11 DEF EInv
<1> QED
  BY <1>3, <1>4 DEF OpenFile

\* What is written to an empty file is all that it has.
LEMMA OverwrittenEmpty ==
    ASSUME NEW new \in Seq(Nat)
    PROVE  Overwritten(<<>>, new) = new
<1>1. SubSeq(<<>>, Len(new) + 1, Len(<<>>)) = <<>>
  BY SMTT(60)
<1> QED
  BY <1>1 DEF Overwritten

\* An undisturbed write fills an empty file, and no undisturbed file is written.
LEMMA WriteEInv ==
    ASSUME IInv, EInv, NEW h \in Handlers, Write(h)
    PROVE  EInv'
<1> DEFINE s   == handler[h]
           i   == Item(h)
           new == Whole(i, s.got)
           all == IF i = Rekor THEN new ELSE Overwritten(stored[i], new)
           L   == s.loaded \union {i}
           t   == Continue(s, L)
<1>1. s \in States /\ WellFormed(s) /\ s.pc = "write" /\ UNCHANGED <<read, shared>>
  BY DEF IInv, Typed, Write, history
<1>2. s.todo # <<>> /\ s.got \in Versions /\ s.loaded \in SUBSET Items
  BY <1>1 DEF States, WellFormed
<1>3. i \in Items /\ L \in SUBSET Items
  BY SMTT(60), <1>1, <1>2, HeadInList DEF Item
<1>4. CASE handler' = [handler EXCEPT ![h] = LoadFails(@)] /\ UNCHANGED stored
  BY ZenonT(60), <1>1, <1>4, FailEInv
<1>5. ASSUME stored' = [stored EXCEPT ![i] = IF i = Rekor THEN new ELSE Overwritten(@, new)],
             handler' = [handler EXCEPT ![h] = Continue(@, @.loaded \union {i})]
      PROVE  EInv'
  <2>1. handler' = [handler EXCEPT ![h] = t] /\ stored' = [stored EXCEPT ![i] = all]
    BY SMTT(60), <1>5 DEF IInv, Typed
  <2>2. Holds(s, i) /\ \A j \in Items : Holds(s, j) => j = i
    BY SMTT(60), <1>1 DEF Holds, Item
  <2>3. i \notin shared[h] => all = Whole(i, read[h][i]) /\ read[h][i] \in Versions
    <3>1. new \in Seq(Nat)
      BY SMTT(60), <1>2, <1>3, WholeType DEF Versions
    <3>2. i \notin shared[h] => s.got = read[h][i] /\ (i # Rekor => stored[i] = <<>>)
      BY SMTT(60), <1>1, <1>3, <2>2 DEF EInv, AloneReads
    <3>3. i \notin shared[h] => all = new
      <4> HIDE DEF new
      <4> QED
        BY SMTT(60), <3>1, <3>2, OverwrittenEmpty
    <3> QED
      BY SMTT(60), <1>2, <3>2, <3>3
  <2>4. /\ t.pc \in {"get", "verify"} /\ t.loaded = L /\ t.used = s.used
    BY SMTT(60), <1>1, <1>2, <1>3, ContinueState
  <2>5. LoadsOnce(t)
    <3>1. LoadsOnce(s) /\ L \subseteq s.loaded \union {Head(s.todo)}
      BY DEF EInv, Item
    <3> QED
      BY ZenonT(60), <1>1, <1>2, <1>3, <3>1, ContinueOnce
  <2> HIDE DEF t, all
  <2>6. /\ \A g \in Handlers : handler'[g] = IF g = h THEN t ELSE handler[g]
        /\ \A j \in Items : stored'[j] = IF j = i THEN all ELSE stored[j]
    BY SMTT(60), <1>3, <2>1 DEF IInv, Typed
  <2>7. \A g \in Handlers : \A j \in Items :
          /\ Holds(handler'[g], j) => g # h /\ Holds(handler[g], j) /\ handler'[g] = handler[g]
          /\ Covers(handler'[g], j) => Covers(handler[g], j)
    BY SMTT(60), <1>1, <2>2, <2>4, <2>6 DEF Holds, Covers
  <2>8. \A g \in Handlers : LoadsOnce(handler'[g])
    BY SMTT(60), <2>5, <2>6 DEF EInv
  <2>9. AloneHolds'
    BY ZenonT(60), <1>1, <2>7 DEF EInv, AloneHolds
  <2>10. \A g \in Handlers : g # h /\ i \notin shared[g] => ~Covers(handler[g], i)
    BY SMTT(60), <1>3, <2>2 DEF EInv, AloneHolds
  <2>11. AloneReads'
    <3> SUFFICES ASSUME NEW g \in Handlers, NEW j \in Items \ shared[g], Holds(handler'[g], j)
                 PROVE  /\ handler'[g].got = read[g][j]
                        /\ handler'[g].pc = "write" /\ j # Rekor => stored'[j] = <<>>
      BY <1>1 DEF AloneReads
    <3>1. g # h /\ Holds(handler[g], j) /\ handler'[g] = handler[g]
      BY <2>7
    <3>2. stored'[j] = stored[j]
      BY SMTT(60), <2>6, <2>10, <3>1 DEF Covers
    <3> QED
      BY SMTT(60), <3>1, <3>2 DEF EInv, AloneReads
  <2>12. AloneWrote'
    <3> SUFFICES ASSUME NEW g \in Handlers, NEW j \in Items \ shared[g],
                        j \in handler'[g].loaded, ~Holds(handler'[g], j)
                 PROVE  read[g][j] \in Versions /\ stored'[j] = Whole(j, read[g][j])
      BY SMTT(60), <1>1 DEF AloneWrote
    <3>1. CASE g = h /\ j = i
      BY SMTT(60), <2>3, <2>6, <3>1
    <3>2. CASE ~(g = h /\ j = i)
      <4>1. j \in handler[g].loaded /\ ~Holds(handler[g], j)
        BY SMTT(60), <2>2, <2>4, <2>6, <3>2
      <4>2. j # i
        BY SMTT(60), <2>10, <3>2, <4>1 DEF Covers
      <4> QED
        BY SMTT(60), <2>6, <4>1, <4>2 DEF EInv, AloneWrote
    <3> QED
      BY SMTT(60), <3>1, <3>2
  <2>13. AloneIsExact'
    <3>1. \A g \in Handlers : handler'[g].used = handler[g].used
      BY <2>4, <2>6
    <3> QED
      BY <1>1, <3>1 DEF EInv, AloneIsExact
  <2> QED
    BY ZenonT(60), <1>1, <2>8, <2>9, <2>11, <2>12, <2>13 DEF EInv
<1> QED
  BY SMTT(60), <1>4, <1>5 DEF Write

\* A step that touches no file, no goroutine and no history.
LEMMA SameEInv == EInv /\ UNCHANGED <<stored, handler, read, shared>> => EInv'
<1> SUFFICES ASSUME EInv, UNCHANGED <<stored, handler, read, shared>> PROVE EInv'
  BY SMTT(60)
<1>1. AloneHolds' /\ AloneReads' /\ AloneWrote'
  BY DEF EInv, AloneHolds, AloneReads, AloneWrote
<1>2. AloneIsExact'
  BY DEF EInv, AloneIsExact
<1> QED
  BY <1>1, <1>2 DEF EInv

\* Nothing is loaded at first.
LEMMA InitEInv == Init => EInv
<1> SUFFICES ASSUME Init PROVE EInv
  OBVIOUS
<1>1. Idle.pc = "idle" /\ Idle.loaded = {} /\ Idle.used = <<>> /\ Idle.todo = <<>>
  BY DEF Idle
<1>2. LoadsOnce(Idle) /\ \A i \in Items : ~Holds(Idle, i) /\ ~Covers(Idle, i)
  BY <1>1 DEF LoadsOnce, Distinct, Holds, Covers
<1>3. /\ read \in [Handlers -> [Items -> Nat]] /\ shared \in [Handlers -> SUBSET Items]
      /\ \A h \in Handlers : handler[h] = Idle
  BY SMTT(60) DEF Init
<1>4. AloneHolds /\ AloneReads /\ AloneWrote
  BY SMTT(60), <1>1, <1>2, <1>3 DEF AloneHolds, AloneReads, AloneWrote
<1>5. AloneIsExact
  BY <1>1, <1>3 DEF AloneIsExact
<1> QED
  BY SMTT(60), <1>2, <1>3, <1>4, <1>5 DEF EInv

\* A request that no other one overlaps on an item verifies with exactly the
\* version it read, in full, for any number of requests and any sizes, when no
\* Secret is named twice in the constraint: loading it a second time can
\* truncate the file and fail, and the path is used all the same.
THEOREM AloneExact == Distinct(ManifestKeys) => (Spec => []AloneIsExact)
<1> SUFFICES ASSUME Distinct(ManifestKeys) PROVE Spec => []AloneIsExact
  OBVIOUS
<1>1. Init => IInv /\ EInv
  BY InitIInv, InitEInv
<1>2. IInv /\ EInv /\ [Next]_vars => IInv' /\ EInv'
  <2> SUFFICES ASSUME IInv, EInv, [Next]_vars PROVE EInv'
    BY IInvStep
  <2>1. CASE Rotate \/ UNCHANGED vars
    <3>1. UNCHANGED <<stored, handler, read, shared>>
      BY ZenonT(60), <2>1 DEF Rotate, vars, history
    <3> QED
      BY <3>1, SameEInv
  <2>2. ASSUME NEW h \in Handlers, Start(h) \/ Get(h) \/ OpenFile(h) \/ Write(h) \/ Verify(h)
        PROVE  EInv'
    BY ZenonT(60), <2>2, StartEInv, GetEInv, OpenFileEInv, WriteEInv, VerifyEInv
  <2> QED
    BY <2>1, <2>2 DEF Next
<1>3. EInv => AloneIsExact
  BY DEF EInv
<1> QED
  BY <1>1, <1>2, <1>3, PTL DEF Spec
=============================================================================
