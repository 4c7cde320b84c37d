---------------------------- MODULE PublishProofs ----------------------------
(***************************************************************************)
(* Proofs about Publish, for every number of calls, failures and power     *)
(* failures; and about HooksInstall, for every document, registration and  *)
(* number of editors of the settings file.                                 *)
(*                                                                         *)
(* The edits are loops that keep some elements of a list and change others *)
(* in place.  What such a loop leaves is Picked: the first lemmas say what *)
(* that is for any list, the next what Apply and Remove make of one        *)
(* event's groups and of the rules, then of a document; the last part is   *)
(* about the editors.                                                      *)
(***************************************************************************)
EXTENDS HooksInstall, FiniteSetTheorems, TLAPS

\* A file the final name may lead to was flushed with all it holds.
Flushed(w) == w \in synced /\ content[w] = "full"

BeforeName == {"idle", "made", "open", "written", "synced"}

Contents ==
  /\ \A w \in Writer : content[w] \in {"none", "empty", "torn", "full"}
  /\ \A w \in Writer : At(w, "written") => content[w] = "full"
  /\ \A w \in Writer : At(w, "synced") => Flushed(w)
  /\ \A w \in Writer : w \in onDisk => Flushed(w) /\ pc[w] \notin BeforeName

\* o took the final name no earlier than w.
NotBefore(w, o) ==
  o # None /\ \E i, j \in DOMAIN moved : moved[i] = w /\ moved[j] = o /\ i <= j

Order ==
  /\ moved \in Seq(Writer)
  /\ Replaced => home = "durable"
  /\ \A w \in Writer :
       /\ pc[w] \in {"named", "flushed", "rooted", "done"} => NotBefore(w, name)
       /\ pc[w] \in {"flushed", "rooted", "done"} =>
            \A o \in onDisk : NotBefore(w, o)
       /\ At(w, "done") => home = "durable"

IInv == TypeOK /\ Contents /\ Order

-----------------------------------------------------------------------------
\* Every step keeps the types.
LEMMA TypeStep == TypeOK /\ [Next]_vars => TypeOK'
  <1> SUFFICES ASSUME TypeOK, [Next]_vars PROVE TypeOK'
    OBVIOUS
  <1> USE BoundAssumption DEF TypeOK, At, Goto, Pcs, setting
  <1>1. CASE UNCHANGED vars
    BY <1>1 DEF vars
  <1>2. ASSUME NEW w \in Writer, CreateDir(w) \/ OpenTemp(w) \/ Write(w) \/ Sync(w)
        PROVE  TypeOK'
    BY <1>2 DEF CreateDir, OpenTemp, Write, Sync
  <1>3. ASSUME NEW w \in Writer, Move(w) PROVE TypeOK'
    BY <1>3 DEF Move
  <1>4. ASSUME NEW w \in Writer, FlushDir(w) \/ MakeTmp(w) \/ FlushRoot(w)
        PROVE  TypeOK'
    BY <1>4 DEF FlushDir, MakeTmp, FlushRoot
  <1>5. ASSUME NEW w \in Writer, Fails(w) PROVE TypeOK'
    BY <1>5 DEF Fails
  <1>6. CASE PowerLoss
    <2>1. pc' \in [Writer -> Pcs]
      BY <1>6 DEF PowerLoss
    <2>2. content' \in [Writer -> {"none", "empty", "torn", "full"}]
      BY <1>6 DEF PowerLoss
    <2>3. /\ home' \in {"absent", "cached", "durable"}
          /\ name' \in Writer \cup {None} /\ onDisk' = {name'}
      BY <1>6 DEF PowerLoss
    <2>4. synced' \subseteq Writer /\ crashes' \in 0 .. MaxCrashes
      BY <1>6 DEF PowerLoss
    <2>5. UNCHANGED <<file, failures>>
      BY <1>6 DEF PowerLoss
    <2>6. QED
      BY <2>1, <2>2, <2>3, <2>4, <2>5
  <1>7. QED
    BY <1>1, <1>2, <1>3, <1>4, <1>5, <1>6 DEF Next

\* Only what is flushed is given the name, and power takes nothing flushed away.
LEMMA ContentsStep == TypeOK /\ Contents /\ [Next]_vars => Contents'
  <1> SUFFICES ASSUME TypeOK, Contents, [Next]_vars PROVE Contents'
    OBVIOUS
  <1> USE NamesAssumption DEF TypeOK, Contents, BeforeName, Flushed, At, Goto, setting
  <1>1. CASE UNCHANGED vars
    BY <1>1 DEF vars
  <1>2. ASSUME NEW w \in Writer, CreateDir(w) \/ OpenTemp(w) \/ Write(w) \/ Sync(w)
        PROVE  Contents'
    BY <1>2 DEF CreateDir, OpenTemp, Write, Sync
  <1>3. ASSUME NEW w \in Writer, Move(w) PROVE Contents'
    BY <1>3 DEF Move
  <1>4. ASSUME NEW w \in Writer, FlushDir(w) \/ MakeTmp(w) \/ FlushRoot(w)
        PROVE  Contents'
    BY <1>4 DEF FlushDir, MakeTmp, FlushRoot
  <1>5. ASSUME NEW w \in Writer, Fails(w) PROVE Contents'
    BY <1>5 DEF Fails
  <1>6. CASE PowerLoss
    BY <1>6 DEF PowerLoss
  <1>7. QED
    BY <1>1, <1>2, <1>3, <1>4, <1>5, <1>6 DEF Next

\* A name once taken is only passed on to later calls.
LEMMA OrderStep == TypeOK /\ Order /\ [Next]_vars => Order'
  <1> SUFFICES ASSUME TypeOK, Order, [Next]_vars PROVE Order'
    OBVIOUS
  <1> USE NamesAssumption DEF TypeOK, Order, At, Goto, setting, Replaced
  <1>1. CASE UNCHANGED vars
    BY <1>1 DEF vars, NotBefore
  <1>2. ASSUME NEW w \in Writer, CreateDir(w) \/ OpenTemp(w) \/ Write(w) \/ Sync(w)
        PROVE  Order'
    BY <1>2 DEF CreateDir, OpenTemp, Write, Sync, NotBefore
  <1>3. ASSUME NEW w \in Writer, Move(w) PROVE Order'
    <2>1. CASE UNCHANGED <<name, onDisk, moved, home>>
      BY <1>3, <2>1 DEF Move, NotBefore
    <2>2. CASE name' = w /\ onDisk' = onDisk \cup {w} /\ moved' = Append(moved, w)
      <3>1. \A v, o : NotBefore(v, o) => NotBefore(v, o)'
        BY <2>2 DEF NotBefore
      <3>2. \A v \in Writer : v = w \/ (\E o : NotBefore(v, o)) => NotBefore(v, w)'
        BY <2>2 DEF NotBefore
      <3>3. QED
        BY <1>3, <2>2, <3>1, <3>2 DEF Move
    <2>3. QED
      BY <1>3, <2>1, <2>2 DEF Move
  <1>4. ASSUME NEW w \in Writer, FlushDir(w) \/ MakeTmp(w) \/ FlushRoot(w)
        PROVE  Order'
    BY <1>4 DEF FlushDir, MakeTmp, FlushRoot, NotBefore
  <1>5. ASSUME NEW w \in Writer, Fails(w) PROVE Order'
    BY <1>5 DEF Fails, NotBefore
  <1>6. CASE PowerLoss
    BY <1>6 DEF PowerLoss, NotBefore
  <1>7. QED
    BY <1>1, <1>2, <1>3, <1>4, <1>5, <1>6 DEF Next

\* What holds of every call, whatever fails and whenever power is lost.
THEOREM PublishInvariant == Spec => []IInv
  <1>1. Init => IInv
    <2> SUFFICES ASSUME Init PROVE IInv
      OBVIOUS
    <2>1. TypeOK
      BY BoundAssumption DEF Init, TypeOK, Pcs, Replaced
    <2>2. Contents
      BY NamesAssumption DEF Init, Contents, At, Flushed
    <2>3. Order
      BY DEF Init, Order, At, Replaced
    <2>4. QED
      BY <2>1, <2>2, <2>3 DEF IInv
  <1>2. IInv /\ [Next]_vars => IInv'
    BY TypeStep, ContentsStep, OrderStep DEF IInv
  <1>3. QED
    BY <1>1, <1>2, PTL DEF Spec

\* No reader, and no restart after a power failure, finds a name that points at
\* content that is not there (publishFileAt, writeAtomic).
THEOREM NameIsCompleteHolds == Spec => []NameIsComplete
  <1>1. IInv => NameIsComplete
    BY DEF IInv, TypeOK, Contents, Flushed, NameIsComplete
  <1>2. QED
    BY <1>1, PublishInvariant, PTL

\* What was reported as published stays, or makes way for something later.
THEOREM SuccessSurvivesHolds == Spec => []SuccessSurvives
  <1>1. IInv => SuccessSurvives
    BY DEF IInv, Order, NotBefore, At, SuccessSurvives
  <1>2. QED
    BY <1>1, PublishInvariant, PTL

-----------------------------------------------------------------------------
(* What a loop over a list leaves of it                                    *)

\* What holds of 0 and is passed on holds up to N.
LEMMA UpTo ==
  ASSUME NEW S, NEW N \in Nat, 0 \in S,
         \A n \in 0 .. N : n \in S /\ n < N => n + 1 \in S
  PROVE  0 .. N \subseteq S
  <1> SUFFICES ASSUME NEW bad, bad = (0 .. N) \ S, bad # {} PROVE FALSE
    OBVIOUS
  <1> DEFINE R == {ss \in Nat \X Nat : ss[1] < ss[2]}
  <1>1. IsWellFoundedOn(R, Nat)
    BY NatLessThanWellFounded DEF OpToRel
  <1>2. \A i, m \in Nat : i < m => <<i, m>> \in R
    OBVIOUS
  <1>3. bad \subseteq Nat
    OBVIOUS
  <1>4. PICK m \in bad : \A i \in bad : ~(<<i, m>> \in R)
    <2> HIDE DEF R
    <2> QED BY <1>1, <1>3, WFMin
  <1>5. m \in 1 .. N /\ m \notin S
    OBVIOUS
  <1>6. m - 1 \in 0 .. N /\ m - 1 < m /\ m - 1 < N
    BY <1>5
  <1>7. m - 1 \in S
    <2>1. m - 1 \notin bad
      <3>1. m - 1 \in Nat /\ m \in Nat
        BY <1>5
      <3> HIDE DEF R
      <3> QED
        BY <1>2, <1>4, <1>6, <3>1
    <2> QED
      BY <1>6, <2>1
  <1>8. (m - 1) + 1 \in S
    BY <1>6, <1>7
  <1> QED
    BY <1>5, <1>8

\* f lists the m elements of I in their order.
Lists(f, I, m) ==
  /\ f \in [1 .. m -> I] /\ \A i \in I : \E k \in 1 .. m : f[k] = i
  /\ \A j, k \in 1 .. m : j < k => f[j] < f[k]

\* A set is listed in one way.
LEMMA ListsAgree ==
  ASSUME NEW I \in SUBSET Nat, NEW m \in Nat, NEW k \in Nat, NEW f, NEW g,
         Lists(f, I, m), Lists(g, I, k)
  PROVE  m <= k /\ \A i \in 1 .. m : f[i] = g[i]
  <1> DEFINE S == {j \in 0 .. m : j <= k /\ \A i \in 1 .. j : f[i] = g[i]}
  <1>1. 0 \in S
    OBVIOUS
  <1>2. ASSUME NEW j \in 0 .. m, j \in S, j < m PROVE j + 1 \in S
    <2>1. j + 1 \in 1 .. m /\ f[j + 1] \in I /\ j <= k /\ \A i \in 1 .. j : f[i] = g[i]
      BY <1>2 DEF Lists
    <2>2. PICK i \in 1 .. k : g[i] = f[j + 1]
      BY <2>1 DEF Lists
    <2>3. ~(i <= j)
      <3> SUFFICES ASSUME i <= j PROVE FALSE
        OBVIOUS
      <3>1. i \in 1 .. j /\ i \in 1 .. m /\ i < j + 1
        BY <2>1
      <3>2. f[i] = f[j + 1] /\ f[i] < f[j + 1]
        BY <2>1, <2>2, <3>1 DEF Lists
      <3>3. f[i] \in Nat
        BY <3>1 DEF Lists
      <3> QED
        BY <3>2, <3>3
    <2>4. j + 1 <= k /\ j + 1 \in 1 .. k /\ j + 1 <= i
      BY <2>3
    <2>5. g[j + 1] \in I
      BY <2>4 DEF Lists
    <2>6. PICK h \in 1 .. m : f[h] = g[j + 1]
      BY <2>5 DEF Lists
    <2>7. ~(h <= j)
      <3> SUFFICES ASSUME h <= j PROVE FALSE
        OBVIOUS
      <3>1. h \in 1 .. j /\ h \in 1 .. k /\ h < j + 1
        BY <2>1
      <3>2. g[h] = g[j + 1] /\ g[h] < g[j + 1]
        BY <2>1, <2>4, <2>6, <3>1 DEF Lists
      <3>3. g[h] \in Nat
        BY <3>1 DEF Lists
      <3> QED
        BY <3>2, <3>3
    <2>8. f[j + 1] \in Nat /\ g[j + 1] \in Nat /\ g[i] \in Nat /\ f[h] \in Nat
      BY <2>1, <2>5 DEF Lists
    <2>9. g[j + 1] <= g[i] /\ f[j + 1] <= f[h]
      <3>1. j + 1 = i \/ g[j + 1] < g[i]
        BY <2>4 DEF Lists
      <3>2. j + 1 = h \/ f[j + 1] < f[h]
        BY <2>1, <2>7 DEF Lists
      <3> QED
        BY <2>8, <3>1, <3>2
    <2>10. f[j + 1] = g[j + 1]
      BY <2>2, <2>6, <2>8, <2>9
    <2>11. \A x \in 1 .. (j + 1) : f[x] = g[x]
      <3> TAKE x \in 1 .. (j + 1)
      <3>1. x \in 1 .. j \/ x = j + 1
        OBVIOUS
      <3> QED
        BY <2>1, <2>10, <3>1
    <2> QED
      BY <2>1, <2>4, <2>11
  <1> HIDE DEF S
  <1>3. m \in S
    BY <1>1, <1>2, UpTo
  <1> QED
    BY <1>3 DEF S

\* It can be listed.
LEMMA ListExists ==
  ASSUME NEW n \in Nat, NEW I \in SUBSET (1 .. n)
  PROVE  IsFiniteSet(I) /\ Cardinality(I) \in Nat /\ \E f : Lists(f, I, Cardinality(I))
  <1> DEFINE U(k) == {i \in I : i <= k}
             S == {k \in 0 .. n : IsFiniteSet(U(k)) /\ Cardinality(U(k)) \in Nat
                                  /\ \E f : Lists(f, U(k), Cardinality(U(k)))}
  <1>1. 0 \in S
    <2>1. U(0) = {}
      <3> HIDE DEF S
      <3>1. \A i \in I : i \in Nat /\ ~(i <= 0)
        OBVIOUS
      <3> QED
        BY <3>1
    <2>2. IsFiniteSet({}) /\ Cardinality({}) = 0
      BY FS_EmptySet
    <2>3. Lists([x \in 1 .. 0 |-> x], {}, 0)
      BY DEF Lists
    <2>4. IsFiniteSet(U(0)) /\ Cardinality(U(0)) = 0 /\ Lists([x \in 1 .. 0 |-> x], U(0), 0)
      BY <2>1, <2>2, <2>3
    <2> HIDE DEF U
    <2>5. \E f : Lists(f, U(0), Cardinality(U(0)))
      BY <2>4
    <2> QED
      BY <2>4, <2>5
  <1>2. ASSUME NEW k \in 0 .. n, k \in S, k < n PROVE k + 1 \in S
    <2>1. k + 1 \in 0 .. n
      BY <1>2
    <2>2. CASE k + 1 \notin I
      <3>1. U(k + 1) = U(k)
        <4>1. ASSUME NEW i \in I PROVE i <= k + 1 <=> i <= k
          <5>1. i \in Nat /\ i # k + 1
            BY <2>2
          <5> QED
            BY <5>1
        <4> HIDE DEF S
        <4> QED
          BY <4>1
      <3> HIDE DEF U
      <3> QED
        BY <1>2, <2>1, <3>1
    <2>3. CASE k + 1 \in I
      <3>1. U(k + 1) = U(k) \cup {k + 1} /\ k + 1 \notin U(k)
        <4>1. ASSUME NEW i \in I PROVE i <= k + 1 <=> i <= k \/ i = k + 1
          <5>1. i \in Nat
            OBVIOUS
          <5> QED
            BY <5>1
        <4>2. ~(k + 1 <= k) /\ k + 1 <= k + 1
          OBVIOUS
        <4> HIDE DEF S
        <4> QED
          BY <2>3, <4>1, <4>2
      <3> DEFINE c == Cardinality(U(k))
                 V == U(k)
      <3>2. IsFiniteSet(V) /\ c \in Nat
        BY <1>2
      <3>3. PICK f : Lists(f, V, c)
        BY <1>2
      <3>4. V \subseteq Nat /\ \A i \in V : i < k + 1
        <4> HIDE DEF S
        <4>1. \A i \in I : i \in Nat /\ (i <= k => i < k + 1)
          OBVIOUS
        <4> QED
          BY <4>1
      <3>5. V \cup {k + 1} = U(k + 1) /\ k + 1 \notin V
        BY <3>1
      <3>6. IsFiniteSet(V \cup {k + 1}) /\ Cardinality(V \cup {k + 1}) = c + 1
        <4>1. Cardinality(V) = c
          OBVIOUS
        <4> HIDE DEF V, c, U
        <4> QED
          BY <3>2, <3>5, <4>1, FS_AddElement
      <3> HIDE DEF c, V
      <3> DEFINE g == [x \in 1 .. (c + 1) |-> IF x <= c THEN f[x] ELSE k + 1]
      <3>7. Lists(g, V \cup {k + 1}, c + 1)
        <4>1. g \in [1 .. (c + 1) -> V \cup {k + 1}]
          <5>1. ASSUME NEW x \in 1 .. (c + 1) PROVE g[x] \in V \cup {k + 1}
            BY <3>2, <3>3 DEF Lists
          <5> QED
            BY <5>1
        <4>2. \A i \in V \cup {k + 1} : \E x \in 1 .. (c + 1) : g[x] = i
          <5> TAKE i \in V \cup {k + 1}
          <5>1. CASE i = k + 1
            <6>1. c + 1 \in 1 .. (c + 1) /\ g[c + 1] = i
              BY <3>2, <5>1
            <6> QED
              BY <6>1
          <5>2. CASE i \in V
            <6>1. PICK x \in 1 .. c : f[x] = i
              BY <3>3, <5>2 DEF Lists
            <6>2. x \in 1 .. (c + 1) /\ g[x] = i
              BY <3>2, <6>1
            <6> QED
              BY <6>2
          <5> QED
            BY <5>1, <5>2
        <4>3. ASSUME NEW x \in 1 .. (c + 1), NEW y \in 1 .. (c + 1), x < y
              PROVE  g[x] < g[y]
          <5>1. x \in 1 .. c /\ g[x] = f[x] /\ f[x] \in V
            BY <3>2, <3>3, <4>3 DEF Lists
          <5>2. CASE y = c + 1
            <6>1. g[y] = k + 1
              BY <3>2, <5>2
            <6> QED
              BY <3>4, <5>1, <6>1
          <5>3. CASE y \in 1 .. c
            <6>1. g[y] = f[y]
              BY <3>2, <5>3
            <6> QED
              BY <3>3, <4>3, <5>1, <5>3, <6>1 DEF Lists
          <5> QED
            BY <3>2, <5>2, <5>3
        <4> QED
          <5> HIDE DEF g
          <5> QED
            BY <4>1, <4>2, <4>3 DEF Lists
      <3> HIDE DEF g, U
      <3>8. c + 1 \in Nat
        BY <3>2
      <3> QED
        BY <2>1, <3>5, <3>6, <3>7, <3>8
    <2> QED
      BY <2>2, <2>3
  <1>3. U(n) = I
    <2> HIDE DEF S
    <2>1. \A i \in I : i <= n
      OBVIOUS
    <2> QED
      BY <2>1
  <1> HIDE DEF S
  <1>4. n \in S
    BY <1>1, <1>2, UpTo
  <1> HIDE DEF U
  <1> QED
    BY <1>3, <1>4 DEF S

\* I may be positions of a sequence.
Positions(I) == \E n \in Nat : I \in SUBSET (1 .. n)

\* The positions of a sequence, or some of them.
LEMMA PositionsOf ==
  ASSUME NEW S, NEW s \in Seq(S), NEW I \in SUBSET (DOMAIN s)
  PROVE  Positions(I)
  <1>1. Len(s) \in Nat /\ I \in SUBSET (1 .. Len(s))
    OBVIOUS
  <1> QED
    BY <1>1 DEF Positions

\* Any of the first n positions.
LEMMA PositionsUpTo ==
  ASSUME NEW n \in Nat, NEW I \in SUBSET (1 .. n)
  PROVE  Positions(I)
  BY DEF Positions

\* Positions can be listed in their order.
LEMMA PositionsList ==
  ASSUME NEW I, Positions(I)
  PROVE  I \in SUBSET Nat /\ Cardinality(I) \in Nat /\ \E f : Lists(f, I, Cardinality(I))
  <1>1. PICK n \in Nat : I \in SUBSET (1 .. n)
    BY DEF Positions
  <1>2. I \in SUBSET Nat
    BY <1>1
  <1> QED
    BY <1>1, <1>2, ListExists

\* What is left of a sequence is what any list of the positions gives.
LEMMA PickedIs ==
  ASSUME NEW s, NEW I, Positions(I), NEW f, NEW m \in Nat,
         Lists(f, I, m)
  PROVE  Picked(s, I) = [k \in 1 .. m |-> s[f[k]]]
  <1> DEFINE c == Cardinality(I)
             h == InOrder(I)
  <1>1. c \in Nat /\ \E g : Lists(g, I, c)
    BY PositionsList
  <1>2. PICK g : Lists(g, I, c)
    BY <1>1
  <1>3. g \in Surjection(1 .. c, I) /\ DOMAIN g = 1 .. c
    <2> HIDE DEF c
    <2> QED
      BY <1>2 DEF Lists, Surjection
  <1>4. \A j, k \in DOMAIN g : j < k => g[j] < g[k]
    <2> HIDE DEF c
    <2> QED
      BY <1>2, <1>3 DEF Lists
  <1>5. h \in Surjection(1 .. c, I) /\ \A j, k \in DOMAIN h : j < k => h[j] < h[k]
    <2> DEFINE P(x) == \A j, k \in DOMAIN x : j < k => x[j] < x[k]
    <2>1. h = CHOOSE x \in Surjection(1 .. c, I) : P(x)
      BY DEF InOrder
    <2>2. P(g)
      BY <1>4
    <2> HIDE DEF P, c, h
    <2>3. h \in Surjection(1 .. c, I) /\ P(h)
      BY <1>3, <2>1, <2>2
    <2> QED
      BY <2>3 DEF P
  <1>6. Lists(h, I, c)
    <2> HIDE DEF c, h
    <2>1. h \in [1 .. c -> I] /\ \A i \in I : \E k \in 1 .. c : h[k] = i
      BY <1>5 DEF Surjection
    <2> QED
      BY <1>5, <2>1 DEF Lists
  <1>7. Picked(s, I) = [k \in DOMAIN h |-> s[h[k]]]
    BY DEF Picked
  <1> HIDE DEF c, h
  <1>8. I \in SUBSET Nat
    BY PositionsList
  <1>9. m <= c /\ \A i \in 1 .. m : f[i] = h[i]
    <2>1. c \in Nat
      BY <1>1
    <2>2. m <= c
      BY <2>1, <1>6, <1>8, ListsAgree
    <2>3. ASSUME NEW i \in 1 .. m PROVE f[i] = h[i]
      BY <2>1, <1>6, <1>8, ListsAgree
    <2> QED
      BY <2>2, <2>3
  <1>10. c <= m
    BY <1>1, <1>6, <1>8, ListsAgree
  <1>11. c = m
    BY <1>1, <1>9, <1>10
  <1>12. DOMAIN h = 1 .. m
    BY <1>6, <1>11 DEF Lists
  <1> QED
    BY <1>7, <1>9, <1>12

\* There is such a list, so what is left can be spoken of by it.
LEMMA PickedList ==
  ASSUME NEW I, Positions(I), NEW s
  PROVE  \E m \in Nat : \E f : Lists(f, I, m) /\ Picked(s, I) = [k \in 1 .. m |-> s[f[k]]]
  <1>1. PICK m \in Nat : \E f : Lists(f, I, m)
    BY PositionsList
  <1>2. PICK f : Lists(f, I, m)
    BY <1>1
  <1>3. Picked(s, I) = [k \in 1 .. m |-> s[f[k]]]
    BY <1>2, PickedIs
  <1> QED
    BY <1>2, <1>3

\* What is left is a sequence of the same things, and empty if nothing is kept.
LEMMA PickedSeq ==
  ASSUME NEW S, NEW s \in Seq(S), NEW I \in SUBSET (DOMAIN s)
  PROVE  Picked(s, I) \in Seq(S) /\ (Picked(s, I) = <<>> <=> I = {})
  <1>1. Positions(I) /\ \A i \in I : s[i] \in S
    BY PositionsOf
  <1>2. PICK m \in Nat :
          \E f : Lists(f, I, m) /\ Picked(s, I) = [k \in 1 .. m |-> s[f[k]]]
    BY <1>1, PickedList
  <1>3. PICK f : Lists(f, I, m) /\ Picked(s, I) = [k \in 1 .. m |-> s[f[k]]]
    BY <1>2
  <1>4. \A k \in 1 .. m : f[k] \in I
    BY <1>3 DEF Lists
  <1>5. Picked(s, I) \in Seq(S)
    <2> DEFINE t == [k \in 1 .. m |-> s[f[k]]]
    <2>1. t \in [1 .. m -> S]
      BY <1>1, <1>4
    <2>2. t \in Seq(S)
      <3> HIDE DEF t
      <3> QED
        BY <2>1
    <2> QED
      BY <1>3, <2>2
  <1>6. Picked(s, I) = <<>> <=> m = 0
    <2>1. DOMAIN Picked(s, I) = 1 .. m
      BY <1>3
    <2>2. CASE m = 0
      BY <1>3, <2>2
    <2>3. CASE m # 0
      <3>1. 1 \in DOMAIN Picked(s, I)
        BY <2>1, <2>3
      <3> QED
        BY <2>3, <3>1
    <2> QED
      BY <2>2, <2>3
  <1>7. m = 0 <=> I = {}
    <2>1. CASE m = 0
      BY <1>3, <2>1 DEF Lists
    <2>2. CASE m # 0
      <3>1. 1 \in 1 .. m
        BY <2>2
      <3> QED
        BY <1>4, <2>2, <3>1
    <2> QED
      BY <2>1, <2>2
  <1> QED
    BY <1>5, <1>6, <1>7

\* Keeping everything leaves the sequence as it is.
LEMMA PickedAll ==
  ASSUME NEW S, NEW s \in Seq(S)
  PROVE  Picked(s, DOMAIN s) = s
  <1> DEFINE n == Len(s)
             f == [k \in 1 .. n |-> k]
  <1>1. n \in Nat /\ DOMAIN s = 1 .. n
    OBVIOUS
  <1> HIDE DEF n
  <1>2. Lists(f, 1 .. n, n) /\ Positions(1 .. n)
    BY <1>1, PositionsUpTo DEF Lists
  <1>3. \A k \in 1 .. n : f[k] = k
    OBVIOUS
  <1> HIDE DEF f
  <1>4. Picked(s, 1 .. n) = [k \in 1 .. n |-> s[f[k]]]
    BY <1>1, <1>2, PickedIs
  <1>5. s = [k \in 1 .. n |-> s[k]]
    BY DEF n
  <1> QED
    BY <1>1, <1>3, <1>4, <1>5

\* Only what is kept matters.
LEMMA PickedSame ==
  ASSUME NEW I, Positions(I), NEW s, NEW t,
         \A i \in I : s[i] = t[i]
  PROVE  Picked(s, I) = Picked(t, I)
  <1>1. PICK m \in Nat :
          \E f : Lists(f, I, m) /\ Picked(s, I) = [k \in 1 .. m |-> s[f[k]]]
    BY PickedList
  <1>2. PICK f : Lists(f, I, m) /\ Picked(s, I) = [k \in 1 .. m |-> s[f[k]]]
    BY <1>1
  <1>3. Picked(t, I) = [k \in 1 .. m |-> t[f[k]]]
    BY <1>2, PickedIs
  <1>4. \A k \in 1 .. m : s[f[k]] = t[f[k]]
    BY <1>2 DEF Lists
  <1> QED
    BY <1>2, <1>3, <1>4

\* Dropping in two goes is dropping in one.
LEMMA PickedTwice ==
  ASSUME NEW I, Positions(I), NEW J \in SUBSET I,
         NEW f, NEW m \in Nat, Lists(f, I, m), NEW s, NEW K \in SUBSET (1 .. m),
         \A k \in 1 .. m : k \in K <=> f[k] \in J
  PROVE  Picked(Picked(s, I), K) = Picked(s, J)
  <1> DEFINE t == Picked(s, I)
  <1>1. t = [k \in 1 .. m |-> s[f[k]]]
    BY PickedIs
  <1> HIDE DEF t
  <1>2. K \in SUBSET (1 .. m) /\ \A k \in 1 .. m : k \in K <=> f[k] \in J
    OBVIOUS
  <1>3. Positions(K)
    BY PositionsUpTo
  <1>4. PICK c \in Nat :
          \E h : Lists(h, K, c) /\ Picked(t, K) = [k \in 1 .. c |-> t[h[k]]]
    BY <1>3, PickedList
  <1>5. PICK h : Lists(h, K, c) /\ Picked(t, K) = [k \in 1 .. c |-> t[h[k]]]
    BY <1>4
  <1> DEFINE g == [k \in 1 .. c |-> f[h[k]]]
  <1>6. \A k \in 1 .. c : h[k] \in K /\ h[k] \in 1 .. m /\ g[k] = f[h[k]] /\ g[k] \in J
    BY <1>2, <1>5 DEF Lists
  <1>7. Lists(g, J, c)
    <2>1. g \in [1 .. c -> J]
      BY <1>6
    <2>2. ASSUME NEW i \in J PROVE \E k \in 1 .. c : g[k] = i
      <3>1. PICK j \in 1 .. m : f[j] = i
        BY DEF Lists
      <3>2. j \in K
        BY <1>2, <2>2, <3>1
      <3>3. PICK k \in 1 .. c : h[k] = j
        BY <1>5, <3>2 DEF Lists
      <3> QED
        BY <1>6, <3>1, <3>3
    <2>3. ASSUME NEW j \in 1 .. c, NEW k \in 1 .. c, j < k PROVE g[j] < g[k]
      <3>1. h[j] < h[k]
        BY <1>5, <2>3 DEF Lists
      <3>2. f[h[j]] < f[h[k]]
        BY <1>6, <3>1 DEF Lists
      <3> QED
        BY <1>6, <3>2
    <2> HIDE DEF g
    <2> QED
      BY <2>1, <2>2, <2>3 DEF Lists
  <1> HIDE DEF g
  <1>8. Positions(J)
    BY DEF Positions
  <1>9. Picked(s, J) = [k \in 1 .. c |-> s[g[k]]]
    BY <1>7, <1>8, PickedIs
  <1>10. \A k \in 1 .. c : t[h[k]] = s[g[k]]
    BY <1>1, <1>6
  <1> QED
    BY <1>5, <1>9, <1>10 DEF t

-----------------------------------------------------------------------------
(* Groups and their entries                                                *)

\* What is theirs in a group is a group, and of no entries none is theirs.
LEMMA TheirsSeq ==
  ASSUME NEW S, NEW g \in Seq(S)
  PROVE  Theirs(g) \in Seq(S) /\ (g = <<>> => Theirs(g) = <<>>)
  <1> DEFINE I == {k \in DOMAIN g : ~AnyOurs(g[k])}
  <1>1. I \in SUBSET (DOMAIN g) /\ (g = <<>> => I = {})
    OBVIOUS
  <1>2. Theirs(g) = Picked(g, I)
    BY DEF Theirs
  <1> HIDE DEF I
  <1> QED
    BY <1>1, <1>2, PickedSeq

\* What is theirs of what is left by a loop that leaves theirs alone.
LEMMA TheirsPicked ==
  ASSUME NEW I, Positions(I), NEW s,
         NEW J \in SUBSET I, \A i \in I : i \in J <=> ~AnyOurs(s[i])
  PROVE  Theirs(Picked(s, I)) = Picked(s, J)
  <1> DEFINE P == Picked(s, I)
             K == {k \in DOMAIN P : ~AnyOurs(P[k])}
  <1>1. PICK m \in Nat :
          \E f : Lists(f, I, m) /\ Picked(s, I) = [k \in 1 .. m |-> s[f[k]]]
    BY PickedList
  <1>2. PICK f : Lists(f, I, m) /\ Picked(s, I) = [k \in 1 .. m |-> s[f[k]]]
    BY <1>1
  <1>3. DOMAIN P = 1 .. m /\ \A k \in 1 .. m : P[k] = s[f[k]] /\ f[k] \in I
    BY <1>2 DEF Lists
  <1>4. Theirs(P) = Picked(P, K)
    BY DEF Theirs
  <1> HIDE DEF P
  <1>5. K \in SUBSET (1 .. m) /\ \A k \in 1 .. m : k \in K <=> f[k] \in J
    BY <1>3
  <1> HIDE DEF K
  <1>6. Picked(Picked(s, I), K) = Picked(s, J)
    BY <1>2, <1>5, PickedTwice
  <1> QED
    BY <1>4, <1>6 DEF P

\* What is theirs of what is theirs is all of it.
LEMMA TheirsTwice ==
  ASSUME NEW S, NEW g \in Seq(S)
  PROVE  Theirs(Theirs(g)) = Theirs(g)
  <1> DEFINE I == {k \in DOMAIN g : ~AnyOurs(g[k])}
  <1>1. I \in SUBSET (DOMAIN g) /\ I \in SUBSET I /\ \A i \in I : i \in I <=> ~AnyOurs(g[i])
    OBVIOUS
  <1>2. Theirs(g) = Picked(g, I)
    BY DEF Theirs
  <1> HIDE DEF I
  <1>3. Positions(I)
    BY <1>1, PositionsOf
  <1> QED
    BY <1>1, <1>2, <1>3, TheirsPicked

\* Of the groups K of new, those at J have something of theirs, T, or were empty.
Stripped(new, K, T, J) ==
  /\ Positions(K) /\ J \in SUBSET K
  /\ \A n \in K : T[n] = Theirs(new[n]) /\ (n \in J <=> new[n] = <<>> \/ T[n] # <<>>)

\* What the removal leaves of the groups a loop has left.
LEMMA RemovePicked ==
  ASSUME NEW K, NEW new, NEW T, NEW J, Stripped(new, K, T, J)
  PROVE  RemoveEvent(Picked(new, K)) = Picked(T, J)
  <1>1. /\ Positions(K) /\ J \in SUBSET K /\ (\A n \in K : T[n] = Theirs(new[n]))
        /\ \A n \in K : n \in J <=> new[n] = <<>> \/ T[n] # <<>>
    BY DEF Stripped
  <1>2. PICK m \in Nat :
          \E f : Lists(f, K, m) /\ Picked(new, K) = [k \in 1 .. m |-> new[f[k]]]
    BY <1>1, PickedList
  <1>3. PICK f : Lists(f, K, m) /\ Picked(new, K) = [k \in 1 .. m |-> new[f[k]]]
    BY <1>2
  <1>4. \A k \in 1 .. m : f[k] \in K
    BY <1>3 DEF Lists
  <1> DEFINE P == Picked(new, K)
             Q == [k \in DOMAIN P |-> Theirs(P[k])]
             L == {k \in DOMAIN P : P[k] = <<>> \/ Q[k] # <<>>}
  <1>5. RemoveEvent(P) = Picked(Q, L)
    BY DEF RemoveEvent
  <1>6. DOMAIN P = 1 .. m /\ \A k \in 1 .. m : P[k] = new[f[k]]
    BY <1>3
  <1> HIDE DEF P
  <1>7. \A k \in 1 .. m : T[f[k]] = Theirs(P[k])
    BY <1>4, <1>6, <1>1
  <1>8. Picked(T, K) = [k \in 1 .. m |-> T[f[k]]]
    BY <1>3, <1>1, PickedIs
  <1>9. Q = [k \in 1 .. m |-> T[f[k]]]
    BY <1>6, <1>7
  <1>10. L \in SUBSET (1 .. m) /\ \A k \in 1 .. m : k \in L <=> f[k] \in J
    BY <1>4, <1>6, <1>7, <1>1
  <1> HIDE DEF Q, L
  <1>11. Picked(Picked(T, K), L) = Picked(T, J)
    BY <1>3, <1>10, <1>1, PickedTwice
  <1> QED
    BY <1>5, <1>8, <1>9, <1>11 DEF P

\* A second removal finds nothing.
LEMMA RemoveTwice ==
  ASSUME NEW S, NEW groups \in Seq(Seq(S))
  PROVE  RemoveEvent(RemoveEvent(groups)) = RemoveEvent(groups)
  <1> DEFINE T == [n \in DOMAIN groups |-> Theirs(groups[n])]
             K == {n \in DOMAIN groups : groups[n] = <<>> \/ T[n] # <<>>}
  <1>1. RemoveEvent(groups) = Picked(T, K)
    BY DEF RemoveEvent
  <1>2. \A n \in DOMAIN groups : groups[n] \in Seq(S)
    OBVIOUS
  <1>3. \A n \in DOMAIN groups : T[n] = Theirs(T[n])
    BY <1>2, TheirsTwice
  <1>4. K \in SUBSET (DOMAIN groups)
    OBVIOUS
  <1> HIDE DEF T, K
  <1>5. Positions(K)
    BY <1>4, PositionsOf
  <1>6. \A n \in K : T[n] = Theirs(T[n])
    BY <1>3, <1>4
  <1>7. Stripped(T, K, T, K)
    BY <1>5, <1>6 DEF Stripped
  <1>8. RemoveEvent(Picked(T, K)) = Picked(T, K)
    BY <1>7, RemovePicked
  <1> QED
    BY <1>1, <1>8

\* A set of positions has a first.
LEMMA FirstOf ==
  ASSUME NEW I \in SUBSET Nat, I # {}
  PROVE  \E i \in I : \A j \in I : i <= j
  <1> DEFINE R == {ss \in Nat \X Nat : ss[1] < ss[2]}
  <1>1. IsWellFoundedOn(R, Nat)
    BY NatLessThanWellFounded DEF OpToRel
  <1>2. \A i, m \in Nat : i < m => <<i, m>> \in R
    OBVIOUS
  <1>3. PICK m \in I : \A i \in I : ~(<<i, m>> \in R)
    <2> HIDE DEF R
    <2> QED BY <1>1, WFMin
  <1>4. ASSUME NEW i \in I PROVE m <= i
    <2>1. i \in Nat /\ m \in Nat
      OBVIOUS
    <2>2. ~(i < m)
      BY <1>2, <1>3, <2>1
    <2> QED
      BY <2>1, <2>2
  <1> QED
    BY <1>4

\* The entry written for an event is one the next run takes for its own.
LEMMA EntryOurs ==
  ASSUME NEW e \in Event, NEW in
  PROVE  Ours(Entry(in, e), e) /\ \A x : Ours(x, e) => AnyOurs(x)
  BY DEF Ours, AnyOurs, Entry, Command

\* What Collapsed drops, and what it puts in its place.
Put(g, e, in, first) ==
  [k \in DOMAIN g |-> IF k \in first THEN Entry(in, e) ELSE g[k]]
FirstMine(g, e, found) ==
  IF found THEN {} ELSE {k \in Mine(g, e) : \A j \in Mine(g, e) : k <= j}
Stays(g, e, found) == (DOMAIN g \ Mine(g, e)) \cup FirstMine(g, e, found)

\* Collapsed by the entries that stay (I) and what each then is (h): of ours only
\* the first stays, as the entry asked for.
LEMMA CollapsedIs ==
  ASSUME NEW S, NEW g \in Seq(S), NEW e \in Event, NEW in, Entry(in, e) \in S,
         NEW found, NEW h, h = Put(g, e, in, FirstMine(g, e, found)),
         NEW I, I = Stays(g, e, found)
  PROVE  /\ Collapsed(g, e, in, found) = Picked(h, I)
         /\ h \in Seq(S) /\ DOMAIN h = DOMAIN g /\ I \in SUBSET (DOMAIN g) /\ Positions(I)
         /\ FirstMine(g, e, found) \subseteq Mine(g, e) /\ Mine(g, e) \subseteq DOMAIN g
         /\ \A i \in DOMAIN g : i \notin Mine(g, e) => h[i] = g[i] /\ i \in I
         /\ \A i \in FirstMine(g, e, found) : h[i] = Entry(in, e) /\ i \in I
         /\ \A i \in I : Ours(h[i], e) <=> i \in FirstMine(g, e, found)
  <1> DEFINE F == FirstMine(g, e, found)
             M == Mine(g, e)
  <1>1. F \subseteq M /\ M \subseteq DOMAIN g /\ \A i \in DOMAIN g : i \in M <=> Ours(g[i], e)
    BY DEF FirstMine, Mine
  <1>2. h = [k \in DOMAIN g |-> IF k \in F THEN Entry(in, e) ELSE g[k]]
    BY DEF Put
  <1>3. I = (DOMAIN g \ M) \cup F
    BY DEF Stays
  <1>4. Collapsed(g, e, in, found) = Picked(h, I)
    BY <1>2, <1>3 DEF Collapsed, FirstMine
  <1> HIDE DEF F, M
  <1>5. DOMAIN h = DOMAIN g /\ \A i \in DOMAIN g :
          h[i] = IF i \in F THEN Entry(in, e) ELSE g[i]
    BY <1>2
  <1>6. h \in Seq(S)
    <2>1. DOMAIN g = 1 .. Len(g) /\ Len(g) \in Nat /\ \A i \in DOMAIN g : g[i] \in S
      OBVIOUS
    <2>2. h \in [1 .. Len(g) -> S]
      <3>1. \A i \in 1 .. Len(g) : (IF i \in F THEN Entry(in, e) ELSE g[i]) \in S
        BY <2>1
      <3>2. h = [k \in 1 .. Len(g) |-> IF k \in F THEN Entry(in, e) ELSE g[k]]
        BY <1>2, <2>1
      <3> QED
        BY <3>1, <3>2
    <2> QED
      BY <2>1, <2>2
  <1>7. I \in SUBSET (DOMAIN g)
    BY <1>1, <1>3
  <1>8. Positions(I)
    BY <1>7, PositionsOf
  <1>9. \A i \in I : Ours(h[i], e) <=> i \in F
    BY <1>1, <1>3, <1>5, EntryOurs
  <1>10. /\ \A i \in DOMAIN g : i \notin M => h[i] = g[i] /\ i \in I
         /\ \A i \in F : h[i] = Entry(in, e) /\ i \in I
    BY <1>1, <1>3, <1>5
  <1> QED
    BY <1>1, <1>4, <1>5, <1>6, <1>7, <1>8, <1>9, <1>10 DEF F, M

\* A group stays a group, and what is theirs in it stays as it is.
LEMMA CollapsedSeq ==
  ASSUME NEW S, NEW g \in Seq(S), NEW e \in Event, NEW in, Entry(in, e) \in S, NEW found
  PROVE  /\ Collapsed(g, e, in, found) \in Seq(S)
         /\ g = <<>> => Collapsed(g, e, in, found) = <<>>
         /\ Theirs(Collapsed(g, e, in, found)) = Theirs(g)
  <1>1. PICK h : h = Put(g, e, in, FirstMine(g, e, found))
    OBVIOUS
  <1>2. PICK I : I = Stays(g, e, found)
    OBVIOUS
  <1>3. PICK C : C = Collapsed(g, e, in, found)
    OBVIOUS
  <1>4. /\ C = Picked(h, I)
        /\ h \in Seq(S) /\ DOMAIN h = DOMAIN g /\ I \in SUBSET (DOMAIN g) /\ Positions(I)
        /\ FirstMine(g, e, found) \subseteq Mine(g, e) /\ Mine(g, e) \subseteq DOMAIN g
        /\ \A i \in DOMAIN g : i \notin Mine(g, e) => h[i] = g[i] /\ i \in I
        /\ \A i \in FirstMine(g, e, found) : h[i] = Entry(in, e) /\ i \in I
        /\ \A i \in I : Ours(h[i], e) <=> i \in FirstMine(g, e, found)
    BY <1>1, <1>2, <1>3, CollapsedIs
  <1>5. C \in Seq(S) /\ (g = <<>> => C = <<>>)
    <2>1. Picked(h, I) \in Seq(S) /\ (Picked(h, I) = <<>> <=> I = {})
      BY <1>4, PickedSeq
    <2>2. g = <<>> => I = {}
      BY <1>4
    <2> QED
      BY <1>4, <2>1, <2>2
  <1> DEFINE J == {k \in DOMAIN g : ~AnyOurs(g[k])}
  <1>6. \A k \in DOMAIN g : k \in Mine(g, e) <=> Ours(g[k], e)
    BY DEF Mine
  <1>7. \A k \in J : h[k] = g[k] /\ k \in I
    BY <1>4, <1>6, EntryOurs
  <1>8. \A i \in I : i \in J <=> ~AnyOurs(h[i])
    <2> TAKE i \in I
    <2>1. CASE i \in FirstMine(g, e, found)
      <3>1. h[i] = Entry(in, e) /\ Ours(g[i], e)
        BY <1>4, <1>6, <2>1
      <3> QED
        BY <3>1, EntryOurs
    <2>2. CASE i \notin FirstMine(g, e, found)
      <3>1. ~Ours(h[i], e) /\ i \in DOMAIN g
        BY <1>4, <2>2
      <3>2. i \notin Mine(g, e)
        BY <1>2, <2>2 DEF Stays
      <3>3. h[i] = g[i]
        BY <1>4, <3>1, <3>2
      <3> QED
        BY <3>1, <3>3
    <2> QED
      BY <2>1, <2>2
  <1>9. Theirs(g) = Picked(g, J)
    BY DEF Theirs
  <1>10. J \in SUBSET (DOMAIN g)
    OBVIOUS
  <1> HIDE DEF J
  <1>11. J \in SUBSET I
    BY <1>7
  <1>12. Theirs(Picked(h, I)) = Picked(h, J)
    BY <1>4, <1>8, <1>11, TheirsPicked
  <1>13. Positions(J)
    BY <1>10, PositionsOf
  <1>14. Picked(h, J) = Picked(g, J)
    BY <1>7, <1>13, PickedSame
  <1> QED
    BY <1>3, <1>4, <1>5, <1>9, <1>12, <1>14

\* One entry of g is for e, and it is what in asks for.
Alone(g, e, in) == \E k \in DOMAIN g : g[k] = Entry(in, e) /\ Mine(g, e) = {k}

\* A registration that is not the first is dropped; the first is what is asked for.
LEMMA CollapsedMine ==
  ASSUME NEW S, NEW g \in Seq(S), NEW e \in Event, NEW in, Entry(in, e) \in S, NEW found
  PROVE  /\ FirstMine(g, e, found) = {} => Mine(Collapsed(g, e, in, found), e) = {}
         /\ FirstMine(g, e, found) # {} => Alone(Collapsed(g, e, in, found), e, in)
  <1>1. PICK h : h = Put(g, e, in, FirstMine(g, e, found))
    OBVIOUS
  <1>2. PICK I : I = Stays(g, e, found)
    OBVIOUS
  <1>3. PICK C : C = Collapsed(g, e, in, found)
    OBVIOUS
  <1>4. PICK F : F = FirstMine(g, e, found)
    OBVIOUS
  <1>5. /\ C = Picked(h, I)
        /\ I \in SUBSET (DOMAIN g) /\ Positions(I) /\ F \subseteq I
        /\ \A i \in F : h[i] = Entry(in, e)
        /\ \A i \in I : Ours(h[i], e) <=> i \in F
    BY <1>1, <1>2, <1>3, <1>4, CollapsedIs
  <1>6. PICK m \in Nat :
          \E f : Lists(f, I, m) /\ Picked(h, I) = [k \in 1 .. m |-> h[f[k]]]
    BY <1>5, PickedList
  <1>7. PICK f : Lists(f, I, m) /\ Picked(h, I) = [k \in 1 .. m |-> h[f[k]]]
    BY <1>6
  <1>8. DOMAIN C = 1 .. m /\ \A k \in 1 .. m : C[k] = h[f[k]] /\ f[k] \in I
    BY <1>5, <1>7 DEF Lists
  <1>9. Mine(C, e) \subseteq 1 .. m /\ \A k \in 1 .. m : k \in Mine(C, e) <=> f[k] \in F
    BY <1>5, <1>8 DEF Mine
  <1>10. F = {} => Mine(C, e) = {}
    BY <1>9
  <1>11. ASSUME F # {} PROVE Alone(C, e, in)
    <2>1. PICK p \in F : TRUE
      BY <1>11
    <2>2. \A q \in F : q = p
      <3> SUFFICES ASSUME NEW q \in F PROVE q = p
        OBVIOUS
      <3>1. p \in Mine(g, e) /\ q \in Mine(g, e) /\ p <= q /\ q <= p
        BY <1>4 DEF FirstMine
      <3>2. p \in Nat /\ q \in Nat
        <4>1. DOMAIN g = 1 .. Len(g) /\ Len(g) \in Nat
          OBVIOUS
        <4> QED
          BY <1>5, <4>1
      <3> QED
        BY <3>1, <3>2
    <2>3. PICK k \in 1 .. m : f[k] = p
      BY <1>5, <1>7 DEF Lists
    <2>4. ASSUME NEW j \in Mine(C, e) PROVE j = k
      <3>1. j \in 1 .. m /\ f[j] = f[k]
        BY <1>9, <2>2, <2>3
      <3>2. f[j] \in Nat /\ f[k] \in Nat
        <4>1. DOMAIN g = 1 .. Len(g) /\ Len(g) \in Nat
          OBVIOUS
        <4> QED
          BY <1>5, <1>8, <3>1, <4>1
      <3>3. ~(f[j] < f[k]) /\ ~(f[k] < f[j])
        BY <3>1, <3>2
      <3>4. ~(j < k) /\ ~(k < j)
        BY <1>7, <3>1, <3>3 DEF Lists
      <3> QED
        BY <3>1, <3>4
    <2>5. k \in Mine(C, e) /\ C[k] = Entry(in, e) /\ k \in DOMAIN C
      BY <1>5, <1>8, <1>9, <2>3
    <2>6. Mine(C, e) = {k}
      BY <2>4, <2>5
    <2> QED
      BY <2>5, <2>6 DEF Alone
  <1> QED
    BY <1>3, <1>4, <1>10, <1>11

\* There is a first of ours to update unless one was found before, or there is none.
LEMMA FirstExists ==
  ASSUME NEW S, NEW g \in Seq(S), NEW e
  PROVE  /\ FirstMine(g, e, TRUE) = {}
         /\ FirstMine(g, e, FALSE) = {} <=> Mine(g, e) = {}
  <1>1. FirstMine(g, e, TRUE) = {}
    BY DEF FirstMine
  <1>2. FirstMine(g, e, FALSE) = {k \in Mine(g, e) : \A j \in Mine(g, e) : k <= j}
    BY DEF FirstMine
  <1>3. Mine(g, e) \in SUBSET Nat
    <2>1. DOMAIN g = 1 .. Len(g) /\ Len(g) \in Nat
      OBVIOUS
    <2> QED
      BY <2>1 DEF Mine
  <1>4. Mine(g, e) # {} => \E k \in Mine(g, e) : \A j \in Mine(g, e) : k <= j
    BY <1>3, FirstOf
  <1> QED
    BY <1>1, <1>2, <1>4

\* A group whose registration is the one asked for, or that has none, stays as it is.
LEMMA CollapsedSame ==
  ASSUME NEW S, NEW g \in Seq(S), NEW e \in Event, NEW in, Entry(in, e) \in S, NEW found,
         Mine(g, e) = {} \/ (~found /\ Alone(g, e, in))
  PROVE  Collapsed(g, e, in, found) = g
  <1>1. PICK h : h = Put(g, e, in, FirstMine(g, e, found))
    OBVIOUS
  <1>2. PICK I : I = Stays(g, e, found)
    OBVIOUS
  <1>3. /\ Collapsed(g, e, in, found) = Picked(h, I)
        /\ h \in Seq(S) /\ DOMAIN h = DOMAIN g /\ I \in SUBSET (DOMAIN g) /\ Positions(I)
        /\ FirstMine(g, e, found) \subseteq Mine(g, e) /\ Mine(g, e) \subseteq DOMAIN g
        /\ \A i \in DOMAIN g : i \notin Mine(g, e) => h[i] = g[i] /\ i \in I
        /\ \A i \in FirstMine(g, e, found) : h[i] = Entry(in, e) /\ i \in I
    BY <1>1, <1>2, CollapsedIs
  <1>4. \A i \in Mine(g, e) : i \in FirstMine(g, e, found) /\ g[i] = Entry(in, e)
    <2>1. CASE Mine(g, e) = {}
      BY <2>1
    <2>2. CASE ~found /\ Alone(g, e, in)
      <3>1. PICK k \in DOMAIN g : Mine(g, e) = {k} /\ g[k] = Entry(in, e)
        BY <2>2 DEF Alone
      <3>2. k \in Nat
        OBVIOUS
      <3>3. k <= k
        BY <3>2
      <3>4. k \in FirstMine(g, e, found)
        BY <2>2, <3>1, <3>3 DEF FirstMine
      <3> QED
        BY <3>1, <3>4
    <2> QED
      BY <2>1, <2>2
  <1>5. \A i \in DOMAIN g : h[i] = g[i] /\ i \in I
    BY <1>3, <1>4
  <1>6. I = DOMAIN g
    BY <1>3, <1>5
  <1>7. Positions(DOMAIN g)
    BY <1>3, <1>6
  <1>8. Picked(h, DOMAIN g) = Picked(g, DOMAIN g)
    BY <1>5, <1>7, PickedSame
  <1>9. Picked(g, DOMAIN g) = g
    BY PickedAll
  <1> QED
    BY <1>3, <1>6, <1>8, <1>9

FoundIn(groups, e, n) == \E m \in 1 .. n : Mine(groups[m], e) # {}

\* What one event's groups become (kept, of which K stay).
Applied(groups, e, in, kept, K) ==
  /\ \A n \in DOMAIN groups :
       kept[n] = Collapsed(groups[n], e, in, FoundIn(groups, e, n - 1))
  /\ \A n \in DOMAIN groups : n \in K <=> groups[n] = <<>> \/ kept[n] # <<>>
  /\ ApplyEvent(groups, e, in) =
       IF FoundIn(groups, e, Len(groups)) THEN Picked(kept, K)
       ELSE Append(Picked(kept, K), <<Entry(in, e)>>)

\* ApplyEvent by the groups it makes (kept) and the ones of them that stay (K).
LEMMA ApplyParts ==
  ASSUME NEW S, NEW groups \in Seq(Seq(S)), NEW e \in Event, NEW in, Entry(in, e) \in S
  PROVE  \E kept \in Seq(Seq(S)) : \E K \in SUBSET (DOMAIN groups) :
           /\ DOMAIN kept = DOMAIN groups /\ Positions(K)
           /\ Picked(kept, K) \in Seq(Seq(S))
           /\ Applied(groups, e, in, kept, K)
  <1> DEFINE kept == [n \in DOMAIN groups |->
                        Collapsed(groups[n], e, in, FoundIn(groups, e, n - 1))]
             K == {n \in DOMAIN groups : groups[n] = <<>> \/ kept[n] # <<>>}
  <1>1. DOMAIN groups = 1 .. Len(groups) /\ Len(groups) \in Nat
    OBVIOUS
  <1>2. \A n \in DOMAIN groups : groups[n] \in Seq(S)
    OBVIOUS
  <1>3. kept \in [1 .. Len(groups) -> Seq(S)]
    <2>1. \A n \in 1 .. Len(groups) :
            Collapsed(groups[n], e, in, FoundIn(groups, e, n - 1)) \in Seq(S)
      BY <1>1, <1>2, CollapsedSeq
    <2> QED
      BY <1>1, <2>1
  <1>4. ApplyEvent(groups, e, in) =
          IF FoundIn(groups, e, Len(groups)) THEN Picked(kept, K)
          ELSE Append(Picked(kept, K), <<Entry(in, e)>>)
    BY DEF ApplyEvent, FoundIn
  <1>5. \A n \in DOMAIN groups :
          kept[n] = Collapsed(groups[n], e, in, FoundIn(groups, e, n - 1))
    OBVIOUS
  <1>6. K \in SUBSET (DOMAIN groups)
        /\ \A n \in DOMAIN groups : n \in K <=> groups[n] = <<>> \/ kept[n] # <<>>
    OBVIOUS
  <1> HIDE DEF kept, K
  <1>7. kept \in Seq(Seq(S)) /\ DOMAIN kept = DOMAIN groups
    <2> DEFINE n == Len(groups)
               G == Seq(S)
    <2>1. n \in Nat /\ kept \in [1 .. n -> G] /\ DOMAIN groups = 1 .. n
      BY <1>1, <1>3
    <2> HIDE DEF n, G
    <2>2. kept \in Seq(G) /\ DOMAIN kept = 1 .. n
      BY <2>1
    <2> QED
      BY <2>1, <2>2 DEF G
  <1>8. Positions(K) /\ Picked(kept, K) \in Seq(Seq(S))
    BY <1>6, <1>7, PositionsOf, PickedSeq
  <1>9. Applied(groups, e, in, kept, K)
    BY <1>4, <1>5, <1>6 DEF Applied
  <1> QED
    BY <1>6, <1>7, <1>8, <1>9

\* What is appended comes last.
LEMMA AppendSeq ==
  ASSUME NEW S, NEW s \in Seq(S), NEW x \in S
  PROVE  /\ Append(s, x) \in Seq(S) /\ Append(s, x) # <<>>
         /\ DOMAIN Append(s, x) = DOMAIN s \cup {Len(s) + 1} /\ Len(s) + 1 \notin DOMAIN s
         /\ Append(s, x)[Len(s) + 1] = x /\ \A k \in DOMAIN s : Append(s, x)[k] = s[k]
  OBVIOUS

\* A group in which nothing is theirs goes with the registrations.
LEMMA RemoveAppend ==
  ASSUME NEW S, NEW groups \in Seq(Seq(S)), NEW g \in Seq(S), g # <<>>, Theirs(g) = <<>>
  PROVE  RemoveEvent(Append(groups, g)) = RemoveEvent(groups)
  <1> DEFINE a == Append(groups, g)
             T == [n \in DOMAIN groups |-> Theirs(groups[n])]
             K == {n \in DOMAIN groups : groups[n] = <<>> \/ T[n] # <<>>}
             U == [n \in DOMAIN a |-> Theirs(a[n])]
             L == {n \in DOMAIN a : a[n] = <<>> \/ U[n] # <<>>}
  <1>1. RemoveEvent(groups) = Picked(T, K) /\ RemoveEvent(a) = Picked(U, L)
    BY DEF RemoveEvent
  <1>2. /\ DOMAIN a = DOMAIN groups \cup {Len(groups) + 1} /\ Len(groups) + 1 \notin DOMAIN groups
        /\ a[Len(groups) + 1] = g /\ \A k \in DOMAIN groups : a[k] = groups[k]
    BY AppendSeq
  <1>3. K \in SUBSET (DOMAIN groups)
    OBVIOUS
  <1> HIDE DEF a
  <1>4. \A n \in DOMAIN groups : U[n] = T[n]
    BY <1>2
  <1>5. U[Len(groups) + 1] = <<>>
    BY <1>2
  <1>6. L = K
    BY <1>2, <1>4, <1>5
  <1> HIDE DEF T, K, U, L
  <1>7. Positions(K)
    BY <1>3, PositionsOf
  <1>8. \A n \in K : U[n] = T[n]
    BY <1>3, <1>4
  <1>9. Picked(U, K) = Picked(T, K)
    BY <1>7, <1>8, PickedSame
  <1> QED
    BY <1>1, <1>6, <1>9 DEF a

\* A group made for the entry holds nothing else, so nothing of theirs.
LEMMA EntryAlone ==
  ASSUME NEW e \in Event, NEW in, NEW S, Entry(in, e) \in S
  PROVE  /\ <<Entry(in, e)>> \in Seq(S) /\ <<Entry(in, e)>> # <<>>
         /\ Theirs(<<Entry(in, e)>>) = <<>>
         /\ DOMAIN <<Entry(in, e)>> = {1} /\ <<Entry(in, e)>>[1] = Entry(in, e)
         /\ Mine(<<Entry(in, e)>>, e) = {1}
  <1>1. PICK x \in S : x = Entry(in, e)
    OBVIOUS
  <1>2. PICK g : g = <<x>>
    OBVIOUS
  <1>3. g \in Seq(S) /\ g # <<>> /\ DOMAIN g = {1} /\ g[1] = x
    BY <1>2
  <1>4. Ours(x, e) /\ AnyOurs(x)
    BY <1>1, EntryOurs
  <1>5. Mine(g, e) = {1}
    BY <1>3, <1>4 DEF Mine
  <1>6. Theirs(g) = <<>>
    <2> DEFINE I == {k \in DOMAIN g : ~AnyOurs(g[k])}
    <2>1. I = {} /\ I \in SUBSET (DOMAIN g)
      BY <1>3, <1>4
    <2>2. Theirs(g) = Picked(g, I)
      BY DEF Theirs
    <2> HIDE DEF I
    <2> QED
      BY <1>3, <2>1, <2>2, PickedSeq
  <1> QED
    BY <1>1, <1>2, <1>3, <1>5, <1>6

\* What is registered is what the removal takes away.
LEMMA RemoveApply ==
  ASSUME NEW S, NEW groups \in Seq(Seq(S)), NEW e \in Event, NEW in, Entry(in, e) \in S
  PROVE  RemoveEvent(ApplyEvent(groups, e, in)) = RemoveEvent(groups)
  <1>1. PICK kept \in Seq(Seq(S)), K \in SUBSET (DOMAIN groups) :
          /\ DOMAIN kept = DOMAIN groups /\ Positions(K)
          /\ Picked(kept, K) \in Seq(Seq(S))
          /\ Applied(groups, e, in, kept, K)
    BY ApplyParts
  <1> DEFINE T == [n \in DOMAIN groups |-> Theirs(groups[n])]
             J == {n \in DOMAIN groups : groups[n] = <<>> \/ T[n] # <<>>}
  <1>2. RemoveEvent(groups) = Picked(T, J)
    BY DEF RemoveEvent
  <1>3. \A n \in DOMAIN groups :
          /\ T[n] = Theirs(kept[n]) /\ (groups[n] = <<>> => kept[n] = <<>>)
          /\ kept[n] = <<>> => T[n] = <<>>
    <2> TAKE n \in DOMAIN groups
    <2>1. groups[n] \in Seq(S)
      OBVIOUS
    <2>2. kept[n] = Collapsed(groups[n], e, in, FoundIn(groups, e, n - 1))
      BY <1>1 DEF Applied
    <2>3. Theirs(kept[n]) = Theirs(groups[n]) /\ (groups[n] = <<>> => kept[n] = <<>>)
      BY <2>1, <2>2, CollapsedSeq
    <2>4. kept[n] = <<>> => Theirs(kept[n]) = <<>>
      <3>1. kept[n] \in Seq(S)
        BY <1>1
      <3> QED
        BY <3>1, TheirsSeq
    <2> QED
      BY <2>3, <2>4
  <1>4. \A n \in DOMAIN groups : n \in J <=> groups[n] = <<>> \/ T[n] # <<>>
    OBVIOUS
  <1>5. \A n \in DOMAIN groups : n \in K <=> groups[n] = <<>> \/ kept[n] # <<>>
    BY <1>1 DEF Applied
  <1>6. J \in SUBSET (DOMAIN groups)
    OBVIOUS
  <1> HIDE DEF T, J
  <1>7. Stripped(kept, K, T, J)
    <2>1. J \in SUBSET K /\ \A n \in K : n \in J <=> kept[n] = <<>> \/ T[n] # <<>>
      BY <1>3, <1>4, <1>5, <1>6
    <2> QED
      BY <1>1, <1>3, <2>1 DEF Stripped
  <1>8. RemoveEvent(Picked(kept, K)) = Picked(T, J)
    BY <1>7, RemovePicked
  <1>9. RemoveEvent(Append(Picked(kept, K), <<Entry(in, e)>>)) = RemoveEvent(Picked(kept, K))
    BY <1>1, EntryAlone, RemoveAppend
  <1> QED
    BY <1>1, <1>2, <1>8, <1>9 DEF Applied

\* The removal leaves groups of entries, and of no groups none.
LEMMA RemoveSeq ==
  ASSUME NEW S, NEW groups \in Seq(Seq(S))
  PROVE  /\ RemoveEvent(groups) \in Seq(Seq(S))
         /\ groups = <<>> => RemoveEvent(groups) = <<>>
  <1> DEFINE T == [n \in DOMAIN groups |-> Theirs(groups[n])]
             K == {n \in DOMAIN groups : groups[n] = <<>> \/ T[n] # <<>>}
             n == Len(groups)
             G == Seq(S)
  <1>1. RemoveEvent(groups) = Picked(T, K)
    BY DEF RemoveEvent
  <1>2. n \in Nat /\ DOMAIN groups = 1 .. n /\ \A k \in DOMAIN groups : groups[k] \in G
    OBVIOUS
  <1>3. \A k \in DOMAIN groups : Theirs(groups[k]) \in G
    BY <1>2, TheirsSeq
  <1>4. K \in SUBSET (DOMAIN groups) /\ DOMAIN T = DOMAIN groups
    OBVIOUS
  <1> HIDE DEF n, G
  <1>5. T \in [1 .. n -> G]
    BY <1>2, <1>3
  <1> HIDE DEF T, K
  <1>6. T \in Seq(G)
    BY <1>2, <1>5
  <1>7. Picked(T, K) \in Seq(G) /\ (Picked(T, K) = <<>> <=> K = {})
    BY <1>4, <1>6, PickedSeq
  <1>8. groups = <<>> => K = {}
    BY <1>4
  <1> QED
    BY <1>1, <1>7, <1>8 DEF G

\* The registration leaves groups of entries.
LEMMA ApplySeq ==
  ASSUME NEW S, NEW groups \in Seq(Seq(S)), NEW e \in Event, NEW in, Entry(in, e) \in S
  PROVE  ApplyEvent(groups, e, in) \in Seq(Seq(S))
  <1>1. PICK kept \in Seq(Seq(S)), K \in SUBSET (DOMAIN groups) :
          /\ Picked(kept, K) \in Seq(Seq(S))
          /\ Applied(groups, e, in, kept, K)
    BY ApplyParts
  <1>2. Append(Picked(kept, K), <<Entry(in, e)>>) \in Seq(Seq(S))
    BY <1>1, EntryAlone, AppendSeq
  <1> QED
    BY <1>1, <1>2 DEF Applied

\* Whatever was registered, one registration is left, and it is the one asked for.
LEMMA ApplyOnce ==
  ASSUME NEW S, NEW groups \in Seq(Seq(S)), NEW e \in Event, NEW in, Entry(in, e) \in S
  PROVE  RegisteredOnce(ApplyEvent(groups, e, in), e, in)
  <1>1. PICK kept \in Seq(Seq(S)), K \in SUBSET (DOMAIN groups) :
          /\ DOMAIN kept = DOMAIN groups /\ Positions(K)
          /\ Picked(kept, K) \in Seq(Seq(S))
          /\ Applied(groups, e, in, kept, K)
    BY ApplyParts
  <1>2. PICK m \in Nat :
          \E f : Lists(f, K, m) /\ Picked(kept, K) = [k \in 1 .. m |-> kept[f[k]]]
    BY <1>1, PickedList
  <1>3. PICK f : Lists(f, K, m) /\ Picked(kept, K) = [k \in 1 .. m |-> kept[f[k]]]
    BY <1>2
  <1>4. PICK left : left = Picked(kept, K)
    OBVIOUS
  <1>5. DOMAIN left = 1 .. m /\ \A k \in 1 .. m : left[k] = kept[f[k]] /\ f[k] \in K
    BY <1>3, <1>4 DEF Lists
  <1>6. DOMAIN groups = 1 .. Len(groups) /\ Len(groups) \in Nat
    OBVIOUS
  <1>7. ASSUME NEW n \in DOMAIN groups
        PROVE  /\ FoundIn(groups, e, n - 1) => Mine(kept[n], e) = {}
               /\ Mine(groups[n], e) = {} => Mine(kept[n], e) = {}
               /\ ~FoundIn(groups, e, n - 1) /\ Mine(groups[n], e) # {} =>
                    Alone(kept[n], e, in)
    <2>1. groups[n] \in Seq(S)
      OBVIOUS
    <2>2. PICK found \in BOOLEAN : found = FoundIn(groups, e, n - 1)
      BY DEF FoundIn
    <2>3. kept[n] = Collapsed(groups[n], e, in, found)
      BY <1>1, <2>2 DEF Applied
    <2>4. /\ found = TRUE => FirstMine(groups[n], e, found) = {}
          /\ found = FALSE =>
               (FirstMine(groups[n], e, found) = {} <=> Mine(groups[n], e) = {})
      BY <2>1, FirstExists
    <2>5. /\ FirstMine(groups[n], e, found) = {} => Mine(kept[n], e) = {}
          /\ FirstMine(groups[n], e, found) # {} => Alone(kept[n], e, in)
      BY <2>1, <2>3, CollapsedMine
    <2> QED
      BY <2>2, <2>4, <2>5
  <1>8. CASE FoundIn(groups, e, Len(groups))
    <2> DEFINE H == {n \in DOMAIN groups : Mine(groups[n], e) # {}}
    <2>1. H \in SUBSET Nat /\ H # {}
      <3>1. PICK n \in 1 .. Len(groups) : Mine(groups[n], e) # {}
        BY <1>8 DEF FoundIn
      <3>2. n \in H
        BY <1>6, <3>1
      <3>3. \A j \in H : j \in Nat
        BY <1>6
      <3> QED
        BY <3>2, <3>3
    <2>2. PICK p \in H : \A j \in H : p <= j
      <3> HIDE DEF H
      <3> QED
        BY <2>1, FirstOf
    <2>3. ~FoundIn(groups, e, p - 1)
      <3>1. ASSUME NEW j \in 1 .. (p - 1) PROVE Mine(groups[j], e) = {}
        <4>1. j \in DOMAIN groups /\ ~(p <= j)
          BY <1>6
        <4> QED
          BY <2>2, <4>1
      <3> QED
        BY <3>1 DEF FoundIn
    <2>4. PICK k \in DOMAIN kept[p] :
            kept[p][k] = Entry(in, e) /\ Mine(kept[p], e) = {k}
      <3>1. Alone(kept[p], e, in)
        BY <1>7, <2>2, <2>3
      <3> QED
        BY <3>1 DEF Alone
    <2>5. ASSUME NEW n \in DOMAIN groups, n # p PROVE Mine(kept[n], e) = {}
      <3>1. CASE Mine(groups[n], e) = {}
        BY <1>7, <3>1
      <3>2. CASE Mine(groups[n], e) # {}
        <4>1. p <= n /\ p \in 1 .. (n - 1)
          BY <1>6, <2>2, <2>5, <3>2
        <4>2. FoundIn(groups, e, n - 1)
          BY <2>2, <4>1 DEF FoundIn
        <4> QED
          BY <1>7, <4>2
      <3> QED
        BY <3>1, <3>2
    <2>6. p \in K
      <3>1. kept[p] # <<>>
        BY <2>4
      <3> QED
        BY <1>1, <2>2, <3>1 DEF Applied
    <2>7. PICK q \in 1 .. m : f[q] = p
      BY <1>3, <2>6 DEF Lists
    <2>8. ASSUME NEW j \in 1 .. m, j # q PROVE Mine(left[j], e) = {}
      <3>1. f[j] < f[q] \/ f[q] < f[j]
        BY <1>3, <2>8 DEF Lists
      <3>2. f[j] \in DOMAIN groups /\ f[j] # p
        <4>1. f[j] \in DOMAIN groups
          BY <1>5
        <4>2. p \in Nat /\ ~(p < p)
          BY <1>6, <2>2
        <4> QED
          BY <2>7, <3>1, <4>1, <4>2
      <3> QED
        BY <1>5, <2>5, <3>2
    <2>9. left[q] = kept[p] /\ q \in DOMAIN left
      BY <1>5, <2>7
    <2>10. RegisteredOnce(left, e, in)
      BY <1>5, <2>4, <2>8, <2>9 DEF RegisteredOnce
    <2> QED
      BY <1>1, <1>4, <1>8, <2>10 DEF Applied
  <1>9. CASE ~FoundIn(groups, e, Len(groups))
    <2>1. \A n \in DOMAIN groups : Mine(groups[n], e) = {}
      BY <1>6, <1>9 DEF FoundIn
    <2>2. \A j \in 1 .. m : Mine(left[j], e) = {}
      <3> TAKE j \in 1 .. m
      <3>1. f[j] \in DOMAIN groups /\ left[j] = kept[f[j]]
        BY <1>5
      <3> QED
        BY <1>7, <2>1, <3>1
    <2>3. PICK g \in Seq(S) : g = <<Entry(in, e)>>
      BY EntryAlone
    <2>4. PICK a : a = Append(left, g)
      OBVIOUS
    <2>5. /\ DOMAIN a = DOMAIN left \cup {Len(left) + 1} /\ a[Len(left) + 1] = g
          /\ \A k \in DOMAIN left : a[k] = left[k]
      BY <1>1, <1>4, <2>4, AppendSeq
    <2>6. 1 \in DOMAIN g /\ g[1] = Entry(in, e) /\ Mine(g, e) = {1}
      BY <2>3, EntryAlone
    <2>7. RegisteredOnce(a, e, in)
      <3>1. \A j \in DOMAIN a : j # Len(left) + 1 => Mine(a[j], e) = {}
        BY <1>5, <2>2, <2>5
      <3> QED
        BY <2>5, <2>6, <3>1 DEF RegisteredOnce
    <2>8. ApplyEvent(groups, e, in) = a
      BY <1>1, <1>4, <1>9, <2>3, <2>4 DEF Applied
    <2> QED
      BY <2>7, <2>8
  <1> QED
    BY <1>8, <1>9

\* What is registered as it is asked for stays as it is.
LEMMA ApplySame ==
  ASSUME NEW S, NEW groups \in Seq(Seq(S)), NEW e \in Event, NEW in, Entry(in, e) \in S,
         RegisteredOnce(groups, e, in)
  PROVE  ApplyEvent(groups, e, in) = groups
  <1>1. PICK kept \in Seq(Seq(S)), K \in SUBSET (DOMAIN groups) :
          /\ DOMAIN kept = DOMAIN groups /\ Positions(K)
          /\ Applied(groups, e, in, kept, K)
    BY ApplyParts
  <1>2. PICK p \in DOMAIN groups :
          /\ Alone(groups[p], e, in)
          /\ \A m \in DOMAIN groups : m # p => Mine(groups[m], e) = {}
    BY DEF RegisteredOnce, Alone
  <1>3. DOMAIN groups = 1 .. Len(groups) /\ Len(groups) \in Nat
    OBVIOUS
  <1>4. FoundIn(groups, e, Len(groups))
    BY <1>2, <1>3 DEF FoundIn, Alone
  <1>5. ~FoundIn(groups, e, p - 1)
    <2>1. \A m \in 1 .. (p - 1) : m \in DOMAIN groups /\ m # p
      BY <1>3
    <2> QED
      BY <1>2, <2>1 DEF FoundIn
  <1>6. ASSUME NEW n \in DOMAIN groups PROVE kept[n] = groups[n]
    <2>1. groups[n] \in Seq(S)
      OBVIOUS
    <2>2. PICK found \in BOOLEAN : found = FoundIn(groups, e, n - 1)
      BY DEF FoundIn
    <2>3. kept[n] = Collapsed(groups[n], e, in, found)
      BY <1>1, <2>2 DEF Applied
    <2>4. Mine(groups[n], e) = {} \/ (~found /\ Alone(groups[n], e, in))
      BY <1>2, <1>5, <2>2
    <2> QED
      BY <2>1, <2>3, <2>4, CollapsedSame
  <1>7. K = DOMAIN groups
    BY <1>1, <1>6 DEF Applied
  <1>8. ApplyEvent(groups, e, in) = Picked(kept, K)
    BY <1>1, <1>4 DEF Applied
  <1>9. Picked(kept, K) = Picked(groups, K)
    BY <1>1, <1>6, <1>7, PickedSame
  <1>10. Picked(groups, DOMAIN groups) = groups
    BY PickedAll
  <1> QED
    BY <1>7, <1>8, <1>9, <1>10

-----------------------------------------------------------------------------
(* Documents and what the editors make of them                             *)

\* What is written for a registration is an entry.
LEMMA EntryType ==
  ASSUME NEW in \in Install, NEW e \in Event
  PROVE  Entry(in, e) \in Entries
  <1>1. in \in [line : Text, compose : Text \cup {"none"}, timeout : Nat \ {0}]
        /\ Allowance \in Nat
    BY InstallAssumption
  <1>2. Command(in, e) \in Commands
    <2>1. in.line \in Text /\ in.compose \in Text \cup {"none"} /\ in.timeout \in Nat
      BY <1>1
    <2>2. (IF Composed(in, e) THEN in.compose ELSE "none") \in Text \cup {"none"}
      BY <2>1
    <2>3. (IF Composed(in, e) THEN in.timeout ELSE 0) \in Nat
      BY <2>1
    <2> QED
      BY <2>1, <2>2, <2>3 DEF Command, Commands
  <1>3. TimeoutFor(in, e) \in Nat
    BY <1>1 DEF TimeoutFor, Composed
  <1> QED
    BY <1>2, <1>3 DEF Entry, Entries

\* Dropping the rule leaves rules, drops it for good, and without it nothing.
LEMMA RulesLeft ==
  ASSUME NEW rules \in Seq(Text)
  PROVE  /\ OtherRules(rules) \in Seq(Text)
         /\ OtherRules(OtherRules(rules)) = OtherRules(rules)
         /\ AllowRule \notin Range(rules) => OtherRules(rules) = rules
         /\ rules = <<>> => OtherRules(rules) = <<>>
  <1> DEFINE I == {k \in DOMAIN rules : rules[k] # AllowRule}
  <1>1. OtherRules(rules) = Picked(rules, I)
    BY DEF OtherRules
  <1>2. I \in SUBSET (DOMAIN rules)
    OBVIOUS
  <1>3. AllowRule \notin Range(rules) => I = DOMAIN rules
    BY DEF Range
  <1>4. \A k \in I : rules[k] # AllowRule
    OBVIOUS
  <1>5. rules = <<>> => I = {}
    OBVIOUS
  <1> HIDE DEF I
  <1>6. Positions(I) /\ Picked(rules, I) \in Seq(Text)
        /\ (Picked(rules, I) = <<>> <=> I = {})
    BY <1>2, PositionsOf, PickedSeq
  <1>7. Picked(rules, DOMAIN rules) = rules
    BY PickedAll
  <1>8. PICK P \in Seq(Text) : P = Picked(rules, I)
    BY <1>6
  <1>9. \A k \in DOMAIN P : P[k] # AllowRule
    <2>1. PICK m \in Nat :
            \E f : Lists(f, I, m) /\ Picked(rules, I) = [k \in 1 .. m |-> rules[f[k]]]
      BY <1>6, PickedList
    <2>2. PICK f : Lists(f, I, m) /\ Picked(rules, I) = [k \in 1 .. m |-> rules[f[k]]]
      BY <2>1
    <2>3. \A k \in 1 .. m : f[k] \in I
      BY <2>2 DEF Lists
    <2> QED
      BY <1>4, <1>8, <2>2, <2>3
  <1>10. OtherRules(P) = P
    <2>1. {k \in DOMAIN P : P[k] # AllowRule} = DOMAIN P
      BY <1>9
    <2>2. OtherRules(P) = Picked(P, DOMAIN P)
      BY <2>1 DEF OtherRules
    <2> QED
      BY <2>2, PickedAll
  <1> QED
    BY <1>1, <1>3, <1>5, <1>6, <1>7, <1>8, <1>10

\* The rule that is added is what the removal drops.
LEMMA RulesAppend ==
  ASSUME NEW rules \in Seq(Text)
  PROVE  /\ OtherRules(Append(rules, AllowRule)) = OtherRules(rules)
         /\ Append(rules, AllowRule) \in Seq(Text)
         /\ Append(rules, AllowRule) # rules /\ Append(rules, AllowRule) # <<>>
         /\ AllowRule \in Range(Append(rules, AllowRule))
  <1>1. PICK a : a = Append(rules, AllowRule)
    OBVIOUS
  <1>2. /\ a \in Seq(Text) /\ a # <<>>
        /\ DOMAIN a = DOMAIN rules \cup {Len(rules) + 1} /\ Len(rules) + 1 \notin DOMAIN rules
        /\ a[Len(rules) + 1] = AllowRule /\ \A k \in DOMAIN rules : a[k] = rules[k]
    BY <1>1, InstallAssumption, AppendSeq
  <1> DEFINE I == {k \in DOMAIN rules : rules[k] # AllowRule}
             J == {k \in DOMAIN a : a[k] # AllowRule}
  <1>3. I = J /\ I \in SUBSET (DOMAIN rules) /\ \A k \in I : a[k] = rules[k]
    BY <1>2
  <1>4. OtherRules(rules) = Picked(rules, I) /\ OtherRules(a) = Picked(a, J)
    BY DEF OtherRules
  <1> HIDE DEF I, J
  <1>5. Positions(I)
    BY <1>3, PositionsOf
  <1>6. Picked(a, I) = Picked(rules, I)
    BY <1>3, <1>5, PickedSame
  <1>7. AllowRule \in Range(a)
    BY <1>2 DEF Range
  <1> QED
    BY <1>1, <1>2, <1>3, <1>4, <1>6, <1>7

\* What is foreign in a document is what the removal leaves of its lists.
LEMMA ForeignIs ==
  ASSUME NEW d
  PROVE  Foreign(d) = [at |-> [e \in Event |-> RemoveEvent(d.hooks.at[e].groups)],
                       other |-> d.hooks.other,
                       rules |-> OtherRules(d.permissions.allow.rules),
                       rest |-> d.permissions.other]
  BY DEF Foreign, ForeignGroups, RemoveEvent, Theirs, OtherRules

HooksDecoded(h) ==
  /\ h.kind # "object" => h.at = NoHooks.at /\ ~h.other
  /\ \A e \in Event : h.at[e].kind # "array" => h.at[e].groups = <<>>

RulesDecoded(p) ==
  /\ p.kind # "object" => p.allow = NoRules /\ ~p.other
  /\ p.allow.kind # "array" => p.allow.rules = <<>>

\* Decoded is of the hooks and of the permissions apart.
LEMMA DecodedIs ==
  ASSUME NEW d
  PROVE  Decoded(d) <=> HooksDecoded(d.hooks) /\ RulesDecoded(d.permissions)
  BY DEF Decoded, HooksDecoded, RulesDecoded

\* The document of a file that is not there can be edited.
LEMMA EmptyDocument == Empty \in Documents /\ Decoded(Empty) /\ Readable(Empty)
  <1>1. NoGroups \in GroupLists /\ NoRules \in RuleLists
    <2>1. <<>> \in Seq(Seq(Entries)) /\ <<>> \in Seq(Text)
      OBVIOUS
    <2> QED
      BY <2>1 DEF NoGroups, NoRules, GroupLists, RuleLists, ListKinds
  <1>2. NoHooks \in HookObjects
    BY <1>1 DEF NoHooks, HookObjects, ObjectKinds
  <1>3. NoPermissions \in PermissionObjects
    BY <1>1 DEF NoPermissions, PermissionObjects, ObjectKinds
  <1>4. Empty \in Documents
    BY <1>2, <1>3 DEF Empty, Documents
  <1>5. Decoded(Empty) /\ Readable(Empty)
    BY DEF Decoded, Readable, HooksReadable, RulesReadable, Empty, NoHooks, NoGroups,
           NoPermissions, NoRules
  <1> QED
    BY <1>4, <1>5

\* Adding the rule: it is there, once and for all, and the other rules are as they were.
LEMMA AddRule ==
  ASSUME NEW p \in PermissionObjects, RulesDecoded(p)
  PROVE  /\ AddAllowRule(p) \in PermissionObjects /\ RulesDecoded(AddAllowRule(p))
         /\ p.allow.kind # "odd" => AddAllowRule(p).allow.kind # "odd"
         /\ p.kind # "odd" => AddAllowRule(p).kind # "odd"
         /\ AllowRule \in Range(AddAllowRule(p).allow.rules)
         /\ AddAllowRule(AddAllowRule(p)) = AddAllowRule(p)
         /\ OtherRules(AddAllowRule(p).allow.rules) = OtherRules(p.allow.rules)
         /\ AddAllowRule(p).other = p.other
  <1>1. p.allow \in RuleLists /\ p.allow.rules \in Seq(Text)
    BY DEF PermissionObjects, RuleLists
  <1>2. CASE AllowRule \in Range(p.allow.rules)
    BY <1>2 DEF AddAllowRule
  <1>3. CASE AllowRule \notin Range(p.allow.rules)
    <2>1. PICK r \in Seq(Text) : r = Append(p.allow.rules, AllowRule)
      BY <1>1, RulesAppend
    <2>2. OtherRules(r) = OtherRules(p.allow.rules) /\ AllowRule \in Range(r)
      BY <1>1, <2>1, RulesAppend
    <2>3. PICK a : a = [kind |-> "array", rules |-> r]
      OBVIOUS
    <2>4. a \in RuleLists /\ a.kind = "array" /\ a.rules = r
      BY <2>3 DEF RuleLists, ListKinds
    <2>5. AddAllowRule(p) = [p EXCEPT !.kind = "object", !.allow = a]
      BY <1>3, <2>1, <2>3 DEF AddAllowRule
    <2>6. AddAllowRule(p) = [kind |-> "object", allow |-> a, other |-> p.other]
          /\ p.other \in BOOLEAN
      BY <2>5 DEF PermissionObjects
    <2>7. AddAllowRule(p) \in PermissionObjects
      BY <2>4, <2>6 DEF PermissionObjects, ObjectKinds
    <2>8. RulesDecoded(AddAllowRule(p))
      BY <2>4, <2>6 DEF RulesDecoded
    <2>9. AddAllowRule(AddAllowRule(p)) = AddAllowRule(p)
      BY <2>2, <2>4, <2>6 DEF AddAllowRule
    <2> QED
      BY <2>2, <2>4, <2>6, <2>7, <2>8, <2>9
  <1> QED
    BY <1>2, <1>3

\* Without a rule to remove nothing is touched.
LEMMA NoRuleToRemove ==
  ASSUME NEW p, OtherRules(p.allow.rules) = p.allow.rules
  PROVE  RemoveAllowRule(p) = p
  BY DEF RemoveAllowRule

\* Removing the rule, of permissions that are what the decoder gives.
LEMMA RemoveRule ==
  ASSUME NEW p \in PermissionObjects, RulesDecoded(p)
  PROVE  /\ RemoveAllowRule(p) \in PermissionObjects /\ RulesDecoded(RemoveAllowRule(p))
         /\ p.allow.kind # "odd" => RemoveAllowRule(p).allow.kind # "odd"
         /\ p.kind # "odd" => RemoveAllowRule(p).kind # "odd"
         /\ RemoveAllowRule(RemoveAllowRule(p)) = RemoveAllowRule(p)
         /\ RemoveAllowRule(p).allow.rules = OtherRules(p.allow.rules)
         /\ RemoveAllowRule(p).other = p.other
  <1>1. p.allow \in RuleLists /\ p.allow.rules \in Seq(Text)
    BY DEF PermissionObjects, RuleLists
  <1>2. PICK kept : kept = OtherRules(p.allow.rules)
    OBVIOUS
  <1>3. kept \in Seq(Text) /\ OtherRules(kept) = kept
        /\ (p.allow.rules = <<>> => kept = <<>>)
    BY <1>1, <1>2, RulesLeft
  <1>4. CASE kept = p.allow.rules
    BY <1>2, <1>4 DEF RemoveAllowRule
  <1>5. CASE kept # p.allow.rules /\ kept # <<>>
    <2>1. RemoveAllowRule(p) = [p EXCEPT !.allow.rules = kept]
      BY <1>2, <1>5 DEF RemoveAllowRule
    <2>2. PICK a : a = [kind |-> p.allow.kind, rules |-> kept]
      OBVIOUS
    <2>3. a \in RuleLists /\ a.kind = p.allow.kind /\ a.rules = kept
      BY <1>1, <1>3, <2>2 DEF RuleLists
    <2>4. RemoveAllowRule(p) = [kind |-> p.kind, allow |-> a, other |-> p.other]
      BY <1>1, <2>1, <2>2 DEF PermissionObjects, RuleLists
    <2>5. RemoveAllowRule(p) \in PermissionObjects
      BY <2>3, <2>4 DEF PermissionObjects
    <2>6. p.allow.rules # <<>> /\ p.allow.kind = "array" /\ p.kind = "object"
      BY <1>3, <1>5 DEF RulesDecoded, NoRules
    <2>7. RulesDecoded(RemoveAllowRule(p))
      BY <2>3, <2>4, <2>6 DEF RulesDecoded
    <2>8. RemoveAllowRule(RemoveAllowRule(p)) = RemoveAllowRule(p)
      <3>1. OtherRules(RemoveAllowRule(p).allow.rules) = RemoveAllowRule(p).allow.rules
        BY <1>3, <2>3, <2>4
      <3> QED
        BY <3>1, NoRuleToRemove
    <2> QED
      BY <1>2, <2>3, <2>4, <2>5, <2>6, <2>7, <2>8
  <1>6. CASE kept # p.allow.rules /\ kept = <<>>
    <2>1. NoRules \in RuleLists /\ NoRules.rules = <<>> /\ NoRules.kind = "absent"
      <3>1. <<>> \in Seq(Text)
        OBVIOUS
      <3> QED
        BY <3>1 DEF NoRules, RuleLists, ListKinds
    <2>2. OtherRules(<<>>) = <<>>
      BY <1>3, <1>6
    <2>3. CASE p.other
      <3>1. RemoveAllowRule(p) = [p EXCEPT !.allow = NoRules]
        BY <1>2, <1>6, <2>3 DEF RemoveAllowRule
      <3>2. RemoveAllowRule(p) = [kind |-> p.kind, allow |-> NoRules, other |-> p.other]
        BY <3>1 DEF PermissionObjects
      <3>3. RemoveAllowRule(p) \in PermissionObjects
        BY <2>1, <3>2 DEF PermissionObjects
      <3>4. RulesDecoded(RemoveAllowRule(p))
        BY <2>1, <2>3, <3>2 DEF RulesDecoded
      <3>5. RemoveAllowRule(RemoveAllowRule(p)) = RemoveAllowRule(p)
        <4>1. OtherRules(RemoveAllowRule(p).allow.rules) = RemoveAllowRule(p).allow.rules
          BY <2>1, <2>2, <3>2
        <4> QED
          BY <4>1, NoRuleToRemove
      <3> QED
        BY <1>2, <1>6, <2>1, <3>2, <3>3, <3>4, <3>5
    <2>4. CASE ~p.other
      <3>1. RemoveAllowRule(p) = NoPermissions
        BY <1>2, <1>6, <2>4 DEF RemoveAllowRule
      <3>2. NoPermissions = [kind |-> "absent", allow |-> NoRules, other |-> FALSE]
        BY DEF NoPermissions
      <3>3. NoPermissions \in PermissionObjects
        BY <2>1, <3>2 DEF PermissionObjects, ObjectKinds
      <3>4. RulesDecoded(NoPermissions)
        BY <2>1, <3>2 DEF RulesDecoded
      <3>5. RemoveAllowRule(NoPermissions) = NoPermissions
        <4>1. OtherRules(NoPermissions.allow.rules) = NoPermissions.allow.rules
          BY <2>1, <2>2, <3>2
        <4> QED
          BY <4>1, NoRuleToRemove
      <3>6. p.other = FALSE
        BY <2>4 DEF PermissionObjects
      <3>7. NoPermissions.allow.kind = "absent" /\ NoPermissions.allow.rules = <<>>
            /\ NoPermissions.kind = "absent" /\ NoPermissions.other = FALSE
        BY <2>1, <3>2
      <3> HIDE DEF NoPermissions
      <3> QED
        BY <1>2, <1>6, <3>1, <3>3, <3>4, <3>5, <3>6, <3>7
    <2> QED
      BY <2>3, <2>4
  <1> QED
    BY <1>4, <1>5, <1>6

\* The groups of one event after the removal.
EventLeft(h, e) ==
  IF h.at[e].groups # <<>> /\ RemoveEvent(h.at[e].groups) = <<>> THEN NoGroups
  ELSE [h.at[e] EXCEPT !.groups = RemoveEvent(h.at[e].groups)]

\* What is left under an event is what the decoder gives, and the next removal
\* leaves it alone.
LEMMA EventLeftIs ==
  ASSUME NEW h \in HookObjects, HooksDecoded(h), NEW e \in Event
  PROVE  /\ EventLeft(h, e) \in GroupLists
         /\ EventLeft(h, e).groups = RemoveEvent(h.at[e].groups)
         /\ EventLeft(h, e).kind # "array" => EventLeft(h, e).groups = <<>>
         /\ h.at[e].kind # "odd" => EventLeft(h, e).kind # "odd"
         /\ RemoveEvent(EventLeft(h, e).groups) = EventLeft(h, e).groups
         /\ [EventLeft(h, e) EXCEPT !.groups = EventLeft(h, e).groups] = EventLeft(h, e)
         /\ h.at[e] = NoGroups => EventLeft(h, e) = NoGroups
  <1>1. h.at[e] \in GroupLists
    BY DEF HookObjects
  <1>2. PICK v \in GroupLists : v = h.at[e]
    BY <1>1
  <1>3. v.groups \in Seq(Seq(Entries)) /\ v.kind \in ListKinds
    BY DEF GroupLists
  <1>4. PICK left : left = RemoveEvent(v.groups)
    OBVIOUS
  <1>5. left \in Seq(Seq(Entries)) /\ RemoveEvent(left) = left
        /\ (v.groups = <<>> => left = <<>>)
    BY <1>3, <1>4, RemoveSeq, RemoveTwice
  <1>6. v.kind # "array" => v.groups = <<>>
    BY <1>2 DEF HooksDecoded
  <1>7. EventLeft(h, e) = IF v.groups # <<>> /\ left = <<>> THEN NoGroups
                          ELSE [v EXCEPT !.groups = left]
    BY <1>2, <1>4 DEF EventLeft
  <1>8. NoGroups \in GroupLists /\ NoGroups.groups = <<>> /\ NoGroups.kind = "absent"
        /\ [NoGroups EXCEPT !.groups = NoGroups.groups] = NoGroups
    <2>1. <<>> \in Seq(Seq(Entries))
      OBVIOUS
    <2> QED
      BY <2>1 DEF NoGroups, GroupLists, ListKinds
  <1>9. CASE v.groups # <<>> /\ left = <<>>
    BY <1>2, <1>4, <1>5, <1>7, <1>8, <1>9
  <1>10. CASE ~(v.groups # <<>> /\ left = <<>>)
    <2>1. PICK r : r = [kind |-> v.kind, groups |-> left]
      OBVIOUS
    <2>2. EventLeft(h, e) = r
      BY <1>7, <1>10, <2>1 DEF GroupLists
    <2>3. r \in GroupLists /\ r.kind = v.kind /\ r.groups = left
          /\ [r EXCEPT !.groups = r.groups] = r
      BY <1>3, <1>5, <2>1 DEF GroupLists
    <2>4. v = NoGroups => r = NoGroups
      BY <1>5, <2>1 DEF NoGroups
    <2> QED
      BY <1>2, <1>4, <1>5, <1>6, <2>2, <2>3, <2>4
  <1> QED
    BY <1>9, <1>10

\* An event nothing is removed from is not touched.
LEMMA EventLeftSame ==
  ASSUME NEW h \in HookObjects, NEW e \in Event,
         RemoveEvent(h.at[e].groups) = h.at[e].groups
  PROVE  EventLeft(h, e) = h.at[e]
  <1>1. PICK v \in GroupLists : v = h.at[e]
    BY DEF HookObjects
  <1>2. EventLeft(h, e) = [v EXCEPT !.groups = v.groups]
    BY <1>1 DEF EventLeft
  <1>3. [v EXCEPT !.groups = v.groups] = v
    BY DEF GroupLists
  <1> QED
    BY <1>1, <1>2, <1>3

\* RemoveHooks by what is left under each event.
LEMMA RemoveHooksIs ==
  ASSUME NEW h \in HookObjects, NEW at, at = [e \in Event |-> EventLeft(h, e)]
  PROVE  RemoveHooks(h) =
           IF at # h.at /\ ~h.other /\ \A e \in Event : at[e] = NoGroups THEN NoHooks
           ELSE [kind |-> h.kind, at |-> at, other |-> h.other]
  <1>1. at = [e \in Event |-> IF h.at[e].groups # <<>> /\ RemoveEvent(h.at[e].groups) = <<>>
                              THEN NoGroups
                              ELSE [h.at[e] EXCEPT !.groups = RemoveEvent(h.at[e].groups)]]
    BY DEF EventLeft
  <1>2. RemoveHooks(h) =
          IF at # h.at /\ ~h.other /\ \A e \in Event : at[e] = NoGroups THEN NoHooks
          ELSE [h EXCEPT !.at = at]
    BY <1>1 DEF RemoveHooks
  <1>3. [h EXCEPT !.at = at] = [kind |-> h.kind, at |-> at, other |-> h.other]
    <2>1. PICK x : x = at
      OBVIOUS
    <2>2. [h EXCEPT !.at = x] = [kind |-> h.kind, at |-> x, other |-> h.other]
      BY DEF HookObjects
    <2> QED
      BY <2>1, <2>2
  <1> QED
    BY <1>2, <1>3

\* Hooks nothing is removed from are not touched.
LEMMA NothingToRemove ==
  ASSUME NEW h \in HookObjects,
         \A e \in Event : RemoveEvent(h.at[e].groups) = h.at[e].groups
  PROVE  RemoveHooks(h) = h
  <1>1. PICK at : at = [e \in Event |-> EventLeft(h, e)]
    OBVIOUS
  <1>2. at = h.at
    <2>1. h.at = [e \in Event |-> h.at[e]]
      BY DEF HookObjects
    <2>2. \A e \in Event : EventLeft(h, e) = h.at[e]
      BY EventLeftSame
    <2> QED
      BY <1>1, <2>1, <2>2
  <1>3. RemoveHooks(h) = [kind |-> h.kind, at |-> at, other |-> h.other]
    BY <1>1, <1>2, RemoveHooksIs
  <1> QED
    BY <1>2, <1>3 DEF HookObjects

\* Removing the hooks, of an object that is what the decoder gives.
LEMMA HooksLeft ==
  ASSUME NEW h \in HookObjects, HooksDecoded(h)
  PROVE  /\ RemoveHooks(h) \in HookObjects /\ HooksDecoded(RemoveHooks(h))
         /\ RemoveHooks(h).other = h.other
         /\ \A e \in Event :
              /\ RemoveHooks(h).at[e].groups = RemoveEvent(h.at[e].groups)
              /\ h.at[e].kind # "odd" => RemoveHooks(h).at[e].kind # "odd"
         /\ h.kind # "odd" => RemoveHooks(h).kind # "odd"
         /\ RemoveHooks(RemoveHooks(h)) = RemoveHooks(h)
  <1>1. PICK at : at = [e \in Event |-> EventLeft(h, e)]
    OBVIOUS
  <1>2. \A e \in Event :
          /\ at[e] \in GroupLists
          /\ at[e].groups = RemoveEvent(h.at[e].groups)
          /\ at[e].kind # "array" => at[e].groups = <<>>
          /\ h.at[e].kind # "odd" => at[e].kind # "odd"
          /\ RemoveEvent(at[e].groups) = at[e].groups
          /\ h.at[e] = NoGroups => at[e] = NoGroups
    BY <1>1, EventLeftIs
  <1>3. at \in [Event -> GroupLists]
    BY <1>1, <1>2
  <1>4. h.other \in BOOLEAN /\ h.kind \in ObjectKinds
    BY DEF HookObjects
  <1>5. NoHooks = [kind |-> "absent", at |-> [e \in Event |-> NoGroups], other |-> FALSE]
        /\ NoGroups.groups = <<>> /\ NoGroups.kind = "absent"
    BY DEF NoHooks, NoGroups
  <1>6. CASE at # h.at /\ ~h.other /\ \A e \in Event : at[e] = NoGroups
    <2>1. RemoveHooks(h) = NoHooks
      BY <1>1, <1>6, RemoveHooksIs
    <2>2. NoHooks.at = at /\ NoHooks.other = h.other /\ NoHooks.kind = "absent"
      BY <1>1, <1>4, <1>5, <1>6
    <2>3. NoHooks \in HookObjects
      <3>1. NoHooks = [kind |-> "absent", at |-> at, other |-> h.other]
        BY <1>5, <2>2
      <3> QED
        BY <1>3, <1>4, <3>1 DEF HookObjects, ObjectKinds
    <2>4. HooksDecoded(NoHooks)
      BY <1>2, <1>6, <2>2 DEF HooksDecoded
    <2>5. RemoveHooks(NoHooks) = NoHooks
      <3> HIDE DEF NoHooks
      <3> QED
        BY <1>2, <2>2, <2>3, NothingToRemove
    <2> QED
      BY <1>2, <2>1, <2>2, <2>3, <2>4, <2>5
  <1>7. CASE ~(at # h.at /\ ~h.other /\ \A e \in Event : at[e] = NoGroups)
    <2>1. PICK r : r = [kind |-> h.kind, at |-> at, other |-> h.other]
      OBVIOUS
    <2>2. RemoveHooks(h) = r
      BY <1>1, <1>7, <2>1, RemoveHooksIs
    <2>3. r \in HookObjects /\ r.at = at /\ r.kind = h.kind /\ r.other = h.other
      BY <1>3, <1>4, <2>1 DEF HookObjects
    <2>4. HooksDecoded(r)
      <3>1. ASSUME h.kind # "object" PROVE at = NoHooks.at /\ ~h.other
        <4>1. h.at = [e \in Event |-> NoGroups] /\ ~h.other
          BY <1>5, <3>1 DEF HooksDecoded
        <4>2. at = [e \in Event |-> NoGroups]
          BY <1>1, <1>2, <4>1
        <4> QED
          BY <1>5, <4>1, <4>2
      <3> QED
        BY <1>2, <2>3, <3>1 DEF HooksDecoded
    <2>5. RemoveHooks(r) = r
      BY <1>2, <2>3, NothingToRemove
    <2> QED
      BY <1>2, <2>2, <2>3, <2>4, <2>5
  <1> QED
    BY <1>6, <1>7

\* The removal: the file can still be read, what is foreign in it is as it was, and
\* removing again changes nothing.
LEMMA UnregisterKeeps ==
  ASSUME NEW d \in Documents, Decoded(d)
  PROVE  /\ Unregister(d) \in Documents /\ Decoded(Unregister(d))
         /\ Readable(d) => Readable(Unregister(d))
         /\ Foreign(Unregister(d)) = Foreign(d)
         /\ Unregister(Unregister(d)) = Unregister(d)
  <1>1. d.hooks \in HookObjects /\ d.permissions \in PermissionObjects /\ d.object \in BOOLEAN
    BY DEF Documents
  <1>2. HooksDecoded(d.hooks) /\ RulesDecoded(d.permissions)
    BY DecodedIs
  <1>3. PICK h : h = RemoveHooks(d.hooks)
    OBVIOUS
  <1>4. PICK p : p = RemoveAllowRule(d.permissions)
    OBVIOUS
  <1>5. /\ h \in HookObjects /\ HooksDecoded(h) /\ h.other = d.hooks.other
        /\ \A e \in Event :
              /\ h.at[e].groups = RemoveEvent(d.hooks.at[e].groups)
              /\ d.hooks.at[e].kind # "odd" => h.at[e].kind # "odd"
        /\ d.hooks.kind # "odd" => h.kind # "odd"
        /\ RemoveHooks(h) = h
    BY <1>1, <1>2, <1>3, HooksLeft
  <1>6. /\ p \in PermissionObjects /\ RulesDecoded(p)
        /\ d.permissions.allow.kind # "odd" => p.allow.kind # "odd"
        /\ d.permissions.kind # "odd" => p.kind # "odd"
        /\ RemoveAllowRule(p) = p
        /\ p.allow.rules = OtherRules(d.permissions.allow.rules)
        /\ p.other = d.permissions.other
    BY <1>1, <1>2, <1>4, RemoveRule
  <1>7. PICK u : u = [object |-> d.object, hooks |-> h, permissions |-> p]
    OBVIOUS
  <1>8. Unregister(d) = u
    BY <1>3, <1>4, <1>7 DEF Unregister
  <1>9. u \in Documents /\ u.object = d.object /\ u.hooks = h /\ u.permissions = p
    BY <1>1, <1>5, <1>6, <1>7 DEF Documents
  <1>10. Decoded(u)
    BY <1>5, <1>6, <1>9, DecodedIs
  <1>11. Readable(d) => Readable(u)
    BY <1>5, <1>6, <1>9 DEF Readable, HooksReadable, RulesReadable
  <1>12. Unregister(u) = u
    BY <1>5, <1>6, <1>7, <1>9 DEF Unregister
  <1>13. Foreign(u) = Foreign(d)
    <2>1. \A e \in Event :
            RemoveEvent(h.at[e].groups) = RemoveEvent(d.hooks.at[e].groups)
      <3> TAKE e \in Event
      <3>1. d.hooks.at[e].groups \in Seq(Seq(Entries))
        BY <1>1 DEF HookObjects, GroupLists
      <3> QED
        BY <1>5, <3>1, RemoveTwice
    <2>2. OtherRules(p.allow.rules) = OtherRules(d.permissions.allow.rules)
      <3>1. d.permissions.allow.rules \in Seq(Text)
        BY <1>1 DEF PermissionObjects, RuleLists
      <3> QED
        BY <1>6, <3>1, RulesLeft
    <2>3. [e \in Event |-> RemoveEvent(u.hooks.at[e].groups)] =
            [e \in Event |-> RemoveEvent(d.hooks.at[e].groups)]
      BY <1>9, <2>1
    <2> QED
      BY <1>5, <1>6, <1>9, <2>2, <2>3, ForeignIs
  <1> QED
    BY <1>8, <1>9, <1>10, <1>11, <1>12, <1>13

\* The registration: the file can still be read, what is foreign in it is as it was,
\* registering again changes nothing, each event is registered once, and the rule is
\* there.
LEMMA ApplyKeeps ==
  ASSUME NEW d \in Documents, Decoded(d), NEW in \in Install
  PROVE  /\ Apply(d, in) \in Documents /\ Decoded(Apply(d, in))
         /\ Readable(d) => Readable(Apply(d, in))
         /\ Foreign(Apply(d, in)) = Foreign(d)
         /\ Apply(Apply(d, in), in) = Apply(d, in)
         /\ \A e \in Event : RegisteredOnce(Apply(d, in).hooks.at[e].groups, e, in)
         /\ AllowRule \in Range(Apply(d, in).permissions.allow.rules)
  <1>1. d.hooks \in HookObjects /\ d.permissions \in PermissionObjects /\ d.object \in BOOLEAN
    BY DEF Documents
  <1>2. RulesDecoded(d.permissions)
    BY DecodedIs
  <1>3. PICK at : at = [e \in Event |-> Groups(ApplyEvent(d.hooks.at[e].groups, e, in))]
    OBVIOUS
  <1>4. PICK p : p = AddAllowRule(d.permissions)
    OBVIOUS
  <1>5. PICK h : h = [kind |-> "object", other |-> d.hooks.other, at |-> at]
    OBVIOUS
  <1>6. PICK a : a = [object |-> d.object, hooks |-> h, permissions |-> p]
    OBVIOUS
  <1>7. Apply(d, in) = a
    BY <1>3, <1>4, <1>5, <1>6 DEF Apply
  <1>8. /\ p \in PermissionObjects /\ RulesDecoded(p)
        /\ d.permissions.allow.kind # "odd" => p.allow.kind # "odd"
        /\ d.permissions.kind # "odd" => p.kind # "odd"
        /\ AllowRule \in Range(p.allow.rules)
        /\ AddAllowRule(p) = p
        /\ OtherRules(p.allow.rules) = OtherRules(d.permissions.allow.rules)
        /\ p.other = d.permissions.other
    BY <1>1, <1>2, <1>4, AddRule
  <1>9. ASSUME NEW e \in Event
        PROVE  /\ at[e] \in GroupLists /\ at[e].kind = "array"
               /\ RegisteredOnce(at[e].groups, e, in)
               /\ RemoveEvent(at[e].groups) = RemoveEvent(d.hooks.at[e].groups)
               /\ Groups(ApplyEvent(at[e].groups, e, in)) = at[e]
    <2>1. PICK gs \in Seq(Seq(Entries)) : gs = d.hooks.at[e].groups
      BY <1>1 DEF HookObjects, GroupLists
    <2>2. Entry(in, e) \in Entries
      BY EntryType
    <2>3. PICK new \in Seq(Seq(Entries)) : new = ApplyEvent(gs, e, in)
      BY <2>2, ApplySeq
    <2>4. RegisteredOnce(new, e, in) /\ RemoveEvent(new) = RemoveEvent(gs)
      BY <2>2, <2>3, ApplyOnce, RemoveApply
    <2>5. ApplyEvent(new, e, in) = new
      BY <2>2, <2>4, ApplySame
    <2>6. at[e] = Groups(new)
      BY <1>3, <2>1, <2>3
    <2>7. at[e] \in GroupLists /\ at[e].kind = "array" /\ at[e].groups = new
      BY <2>6 DEF Groups, GroupLists, ListKinds
    <2> QED
      BY <2>1, <2>4, <2>5, <2>6, <2>7
  <1>10. at \in [Event -> GroupLists]
    BY <1>3, <1>9
  <1>11. h \in HookObjects /\ h.at = at /\ h.kind = "object" /\ h.other = d.hooks.other
    <2>1. d.hooks.other \in BOOLEAN
      BY <1>1 DEF HookObjects
    <2> QED
      BY <1>5, <1>10, <2>1 DEF HookObjects, ObjectKinds
  <1>12. a \in Documents /\ a.object = d.object /\ a.hooks = h /\ a.permissions = p
    BY <1>1, <1>6, <1>8, <1>11 DEF Documents
  <1>13. Decoded(a)
    <2>1. HooksDecoded(h)
      BY <1>9, <1>11 DEF HooksDecoded
    <2> QED
      BY <1>8, <1>12, <2>1, DecodedIs
  <1>14. Readable(d) => Readable(a)
    BY <1>8, <1>9, <1>11, <1>12 DEF Readable, HooksReadable, RulesReadable
  <1>15. Apply(a, in) = a
    <2>1. [e \in Event |-> Groups(ApplyEvent(at[e].groups, e, in))] = at
      BY <1>9, <1>10
    <2> QED
      BY <1>5, <1>6, <1>8, <1>11, <1>12, <2>1 DEF Apply
  <1>16. Foreign(a) = Foreign(d)
    <2>1. [e \in Event |-> RemoveEvent(a.hooks.at[e].groups)] =
            [e \in Event |-> RemoveEvent(d.hooks.at[e].groups)]
      BY <1>9, <1>11, <1>12
    <2> QED
      BY <1>8, <1>11, <1>12, <2>1, ForeignIs
  <1>17. \A e \in Event : RegisteredOnce(a.hooks.at[e].groups, e, in)
    BY <1>9, <1>11, <1>12
  <1>18. AllowRule \in Range(a.permissions.allow.rules)
    BY <1>8, <1>12
  <1> QED
    BY <1>7, <1>12, <1>13, <1>14, <1>15, <1>16, <1>17, <1>18

\* x is d with one registration or another over what d has.
Over(x, d) ==
  /\ x \in Documents
  /\ x.object = d.object /\ x.hooks.kind = "object" /\ x.hooks.other = d.hooks.other
  /\ \A e \in Event :
       /\ x.hooks.at[e].kind = "array" /\ x.hooks.at[e].groups # <<>>
       /\ RemoveEvent(x.hooks.at[e].groups) = RemoveEvent(d.hooks.at[e].groups)
  /\ x.permissions = AddAllowRule(d.permissions)

\* A registration, or another over it, only adds what the removal takes away.
LEMMA ApplyOver ==
  ASSUME NEW d \in Documents, Decoded(d), NEW in \in Install
  PROVE  /\ Over(Apply(d, in), d)
         /\ \A x \in Documents : Decoded(x) /\ Over(d, x) => Over(Apply(d, in), x)
  <1>1. Apply(d, in) \in Documents
        /\ \A e \in Event : RegisteredOnce(Apply(d, in).hooks.at[e].groups, e, in)
    BY ApplyKeeps
  <1>2. PICK a \in Documents : a = Apply(d, in)
    BY <1>1
  <1>3. PICK p : p = AddAllowRule(d.permissions)
    OBVIOUS
  <1>4. PICK at : at = [e \in Event |-> Groups(ApplyEvent(d.hooks.at[e].groups, e, in))]
    OBVIOUS
  <1>5. a = [object |-> d.object,
             hooks |-> [kind |-> "object", other |-> d.hooks.other, at |-> at],
             permissions |-> p]
    BY <1>2, <1>3, <1>4 DEF Apply
  <1>6. /\ a.object = d.object /\ a.hooks.kind = "object" /\ a.hooks.other = d.hooks.other
        /\ a.permissions = p /\ a.hooks.at = at
    BY <1>5
  <1>7. ASSUME NEW e \in Event
        PROVE  /\ a.hooks.at[e].kind = "array" /\ a.hooks.at[e].groups # <<>>
               /\ RemoveEvent(a.hooks.at[e].groups) = RemoveEvent(d.hooks.at[e].groups)
    <2>1. PICK gs \in Seq(Seq(Entries)) : gs = d.hooks.at[e].groups
      BY DEF Documents, HookObjects, GroupLists
    <2>2. Entry(in, e) \in Entries
      BY EntryType
    <2>3. RemoveEvent(ApplyEvent(gs, e, in)) = RemoveEvent(gs)
      BY <2>2, RemoveApply
    <2>4. RegisteredOnce(a.hooks.at[e].groups, e, in)
      BY <1>1, <1>2
    <2>5. a.hooks.at[e].groups # <<>>
      BY <2>4 DEF RegisteredOnce
    <2>6. a.hooks.at[e] = Groups(ApplyEvent(gs, e, in))
      BY <1>4, <1>6, <2>1
    <2> QED
      BY <2>1, <2>3, <2>5, <2>6 DEF Groups
  <1>8. Over(a, d)
    BY <1>3, <1>6, <1>7 DEF Over
  <1>9. ASSUME NEW x \in Documents, Decoded(x), Over(d, x) PROVE Over(a, x)
    <2>1. x.permissions \in PermissionObjects /\ RulesDecoded(x.permissions)
      BY <1>9, DecodedIs DEF Documents
    <2>2. AddAllowRule(AddAllowRule(x.permissions)) = AddAllowRule(x.permissions)
      BY <2>1, AddRule
    <2>3. a.permissions = AddAllowRule(x.permissions)
      BY <1>3, <1>6, <1>9, <2>2 DEF Over
    <2> QED
      BY <1>6, <1>7, <1>9, <2>3 DEF Over
  <1> QED
    BY <1>2, <1>8, <1>9

\* What is not this adapter's the removal leaves alone.
LEMMA RemoveNothing ==
  ASSUME NEW S, NEW groups \in Seq(Seq(S)),
         \A n \in DOMAIN groups : \A k \in DOMAIN groups[n] : ~AnyOurs(groups[n][k])
  PROVE  RemoveEvent(groups) = groups
  <1> DEFINE T == [n \in DOMAIN groups |-> Theirs(groups[n])]
             K == {n \in DOMAIN groups : groups[n] = <<>> \/ T[n] # <<>>}
  <1>1. RemoveEvent(groups) = Picked(T, K)
    BY DEF RemoveEvent
  <1>2. ASSUME NEW n \in DOMAIN groups PROVE Theirs(groups[n]) = groups[n]
    <2>1. PICK g \in Seq(S) : g = groups[n]
      OBVIOUS
    <2>2. {k \in DOMAIN g : ~AnyOurs(g[k])} = DOMAIN g
      BY <2>1
    <2>3. Theirs(g) = Picked(g, DOMAIN g)
      BY <2>2 DEF Theirs
    <2> QED
      BY <2>1, <2>3, PickedAll
  <1>3. K = DOMAIN groups /\ \A n \in DOMAIN groups : T[n] = groups[n]
    BY <1>2
  <1> HIDE DEF T, K
  <1>4. Positions(DOMAIN groups)
    BY PositionsOf
  <1>5. Picked(T, DOMAIN groups) = Picked(groups, DOMAIN groups)
    BY <1>3, <1>4, PickedSame
  <1>6. Picked(groups, DOMAIN groups) = groups
    BY PickedAll
  <1> QED
    BY <1>1, <1>3, <1>5, <1>6

\* The rule goes with the array and the object it was added in.
LEMMA RuleRestored ==
  ASSUME NEW p \in PermissionObjects, RulesDecoded(p), p.kind # "odd", p.allow.kind # "odd",
         p.kind = "object" => p.other \/ p.allow.kind = "array",
         p.allow.kind = "array" => p.allow.rules # <<>>,
         AllowRule \notin Range(p.allow.rules)
  PROVE  RemoveAllowRule(AddAllowRule(p)) = p
  <1>1. p.allow \in RuleLists /\ p.kind \in ObjectKinds /\ p.other \in BOOLEAN
    BY DEF PermissionObjects
  <1>2. PICK rules \in Seq(Text) : rules = p.allow.rules
    BY <1>1 DEF RuleLists
  <1>3. PICK r \in Seq(Text) : r = Append(rules, AllowRule)
    BY <1>2, RulesAppend
  <1>4. OtherRules(r) = rules /\ r # rules
    BY <1>2, <1>3, RulesAppend, RulesLeft
  <1>5. PICK a : a = [kind |-> "array", rules |-> r]
    OBVIOUS
  <1>6. PICK q : q = [kind |-> "object", allow |-> a, other |-> p.other]
    OBVIOUS
  <1>7. AddAllowRule(p) = q
    <2>1. AddAllowRule(p) = [p EXCEPT !.kind = "object", !.allow = a]
      BY <1>2, <1>3, <1>5 DEF AddAllowRule
    <2> QED
      BY <1>6, <2>1 DEF PermissionObjects
  <1>8. q.allow.rules = r /\ q.other = p.other
    BY <1>5, <1>6
  <1>9. CASE rules # <<>>
    <2>1. RemoveAllowRule(q) = [q EXCEPT !.allow.rules = rules]
      BY <1>4, <1>8, <1>9 DEF RemoveAllowRule
    <2>2. p.allow.kind = "array" /\ p.kind = "object"
      BY <1>2, <1>9 DEF RulesDecoded, NoRules
    <2>3. p.allow = [kind |-> "array", rules |-> rules]
      BY <1>1, <1>2, <2>2 DEF RuleLists
    <2>4. [q EXCEPT !.allow.rules = rules] =
            [kind |-> "object", allow |-> [kind |-> "array", rules |-> rules],
             other |-> p.other]
      BY <1>5, <1>6
    <2>5. p = [kind |-> "object", allow |-> p.allow, other |-> p.other]
      BY <2>2 DEF PermissionObjects
    <2> QED
      BY <1>7, <2>1, <2>3, <2>4, <2>5
  <1>10. CASE rules = <<>>
    <2>1. p.allow.kind = "absent"
      BY <1>1, <1>2, <1>10 DEF RuleLists, ListKinds
    <2>2. p.allow = NoRules
      BY <1>1, <1>2, <1>10, <2>1 DEF RuleLists, NoRules
    <2>3. RemoveAllowRule(q) = IF q.other THEN [q EXCEPT !.allow = NoRules] ELSE NoPermissions
      BY <1>4, <1>8, <1>10 DEF RemoveAllowRule
    <2>4. CASE p.other
      <3>1. p.kind = "object"
        BY <2>4 DEF RulesDecoded
      <3>2. p = [kind |-> "object", allow |-> NoRules, other |-> p.other]
        BY <2>2, <3>1 DEF PermissionObjects
      <3>3. [q EXCEPT !.allow = NoRules] =
              [kind |-> "object", allow |-> NoRules, other |-> p.other]
        BY <1>6
      <3> QED
        BY <1>7, <1>8, <2>3, <2>4, <3>2, <3>3
    <2>5. CASE ~p.other
      <3>1. p.kind = "absent"
        BY <1>1, <2>1, <2>5 DEF ObjectKinds
      <3>2. p = [kind |-> "absent", allow |-> NoRules, other |-> FALSE]
        BY <1>1, <2>2, <2>5, <3>1 DEF PermissionObjects
      <3> QED
        BY <1>7, <1>8, <2>3, <2>5, <3>2 DEF NoPermissions
    <2> QED
      BY <2>4, <2>5
  <1> QED
    BY <1>9, <1>10

\* A removal over one registration or two gives back the document.
LEMMA OverPlain ==
  ASSUME NEW d \in Documents, Decoded(d), Plain(d), NEW x, Over(x, d)
  PROVE  Unregister(x) = d
  <1>1. /\ d.hooks \in HookObjects /\ d.permissions \in PermissionObjects
        /\ x \in Documents /\ x.hooks \in HookObjects /\ x.hooks.other = d.hooks.other
        /\ x.object = d.object /\ x.hooks.kind = "object"
        /\ x.permissions = AddAllowRule(d.permissions)
    BY DEF Documents, Over
  <1>2. HooksDecoded(d.hooks) /\ RulesDecoded(d.permissions)
    BY DecodedIs
  <1>3. PICK at : at = [e \in Event |-> EventLeft(x.hooks, e)]
    OBVIOUS
  <1>4. ASSUME NEW e \in Event PROVE at[e] = d.hooks.at[e]
    <2>1. PICK v \in GroupLists : v = d.hooks.at[e]
      BY <1>1 DEF HookObjects
    <2>2. PICK u \in GroupLists : u = x.hooks.at[e]
      BY <1>1 DEF HookObjects
    <2>3. v.kind # "odd" /\ (v.kind = "array" => v.groups # <<>>)
          /\ \A k \in DOMAIN v.groups :
               \A n \in DOMAIN v.groups[k] : ~AnyOurs(v.groups[k][n])
      BY <2>1 DEF Plain, Readable, HooksReadable
    <2>4. v.groups \in Seq(Seq(Entries)) /\ v.kind \in ListKinds
      BY DEF GroupLists
    <2>5. RemoveEvent(v.groups) = v.groups
      BY <2>3, <2>4, RemoveNothing
    <2>6. u.kind = "array" /\ u.groups # <<>> /\ RemoveEvent(u.groups) = v.groups
      BY <2>1, <2>2, <2>5 DEF Over
    <2>7. at[e] = IF v.groups = <<>> THEN NoGroups ELSE [u EXCEPT !.groups = v.groups]
      BY <1>3, <2>2, <2>6 DEF EventLeft
    <2>8. v.kind # "array" => v.groups = <<>>
      BY <1>2, <2>1 DEF HooksDecoded
    <2>9. CASE v.groups = <<>>
      <3>1. v.kind = "absent"
        BY <2>3, <2>4, <2>9 DEF ListKinds
      <3>2. v = NoGroups
        BY <2>9, <3>1 DEF GroupLists, NoGroups
      <3> QED
        BY <2>1, <2>7, <2>9, <3>2
    <2>10. CASE v.groups # <<>>
      <3>1. v.kind = "array"
        BY <2>8, <2>10
      <3>2. [u EXCEPT !.groups = v.groups] = v
        BY <2>6, <3>1 DEF GroupLists
      <3> QED
        BY <2>1, <2>7, <2>10, <3>2
    <2> QED
      BY <2>9, <2>10
  <1>5. at = d.hooks.at
    <2>1. d.hooks.at = [e \in Event |-> d.hooks.at[e]]
      BY <1>1 DEF HookObjects
    <2> QED
      BY <1>3, <1>4, <2>1
  <1>6. RemoveHooks(x.hooks) =
          IF at # x.hooks.at /\ ~x.hooks.other /\ \A e \in Event : at[e] = NoGroups THEN NoHooks
          ELSE [kind |-> "object", at |-> at, other |-> d.hooks.other]
    BY <1>1, <1>3, RemoveHooksIs
  <1>7. /\ d.hooks.kind = "object" =>
             d.hooks.other \/ \E e \in Event : d.hooks.at[e].kind = "array"
        /\ d.hooks.kind # "odd" /\ d.hooks.kind \in ObjectKinds /\ d.hooks.other \in BOOLEAN
    BY <1>1 DEF Plain, Readable, HooksReadable, HookObjects
  <1>8. /\ NoGroups.kind = "absent"
        /\ NoHooks = [kind |-> "absent", at |-> [e \in Event |-> NoGroups], other |-> FALSE]
        /\ NoHooks.at = [e \in Event |-> NoGroups]
    BY DEF NoGroups, NoHooks
  <1>9. RemoveHooks(x.hooks) = d.hooks
    <2>1. CASE at # x.hooks.at /\ ~x.hooks.other /\ \A e \in Event : at[e] = NoGroups
      <3>1. d.hooks.kind = "absent" /\ ~d.hooks.other
        BY <1>1, <1>5, <1>7, <1>8, <2>1 DEF ObjectKinds
      <3>2. d.hooks.at = [e \in Event |-> NoGroups]
        BY <1>3, <1>5, <2>1
      <3>3. d.hooks = [kind |-> "absent", at |-> [e \in Event |-> NoGroups], other |-> FALSE]
        BY <1>1, <3>1, <3>2 DEF HookObjects
      <3> QED
        BY <1>6, <1>8, <2>1, <3>3
    <2>2. CASE ~(at # x.hooks.at /\ ~x.hooks.other /\ \A e \in Event : at[e] = NoGroups)
      <3>1. d.hooks.kind = "object"
        <4>1. CASE at = x.hooks.at
          <5>1. ComposedEvent \in Event
            BY InstallAssumption
          <5>2. at[ComposedEvent].kind = "array"
            BY <4>1, <5>1 DEF Over
          <5>3. d.hooks.at # NoHooks.at
            BY <1>5, <1>8, <5>1, <5>2
          <5> QED
            BY <1>2, <5>3 DEF HooksDecoded
        <4>2. CASE x.hooks.other
          BY <1>1, <1>2, <4>2 DEF HooksDecoded
        <4>3. CASE \E e \in Event : at[e] # NoGroups
          BY <1>2, <1>5, <1>8, <4>3 DEF HooksDecoded
        <4> QED
          BY <2>2, <4>1, <4>2, <4>3
      <3>2. d.hooks = [kind |-> "object", at |-> at, other |-> d.hooks.other]
        BY <1>1, <1>5, <3>1 DEF HookObjects
      <3>3. RemoveHooks(x.hooks) = [kind |-> "object", at |-> at, other |-> d.hooks.other]
        BY <1>6, <2>2
      <3> QED
        BY <3>2, <3>3
    <2> QED
      BY <2>1, <2>2
  <1>10. RemoveAllowRule(x.permissions) = d.permissions
    <2>1. PICK p \in PermissionObjects : p = d.permissions
      BY <1>1
    <2>2. /\ p.kind # "odd" /\ p.allow.kind # "odd"
          /\ p.kind = "object" => p.other \/ p.allow.kind = "array"
          /\ p.allow.kind = "array" => p.allow.rules # <<>>
          /\ AllowRule \notin Range(p.allow.rules)
      BY <2>1 DEF Plain, Readable, RulesReadable
    <2>3. RemoveAllowRule(AddAllowRule(p)) = p
      BY <1>2, <2>1, <2>2, RuleRestored
    <2> QED
      BY <1>1, <2>1, <2>3
  <1> QED
    <2>1. Unregister(x) = [object |-> d.object, hooks |-> d.hooks,
                           permissions |-> d.permissions]
      BY <1>1, <1>9, <1>10 DEF Unregister
    <2> QED
      BY <2>1 DEF Documents

-----------------------------------------------------------------------------
(* The editors                                                             *)

\* What a run has made of the document it read, and how far that lets it go.
Made(w) ==
  /\ Decoded(base[w])
  /\ doc[w] = IF Readable(base[w]) THEN Edited(w, base[w]) ELSE base[w]
  /\ ~Readable(base[w]) => pc[w] = "failed"
  /\ Readable(base[w]) /\ doc[w] = base[w] => pc[w] = "kept"

\* What is not this adapter's in a document is what its origin has.
Originates(w) ==
  /\ origin[w] # None => pc[origin[w]] # "idle"
  /\ Foreign(doc[w]) = Foreign(IF origin[w] = None THEN Empty ELSE doc[origin[w]])

Edits ==
  /\ \A w \in Writer : pc[w] # "idle" =>
       /\ Decoded(doc[w]) /\ Originates(w)
       /\ User(w) => pc[w] = "done"
       /\ ~User(w) => Made(w)
  /\ \A w \in Range(moved) : pc[w] # "idle" /\ (User(w) \/ Readable(base[w]))
  /\ onDisk \subseteq Range(moved) \cup {None}

HIInv == IInv /\ EditTypeOK /\ (file = "settings" => Edits)

\* A step of a publication, which leaves the documents alone.
Publishes ==
  /\ \/ UNCHANGED vars \/ PowerLoss
     \/ \E w \in Writer :
          \/ file # "settings" /\ CreateDir(w)
          \/ OpenTemp(w) \/ Write(w) \/ Sync(w) \/ Move(w)
          \/ FlushDir(w) \/ MakeTmp(w) \/ FlushRoot(w) \/ Fails(w)
  /\ UNCHANGED edit

\* Every step is a step of a publication or an edit.
LEMMA HSteps ==
  ASSUME [HNext]_<<vars, edit>>
  PROVE  Publishes \/ \E w \in Writer : ReadAndEdit(w) \/ UserEdit(w)
  BY DEF HNext, Publishes

\* What Publish says of its steps holds of those.
LEMMA PublishesNext == Publishes => [Next]_vars
  BY DEF Publishes, Next

\* The file is one that the calls of HSpec keep as those of Spec do.
LEMMA EditorsStep ==
  ASSUME IInv, EditTypeOK, NEW w \in Writer, ReadAndEdit(w) \/ UserEdit(w)
  PROVE  IInv'
  <1> USE DEF IInv
  <1>1. CASE ReadAndEdit(w)
    <2>1. /\ pc[w] = "idle" /\ \E p \in {"failed", "kept", "made"} : pc' = [pc EXCEPT ![w] = p]
          /\ UNCHANGED <<file, content, synced, name, onDisk, home, moved, failures, crashes>>
      BY <1>1 DEF ReadAndEdit, At, Goto, setting
    <2>2. PICK p \in {"failed", "kept", "made"} : pc' = [pc EXCEPT ![w] = p]
      BY <2>1
    <2>3. TypeOK'
      BY <2>1, <2>2 DEF TypeOK, Pcs
    <2>4. Contents'
      BY <2>1, <2>2 DEF TypeOK, Contents, BeforeName, Flushed, At
    <2>5. Order'
      BY <2>1, <2>2 DEF TypeOK, Order, NotBefore, At, Replaced
    <2> QED
      BY <2>3, <2>4, <2>5
  <1>2. CASE UserEdit(w)
    <2>1. /\ pc[w] = "idle" /\ pc' = [pc EXCEPT ![w] = "done"] /\ file = "settings"
          /\ content' = [content EXCEPT ![w] = "full"] /\ synced' = synced \cup {w}
          /\ name' = w /\ onDisk' = {w} /\ moved' = Append(moved, w)
          /\ UNCHANGED <<file, home, failures, crashes>>
      BY <1>2 DEF UserEdit, At, Goto, setting
    <2>2. TypeOK'
      BY <2>1 DEF TypeOK, Pcs
    <2>3. Contents'
      BY <2>1, NamesAssumption DEF TypeOK, Contents, BeforeName, Flushed, At
    <2>4. Order'
      <3>1. \A v \in Writer : v = w \/ (\E o : NotBefore(v, o)) => NotBefore(v, w)'
        BY <2>1, NamesAssumption DEF NotBefore, Order
      <3>2. moved' \in Seq(Writer)
        BY <2>1 DEF Order
      <3>3. ASSUME NEW v \in Writer, pc'[v] \in {"named", "flushed", "rooted", "done"}
            PROVE  NotBefore(v, w)'
        BY <2>1, <3>1, <3>3 DEF TypeOK, Order
      <3>4. home' = "durable"
        BY <2>1 DEF Order, Replaced
      <3> QED
        BY <2>1, <3>2, <3>3, <3>4 DEF Order, At
    <2> QED
      BY <2>2, <2>3, <2>4
  <1> QED
    BY <1>1, <1>2

\* A call that has stopped has, one under way has begun with an edit, and only what
\* has the name in turn may have it after a power failure.
LEMMA PublishesKeeps ==
  ASSUME IInv, file = "settings", Publishes
  PROVE  /\ file' = "settings" /\ UNCHANGED edit
         /\ \A w \in Writer : /\ pc'[w] = "idle" <=> pc[w] = "idle"
                              /\ pc[w] \in {"failed", "kept", "done"} => pc'[w] = pc[w]
         /\ \/ moved' = moved /\ onDisk' \subseteq onDisk
            \/ \E w \in Writer : /\ pc[w] = "synced" /\ moved' = Append(moved, w)
                                 /\ onDisk' = onDisk \cup {w}
  <1> USE DEF IInv, TypeOK, At, Goto, setting
  <1>1. UNCHANGED edit
    BY DEF Publishes
  <1>2. CASE UNCHANGED vars
    BY <1>1, <1>2 DEF vars
  <1>3. ASSUME NEW w \in Writer,
               OpenTemp(w) \/ Write(w) \/ Sync(w) \/ FlushRoot(w) \/ Fails(w)
        PROVE  /\ file' = file /\ moved' = moved /\ onDisk' = onDisk
               /\ pc[w] \notin {"idle", "failed", "kept", "done"}
               /\ \E p \in Pcs \ {"idle"} : pc' = [pc EXCEPT ![w] = p]
    BY <1>3 DEF OpenTemp, Write, Sync, FlushRoot, Fails, Pcs
  <1>4. ASSUME NEW w \in Writer, FlushDir(w) \/ MakeTmp(w)
        PROVE  /\ file' = file /\ moved' = moved /\ onDisk' \subseteq onDisk
               /\ pc[w] \notin {"idle", "failed", "kept", "done"}
               /\ \E p \in Pcs \ {"idle"} : pc' = [pc EXCEPT ![w] = p]
    BY <1>4 DEF FlushDir, MakeTmp, Pcs
  <1>5. ASSUME NEW w \in Writer, Move(w)
        PROVE  /\ file' = file /\ moved' = Append(moved, w) /\ onDisk' = onDisk \cup {w}
               /\ pc[w] = "synced" /\ pc' = [pc EXCEPT ![w] = "named"]
    BY <1>5 DEF Move, Replaced
  <1>6. CASE PowerLoss
    <2>1. home' = "durable"
      BY <1>6 DEF PowerLoss, Order, Replaced
    <2>2. onDisk' \subseteq onDisk
      BY <1>6, <2>1 DEF PowerLoss
    <2> QED
      BY <1>1, <1>6, <2>2 DEF PowerLoss
  <1>7. \/ UNCHANGED vars \/ PowerLoss
        \/ \E w \in Writer :
             \/ OpenTemp(w) \/ Write(w) \/ Sync(w) \/ FlushRoot(w) \/ Fails(w)
             \/ FlushDir(w) \/ MakeTmp(w) \/ Move(w)
    BY DEF Publishes
  <1> QED
    BY <1>1, <1>2, <1>3, <1>4, <1>5, <1>6, <1>7

\* What a run makes of a document.
LEMMA EditedKeeps ==
  ASSUME EditTypeOK, NEW w \in Writer, ~User(w), NEW d \in Documents, Decoded(d), Readable(d)
  PROVE  /\ Edited(w, d) \in Documents /\ Decoded(Edited(w, d)) /\ Readable(Edited(w, d))
         /\ Foreign(Edited(w, d)) = Foreign(d)
         /\ Edited(w, Edited(w, d)) = Edited(w, d)
         /\ ~Removes(w) => Installs(w) /\ job[w][2] \in Install
  <1>1. job[w] \in Job
    BY DEF EditTypeOK
  <1>2. CASE Removes(w)
    BY <1>2, UnregisterKeeps DEF Edited
  <1>3. CASE ~Removes(w)
    <2>1. Installs(w) /\ job[w][2] \in Install
      BY <1>1, <1>3 DEF Job, User, Removes, Installs
    <2> QED
      BY <1>3, <2>1, ApplyKeeps DEF Edited
  <1> QED
    BY <1>2, <1>3

\* What a run reads is what the decoder gives, of a call that took the name.
LEMMA CurrentDocument ==
  ASSUME IInv, EditTypeOK, Edits
  PROVE  /\ Current \in Documents /\ Decoded(Current)
         /\ name # None => name \in Writer /\ name \in Range(moved) /\ pc[name] # "idle"
  <1>1. name # None => name \in Writer /\ name \in Range(moved) /\ pc[name] # "idle"
    BY DEF IInv, TypeOK, Edits
  <1>2. Current \in Documents /\ Decoded(Current)
    BY <1>1, EmptyDocument DEF Current, Edits, EditTypeOK
  <1> QED
    BY <1>1, <1>2

\* An element appended is the only one added.
LEMMA RangeAppend ==
  ASSUME NEW S, NEW s \in Seq(S), NEW x \in S
  PROVE  Range(Append(s, x)) = Range(s) \cup {x}
  BY AppendSeq DEF Range

\* A publication takes no document back and moves only what was written.
LEMMA PublishesEdits ==
  ASSUME IInv, EditTypeOK, file = "settings", Edits, Publishes
  PROVE  EditTypeOK' /\ Edits'
  <1>1. /\ UNCHANGED <<job, base, doc, origin>>
        /\ \A w \in Writer : /\ pc'[w] = "idle" <=> pc[w] = "idle"
                             /\ pc[w] \in {"failed", "kept", "done"} => pc'[w] = pc[w]
    BY PublishesKeeps DEF edit
  <1>2. EditTypeOK'
    BY <1>1 DEF EditTypeOK
  <1>3. ASSUME NEW w \in Writer, pc'[w] # "idle"
        PROVE  /\ Decoded(doc[w])' /\ Originates(w)'
               /\ User(w)' => pc'[w] = "done"
               /\ ~User(w)' => Made(w)'
    <2>1. /\ pc[w] # "idle" /\ Decoded(doc[w]) /\ Originates(w)
          /\ User(w) => pc[w] = "done"
          /\ ~User(w) => Made(w)
      BY <1>1, <1>3 DEF Edits
    <2>2. Originates(w)'
      <3>1. origin[w] # None => origin[w] \in Writer /\ pc'[origin[w]] # "idle"
        BY <1>1, <2>1 DEF Originates, EditTypeOK
      <3>2. Foreign(doc'[w]) = Foreign(IF origin'[w] = None THEN Empty ELSE doc'[origin'[w]])
        BY <1>1, <2>1 DEF Originates
      <3> QED
        BY <1>1, <3>1, <3>2 DEF Originates
    <2>3. User(w)' <=> User(w)
      BY <1>1 DEF User
    <2>4. ASSUME Made(w) PROVE Made(w)'
      <3>1. Edited(w, base[w])' = Edited(w, base[w])
        BY <1>1 DEF Edited, Removes
      <3> QED
        BY <1>1, <2>4, <3>1 DEF Made
    <2> QED
      BY <1>1, <2>1, <2>2, <2>3, <2>4
  <1>4. /\ \A w \in Range(moved') : pc'[w] # "idle" /\ (User(w)' \/ Readable(base'[w]))
        /\ onDisk' \subseteq Range(moved') \cup {None}
    <2>1. /\ Range(moved) \subseteq Writer /\ moved \in Seq(Writer)
          /\ \A w \in Range(moved) : pc'[w] # "idle" /\ (User(w)' \/ Readable(base'[w]))
      <3>1. moved \in Seq(Writer)
        BY DEF IInv, Order
      <3>2. Range(moved) \subseteq Writer
        BY <3>1 DEF Range
      <3> QED
        BY <1>1, <3>1, <3>2 DEF Edits, User
    <2>2. CASE moved' = moved /\ onDisk' \subseteq onDisk
      BY <2>1, <2>2 DEF Edits
    <2>3. ASSUME NEW w \in Writer, pc[w] = "synced", moved' = Append(moved, w),
                 onDisk' = onDisk \cup {w}
          PROVE  /\ \A v \in Range(moved') : pc'[v] # "idle" /\ (User(v)' \/ Readable(base'[v]))
                 /\ onDisk' \subseteq Range(moved') \cup {None}
      <3>1. pc'[w] # "idle" /\ (User(w)' \/ Readable(base'[w]))
        BY <1>1, <2>3 DEF Edits, Made, User
      <3>2. Range(moved') = Range(moved) \cup {w}
        BY <2>1, <2>3, RangeAppend
      <3> QED
        BY <2>1, <2>3, <3>1, <3>2 DEF Edits
    <2> QED
      BY <2>2, <2>3, PublishesKeeps
  <1> QED
    BY <1>2, <1>3, <1>4 DEF Edits

\* An editor leaves a document that Edits says is right, and touches no other's.
LEMMA EditorsEdits ==
  ASSUME IInv, EditTypeOK, Edits, NEW w \in Writer, ReadAndEdit(w) \/ UserEdit(w)
  PROVE  EditTypeOK' /\ Edits'
  <1>1. /\ file = "settings" /\ pc[w] = "idle" /\ job' = job /\ moved \in Seq(Writer)
        /\ pc \in [Writer -> Pcs] /\ doc \in [Writer -> Documents]
        /\ base \in [Writer -> Documents] /\ origin \in [Writer -> Writer \cup {None}]
        /\ job \in [Writer -> Job] /\ Range(moved) \subseteq Writer
    <2>1. moved \in Seq(Writer)
      BY DEF IInv, Order
    <2> QED
      BY <2>1 DEF ReadAndEdit, UserEdit, At, IInv, TypeOK, EditTypeOK, Range
  <1>2. /\ Current \in Documents /\ Decoded(Current)
        /\ name # None => name \in Writer /\ name \in Range(moved) /\ pc[name] # "idle"
    BY CurrentDocument
  <1>3. \A v \in Writer : /\ User(v)' <=> User(v)
                          /\ \A d : Edited(v, d)' = Edited(v, d)
    BY <1>1 DEF User, Edited, Removes
  \* What the step leaves to be shown: its own document.
  <1>4. ASSUME NEW p \in Pcs \ {"idle"}, NEW d \in Documents, NEW b \in Documents,
               NEW o \in Writer \cup {None},
               pc' = [pc EXCEPT ![w] = p], doc' = [doc EXCEPT ![w] = d],
               base' = [base EXCEPT ![w] = b], origin' = [origin EXCEPT ![w] = o]
        PROVE  /\ EditTypeOK'
               /\ \A v \in Writer : v # w =>
                    /\ pc'[v] = pc[v] /\ doc'[v] = doc[v] /\ base'[v] = base[v]
                    /\ origin'[v] = origin[v]
               /\ pc'[w] = p /\ doc'[w] = d /\ base'[w] = b /\ origin'[w] = o
               /\ \A v \in Writer : v # w /\ pc'[v] # "idle" =>
                    /\ Decoded(doc'[v]) /\ Originates(v)'
                    /\ User(v)' => pc'[v] = "done"
                    /\ ~User(v)' => Made(v)'
    <2>1. EditTypeOK'
      BY <1>1, <1>4 DEF EditTypeOK
    <2>2. /\ pc'[w] = p /\ doc'[w] = d /\ base'[w] = b /\ origin'[w] = o
          /\ \A v \in Writer : v # w =>
               /\ pc'[v] = pc[v] /\ doc'[v] = doc[v] /\ base'[v] = base[v]
               /\ origin'[v] = origin[v]
      BY <1>1, <1>4
    <2>3. ASSUME NEW v \in Writer, v # w, pc'[v] # "idle"
          PROVE  /\ Decoded(doc'[v]) /\ Originates(v)'
                 /\ User(v)' => pc'[v] = "done"
                 /\ ~User(v)' => Made(v)'
      <3>1. /\ Decoded(doc[v]) /\ Originates(v)
            /\ User(v) => pc[v] = "done"
            /\ ~User(v) => Made(v)
        BY <2>2, <2>3 DEF Edits
      <3>2. Originates(v)'
        <4>1. origin[v] # None =>
                origin[v] \in Writer /\ origin[v] # w /\ pc[origin[v]] # "idle"
          BY <1>1, <3>1 DEF Originates
        <4> QED
          BY <2>2, <2>3, <3>1, <4>1 DEF Originates
      <3>3. Made(v) => Made(v)'
        BY <1>3, <2>2, <2>3 DEF Made
      <3> QED
        BY <1>3, <2>2, <2>3, <3>1, <3>2, <3>3
    <2> QED
      BY <2>1, <2>2, <2>3
  <1>5. CASE ReadAndEdit(w)
    <2>1. PICK d : d = IF Readable(Current) THEN Edited(w, Current) ELSE Current
      OBVIOUS
    <2>2. PICK p : p = CASE ~Readable(Current) -> "failed"
                         [] Readable(Current) /\ d = Current -> "kept"
                         [] OTHER -> "made"
      OBVIOUS
    <2>3. PICK o : o = IF name = None THEN None ELSE origin[name]
      OBVIOUS
    <2>4. /\ doc' = [doc EXCEPT ![w] = d] /\ base' = [base EXCEPT ![w] = Current]
          /\ origin' = [origin EXCEPT ![w] = o] /\ pc' = [pc EXCEPT ![w] = p]
          /\ UNCHANGED <<name, onDisk, moved>> /\ ~User(w)
      <3>1. /\ doc' = [doc EXCEPT ![w] = d] /\ base' = [base EXCEPT ![w] = Current]
            /\ origin' = [origin EXCEPT ![w] = o]
            /\ UNCHANGED <<name, onDisk, moved>> /\ ~User(w)
        BY <1>5, <2>1, <2>3 DEF ReadAndEdit
      <3>2. doc'[w] = d
        BY <1>1, <3>1
      <3>3. pc' = [pc EXCEPT ![w] = p]
        BY <1>5, <2>2, <3>2 DEF ReadAndEdit, Goto
      <3> QED
        BY <3>1, <3>3
    <2>5. d \in Documents /\ Decoded(d) /\ Foreign(d) = Foreign(Current)
      BY <1>2, <2>1, <2>4, EditedKeeps
    <2>6. o \in Writer \cup {None} /\ p \in Pcs \ {"idle"}
      BY <1>1, <1>2, <2>2, <2>3 DEF Pcs
    <2>7. /\ p # "idle"
          /\ ~Readable(Current) => p = "failed"
          /\ Readable(Current) /\ d = Current => p = "kept"
      BY <2>2
    <2>8. /\ EditTypeOK'
          /\ \A v \in Writer : v # w =>
               /\ pc'[v] = pc[v] /\ doc'[v] = doc[v] /\ base'[v] = base[v]
               /\ origin'[v] = origin[v]
          /\ pc'[w] = p /\ doc'[w] = d /\ base'[w] = Current /\ origin'[w] = o
          /\ \A v \in Writer : v # w /\ pc'[v] # "idle" =>
               /\ Decoded(doc'[v]) /\ Originates(v)'
               /\ User(v)' => pc'[v] = "done"
               /\ ~User(v)' => Made(v)'
      BY <1>2, <1>4, <2>4, <2>5, <2>6
    <2>9. Made(w)'
      BY <1>2, <1>3, <2>1, <2>7, <2>8 DEF Made
    <2>10. Originates(w)'
      <3>1. CASE name = None
        BY <2>3, <2>5, <2>8, <3>1 DEF Originates, Current
      <3>2. CASE name # None
        <4>1. /\ o = origin[name] /\ Current = doc[name] /\ name \in Writer
              /\ Originates(name) /\ pc[name] # "idle"
          BY <1>2, <2>3, <3>2 DEF Current, Edits
        <4>2. o # None => o \in Writer /\ o # w /\ pc[o] # "idle"
          BY <1>1, <4>1 DEF Originates
        <4>3. Foreign(d) = Foreign(IF o = None THEN Empty ELSE doc[o])
          BY <2>5, <4>1 DEF Originates
        <4> QED
          BY <2>8, <4>2, <4>3 DEF Originates
      <3> QED
        BY <3>1, <3>2
    <2>11. \A v \in Range(moved') : pc'[v] # "idle" /\ (User(v)' \/ Readable(base'[v]))
      BY <1>1, <1>3, <2>4, <2>8 DEF Edits
    <2> QED
      BY <1>3, <2>4, <2>5, <2>8, <2>9, <2>10, <2>11 DEF Edits
  <1>6. CASE UserEdit(w)
    <2>1. /\ pc' = [pc EXCEPT ![w] = "done"] /\ origin' = [origin EXCEPT ![w] = w]
          /\ base' = base /\ moved' = Append(moved, w) /\ onDisk' = {w} /\ User(w)
          /\ doc' \in {[doc EXCEPT ![w] = d] : d \in Document}
      BY <1>6 DEF UserEdit, Goto
    <2>2. PICK d \in Document : doc' = [doc EXCEPT ![w] = d]
      BY <2>1
    <2>3. d \in Documents /\ Decoded(d)
      BY DocumentAssumption
    <2>4. base' = [base EXCEPT ![w] = base[w]] /\ base[w] \in Documents
      BY <1>1, <2>1
    <2>5. "done" \in Pcs \ {"idle"}
      BY DEF Pcs
    <2>6. /\ EditTypeOK'
          /\ \A v \in Writer : v # w =>
               /\ pc'[v] = pc[v] /\ doc'[v] = doc[v] /\ base'[v] = base[v]
               /\ origin'[v] = origin[v]
          /\ pc'[w] = "done" /\ doc'[w] = d /\ base'[w] = base[w] /\ origin'[w] = w
          /\ \A v \in Writer : v # w /\ pc'[v] # "idle" =>
               /\ Decoded(doc'[v]) /\ Originates(v)'
               /\ User(v)' => pc'[v] = "done"
               /\ ~User(v)' => Made(v)'
      BY <1>4, <2>1, <2>2, <2>3, <2>4, <2>5
    <2>7. Originates(w)'
      BY <2>6, NamesAssumption DEF Originates
    <2>8. Range(moved') = Range(moved) \cup {w}
      BY <1>1, <2>1, RangeAppend
    <2>9. \A v \in Range(moved') : pc'[v] # "idle" /\ (User(v)' \/ Readable(base'[v]))
      BY <1>1, <1>3, <2>1, <2>6, <2>8 DEF Edits
    <2> QED
      BY <1>3, <2>1, <2>3, <2>6, <2>7, <2>8, <2>9 DEF Edits
  <1> QED
    BY <1>5, <1>6

\* Of any other file there are no documents to speak of.
LEMMA OtherFile ==
  ASSUME EditTypeOK, file # "settings", TypeOK, Publishes
  PROVE  EditTypeOK' /\ file' = file
  BY DEF Publishes, EditTypeOK, edit, vars, setting, CreateDir, OpenTemp, Write, Sync, Move,
         FlushDir, MakeTmp, FlushRoot, Fails, PowerLoss

\* The file is published as Publish says, and every document in it was made of one
\* that was in it before, whoever edits it and whatever fails.
THEOREM InstallInvariant == HSpec => []HIInv
  <1>1. HInit => HIInv
    <2> SUFFICES ASSUME HInit PROVE HIInv
      OBVIOUS
    <2>1. IInv
      <3>1. TypeOK
        BY BoundAssumption DEF HInit, Init, TypeOK, Pcs, Replaced
      <3>2. Contents
        BY NamesAssumption DEF HInit, Init, Contents, At, Flushed
      <3>3. Order
        BY DEF HInit, Init, Order, At, Replaced
      <3> QED
        BY <3>1, <3>2, <3>3 DEF IInv
    <2>2. EditTypeOK
      BY EmptyDocument DEF HInit, EditTypeOK
    <2>3. Edits
      BY DEF HInit, Init, Edits, Range
    <2> QED
      BY <2>1, <2>2, <2>3 DEF HIInv
  <1>2. HIInv /\ [HNext]_<<vars, edit>> => HIInv'
    <2> SUFFICES ASSUME HIInv, [HNext]_<<vars, edit>> PROVE HIInv'
      OBVIOUS
    <2>1. IInv /\ EditTypeOK /\ (file = "settings" => Edits)
      BY DEF HIInv
    <2>2. CASE Publishes
      <3>1. IInv'
        BY <2>1, <2>2, PublishesNext, TypeStep, ContentsStep, OrderStep DEF IInv
      <3>2. CASE file = "settings"
        BY <2>1, <2>2, <3>1, <3>2, PublishesEdits DEF HIInv
      <3>3. CASE file # "settings"
        BY <2>1, <2>2, <3>1, <3>3, OtherFile DEF HIInv, IInv
      <3> QED
        BY <3>2, <3>3
    <2>3. ASSUME NEW w \in Writer, ReadAndEdit(w) \/ UserEdit(w) PROVE HIInv'
      <3>1. file = "settings"
        BY <2>3 DEF ReadAndEdit, UserEdit
      <3> QED
        BY <2>1, <2>3, <3>1, EditorsStep, EditorsEdits DEF HIInv
    <2> QED
      BY <2>2, <2>3, HSteps
  <1>3. QED
    BY <1>1, <1>2, PTL DEF HSpec

\* A settings file is found whole after a power failure, and what was reported as
\* written stays, although a user writes it too (writeAtomic).
THEOREM SettingsPublished == HSpec => [](NameIsComplete /\ SuccessSurvives)
  <1>1. HIInv => NameIsComplete /\ SuccessSurvives
    BY DEF HIInv, IInv, TypeOK, Contents, Flushed, NameIsComplete, Order, NotBefore, At,
           SuccessSurvives
  <1>2. QED
    BY <1>1, InstallInvariant, PTL

\* No number of registrations, updates and removals, in any order or at once, with
\* calls that fail and power that is lost, costs a user an entry or a rule (Apply,
\* Remove).
THEOREM ForeignKeptHolds == HSpec => []ForeignKept
  <1>1. HIInv => ForeignKept
    BY CurrentDocument DEF HIInv, ForeignKept, Edits, Originates
  <1>2. QED
    BY <1>1, InstallInvariant, PTL

\* What a run that has moved its file to the name has made.
LEMMA Published ==
  ASSUME HIInv, file = "settings", NEW v \in Range(moved), ~User(v)
  PROVE  /\ v \in Writer /\ base[v] \in Documents /\ Decoded(base[v]) /\ Readable(base[v])
         /\ doc[v] = Edited(v, base[v]) /\ doc[v] \in Documents /\ Decoded(doc[v])
         /\ Readable(doc[v]) /\ Edited(v, doc[v]) = doc[v]
         /\ Installs(v) => job[v][2] \in Install /\ doc[v] = Apply(base[v], job[v][2])
  <1>1. v \in Writer
    BY DEF HIInv, IInv, Order, Range
  <1>2. pc[v] # "idle" /\ Readable(base[v]) /\ Made(v)
    BY <1>1 DEF HIInv, Edits
  <1>3. base[v] \in Documents /\ Decoded(base[v]) /\ doc[v] = Edited(v, base[v])
    BY <1>1, <1>2 DEF HIInv, EditTypeOK, Made
  <1>4. ~(Installs(v) /\ Removes(v))
    BY DEF Installs, Removes
  <1> QED
    BY <1>1, <1>2, <1>3, <1>4, EditedKeeps DEF HIInv, Edited

\* A registration in the file is whole: one entry under each event, with the command
\* and the timeout that run asked for, and the rule (Apply).
THEOREM RegisteredWholeHolds == HSpec => []RegisteredWhole
  <1>1. HIInv => RegisteredWhole
    <2> SUFFICES ASSUME HIInv, file = "settings", name # None, Installs(name)
                 PROVE  /\ \A e \in Event :
                             RegisteredOnce(doc[name].hooks.at[e].groups, e, job[name][2])
                        /\ AllowRule \in Range(doc[name].permissions.allow.rules)
      BY DEF RegisteredWhole
    <2>1. name \in Range(moved) /\ ~User(name)
      BY CurrentDocument DEF HIInv, Installs, User
    <2> QED
      BY <2>1, Published, ApplyKeeps
  <1>2. QED
    BY <1>1, InstallInvariant, PTL

\* The rollback gives back the document one registration, or a second over it, was
\* made in (Remove).
THEOREM RemoveRestoresHolds == HSpec => []RemoveRestores
  <1>1. HIInv => RemoveRestores
    <2> SUFFICES ASSUME HIInv, file = "settings", NEW w \in Writer, NEW v \in Writer,
                        Removes(w), Installs(v), From(w, v), NEW u \in Writer,
                        u = v \/ (Installs(u) /\ From(v, u)), Plain(base[u])
                 PROVE  doc[w] = base[u]
      BY DEF RemoveRestores
    <2>1. ~User(w) /\ ~User(v) /\ v \in Range(moved) /\ base[w] = doc[v]
      BY DEF From, Ran, Installs, User
    <2>2. /\ base[v] \in Documents /\ Decoded(base[v]) /\ job[v][2] \in Install
          /\ doc[v] = Apply(base[v], job[v][2]) /\ Readable(doc[v])
      BY <2>1, Published
    <2>3. doc[w] = Unregister(doc[v])
      <3>1. Made(w)
        BY <2>1 DEF HIInv, Edits, From, Ran
      <3> QED
        BY <2>1, <2>2, <3>1 DEF Made, Edited
    <2>4. base[u] \in Documents /\ Decoded(base[u]) /\ Over(doc[v], base[u])
      <3>1. CASE u = v
        BY <2>2, <3>1, ApplyOver
      <3>2. CASE Installs(u) /\ From(v, u)
        <4>1. ~User(u) /\ u \in Range(moved) /\ base[v] = doc[u]
          BY <3>2 DEF From, Ran, Installs, User
        <4>2. /\ base[u] \in Documents /\ Decoded(base[u]) /\ job[u][2] \in Install
              /\ doc[u] = Apply(base[u], job[u][2])
          BY <3>2, <4>1, Published
        <4>3. Over(base[v], base[u])
          BY <4>1, <4>2, ApplyOver
        <4> QED
          BY <2>2, <4>2, <4>3, ApplyOver
      <3> QED
        BY <3>1, <3>2
    <2> QED
      BY <2>3, <2>4, OverPlain
  <1>2. QED
    BY <1>1, InstallInvariant, PTL

\* A run that reads what the same run has left does not touch the file
\* (ApplySettingsFile).
THEOREM SecondRunWritesNothingHolds == HSpec => []SecondRunWritesNothing
  <1>1. HIInv => SecondRunWritesNothing
    <2> SUFFICES ASSUME HIInv, file = "settings", NEW w \in Writer, NEW v \in Writer,
                        job[w] = job[v], ~User(w), From(w, v)
                 PROVE  pc[w] = "kept"
      BY DEF SecondRunWritesNothing
    <2>1. ~User(v) /\ v \in Range(moved) /\ base[w] = doc[v]
      BY DEF From, User
    <2>2. Readable(doc[v]) /\ Edited(v, doc[v]) = doc[v]
      BY <2>1, Published
    <2>3. Edited(w, doc[v]) = Edited(v, doc[v])
      BY DEF Edited, Removes
    <2>4. Made(w)
      BY DEF HIInv, Edits, From, Ran
    <2> QED
      BY <2>1, <2>2, <2>3, <2>4 DEF Made
  <1>2. QED
    BY <1>1, InstallInvariant, PTL
=============================================================================
