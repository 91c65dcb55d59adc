----------------------------- MODULE DataLemmas ------------------------------
(***************************************************************************)
(* Facts about numbers, sets and sequences that the proofs of several      *)
(* components share: induction, what it gives for recursive functions and  *)
(* folds, and what queues hold.                                            *)
(***************************************************************************)
EXTENDS Integers, SequencesExt, FiniteSetTheorems, TLAPS

-----------------------------------------------------------------------------
\* Induction over the natural numbers, for a set instead of a predicate.  If n were
\* missing, moving every member of S up by one would put 0..n into 1..n.
LEMMA NatSetInduction ==
  ASSUME NEW S, 0 \in S, \A n \in Nat : n \in S => n + 1 \in S
  PROVE  Nat \subseteq S
<1> SUFFICES ASSUME NEW n \in Nat, n \notin S PROVE FALSE
  OBVIOUS
<1> DEFINE f == [x \in 0..n |-> IF x \in S THEN x + 1 ELSE x]
<1>1. f \in [0..n -> 1..n]
  <2> SUFFICES ASSUME NEW x \in 0..n PROVE (IF x \in S THEN x + 1 ELSE x) \in 1..n
    OBVIOUS
  <2>1. x \in Nat /\ x <= n
    OBVIOUS
  <2> QED BY <2>1
<1>2. Cardinality(0..n) = n + 1 /\ Cardinality(1..n) = n /\ IsFiniteSet(0..n) /\ IsFiniteSet(1..n)
  BY FS_Interval
<1>3. PICK x \in 0..n, y \in 0..n : x # y /\ f[x] = f[y]
  <2> HIDE DEF f
  <2>1. Cardinality(1..n) < Cardinality(0..n)
    BY <1>2
  <2> QED BY <1>1, <1>2, <2>1, FS_PigeonHole
<1> QED
  BY <1>3

\* A bounded set of numbers that is not empty has a largest member.
LEMMA MaxOfSome ==
  ASSUME NEW n \in Nat, NEW T \in SUBSET (1..n), T # {}
  PROVE  Max(T) \in T /\ \A y \in T : y <= Max(T)
<1> DEFINE S == {k \in Nat : \A U \in SUBSET (1..k) : U # {} => \E x \in U : \A y \in U : y <= x}
<1>1. 0 \in S
  <2>1. 1..0 = {}
    OBVIOUS
  <2> QED
    BY <2>1
<1>2. ASSUME NEW k \in Nat, k \in S PROVE k + 1 \in S
  <2> SUFFICES ASSUME NEW U \in SUBSET (1..(k + 1)), U # {}
               PROVE  \E x \in U : \A y \in U : y <= x
    OBVIOUS
  <2>1. CASE k + 1 \in U
    BY <2>1
  <2>2. CASE k + 1 \notin U
    <3>1. U \in SUBSET (1..k)
      BY <2>2
    <3> QED
      BY <1>2, <3>1
  <2> QED
    BY <2>1, <2>2
<1>3. n \in S
  <2> HIDE DEF S
  <2> QED
    BY <1>1, <1>2, NatSetInduction
<1>4. \E x \in T : \A y \in T : x >= y
  BY <1>3
<1> QED
  BY <1>4 DEF Max

\* The largest member of an initial segment, which is what a fold takes off first.
LEMMA MaxOfSegment ==
  ASSUME NEW k \in Nat
  PROVE  Max(1..(k + 1)) = k + 1 /\ (1..(k + 1)) \ {k + 1} = 1..k /\ 1..(k + 1) # {}
<1> DEFINE J == 1..(k + 1)
<1>1. /\ k + 1 \in J /\ \A y \in J : y \in Nat /\ y <= k + 1
      /\ J \ {k + 1} = 1..k
  OBVIOUS
<1>2. Max(J) \in J /\ \A y \in J : y <= Max(J)
  <2>1. k + 1 \in Nat /\ J \in SUBSET (1..(k + 1)) /\ J # {}
    BY <1>1
  <2> HIDE DEF J
  <2> QED
    BY <2>1, MaxOfSome
<1> HIDE DEF J
<1>3. Max(J) = k + 1
  BY <1>1, <1>2
<1> QED
  BY <1>1, <1>3 DEF J

-----------------------------------------------------------------------------
\* What is in a queue after an append, and before its head is taken.
LEMMA ToSetAppend ==
  ASSUME NEW S, NEW s \in Seq(S), NEW e \in S
  PROVE  ToSet(Append(s, e)) = ToSet(s) \cup {e}
<1>1. /\ DOMAIN Append(s, e) = 1..(Len(s) + 1) /\ DOMAIN s = 1..Len(s) /\ Len(s) \in Nat
      /\ \A i \in 1..Len(s) : Append(s, e)[i] = s[i]
      /\ Append(s, e)[Len(s) + 1] = e
  OBVIOUS
<1> QED BY <1>1 DEF ToSet

LEMMA ToSetTail ==
  ASSUME NEW S, NEW s \in Seq(S), s # <<>>
  PROVE  ToSet(s) = {Head(s)} \cup ToSet(Tail(s)) /\ Head(s) \in S /\ Tail(s) \in Seq(S)
<1>1. /\ DOMAIN Tail(s) = 1..(Len(s) - 1) /\ DOMAIN s = 1..Len(s) /\ Len(s) \in Nat \ {0}
      /\ \A i \in 1..(Len(s) - 1) : Tail(s)[i] = s[i + 1]
      /\ Head(s) = s[1] /\ Head(s) \in S /\ Tail(s) \in Seq(S)
  OBVIOUS
<1>2. ASSUME NEW x \in ToSet(s) PROVE x \in {Head(s)} \cup ToSet(Tail(s))
  <2>1. PICK i \in 1..Len(s) : x = s[i]
    BY <1>1 DEF ToSet
  <2>2. CASE i = 1
    BY <1>1, <2>1, <2>2
  <2>3. CASE i # 1
    <3>1. i - 1 \in 1..(Len(s) - 1) /\ (i - 1) + 1 = i
      BY <1>1, <2>3
    <3>2. Tail(s)[i - 1] = x
      BY <1>1, <2>1, <3>1
    <3> QED BY <1>1, <3>1, <3>2 DEF ToSet
  <2> QED BY <2>2, <2>3
<1>3. ASSUME NEW x \in ToSet(Tail(s)) PROVE x \in ToSet(s)
  <2>1. PICK i \in 1..(Len(s) - 1) : x = s[i + 1]
    BY <1>1 DEF ToSet
  <2> QED BY <1>1, <2>1 DEF ToSet
<1>4. Head(s) \in ToSet(s)
  BY <1>1 DEF ToSet
<1> QED BY <1>1, <1>2, <1>3, <1>4

-----------------------------------------------------------------------------
\* The concatenation of some sequences: the recursive function of FlattenSeq exists,
\* for one more sequence at a time.
LEMMA FlattenExists ==
  ASSUME NEW n \in Nat, NEW seqs
  PROVE  \E f : f = [i \in 1..n |-> IF i = 1 THEN seqs[i] ELSE f[i - 1] \o seqs[i]]
<1> DEFINE Turn(f, i) == IF i = 1 THEN seqs[i] ELSE f[i - 1] \o seqs[i]
           Solves(f, k) == f = [i \in 1..k |-> Turn(f, i)]
           K == {k \in Nat : \E f : Solves(f, k)}
<1>1. 0 \in K
  <2>1. \A f : [i \in 1..0 |-> Turn(f, i)] = [i \in {} |-> {}]
    OBVIOUS
  <2> QED
    BY <2>1
<1>2. ASSUME NEW k \in Nat, k \in K PROVE k + 1 \in K
  <2>1. PICK f : Solves(f, k)
    BY <1>2
  <2> DEFINE g == [i \in 1..(k + 1) |-> IF i <= k THEN f[i] ELSE Turn(f, i)]
  <2>2. ASSUME NEW i \in 1..(k + 1) PROVE g[i] = Turn(g, i)
    <3>1. i = 1 \/ i - 1 \in 1..k
      OBVIOUS
    <3>2. i # 1 => g[i - 1] = f[i - 1]
      BY <3>1
    <3>3. i <= k => f[i] = Turn(f, i)
      <4> HIDE DEF Turn
      <4> QED
        BY <2>1
    <3>4. g[i] = Turn(f, i)
      BY <3>3
    <3> HIDE DEF g
    <3> QED
      BY <3>2, <3>4
  <2>3. g = [i \in 1..(k + 1) |-> g[i]]
    OBVIOUS
  <2>4. Solves(g, k + 1)
    <3> HIDE DEF g
    <3> QED
      BY <2>2, <2>3
  <2> HIDE DEF g, Solves
  <2> QED
    BY <2>4
<1>3. n \in K
  <2> HIDE DEF K
  <2> QED
    BY <1>1, <1>2, NatSetInduction
<1> QED
  BY <1>3

\* So FlattenSeq gives a sequence, which holds what each of them holds.
LEMMA FlattenParts ==
  ASSUME NEW S, NEW n \in Nat, NEW seqs \in [1..n -> Seq(S)]
  PROVE  /\ FlattenSeq(seqs) \in Seq(S)
         /\ \A i \in 1..n : \A x \in ToSet(seqs[i]) : x \in ToSet(FlattenSeq(seqs))
<1> DEFINE Turn(f, i) == IF i = 1 THEN seqs[i] ELSE f[i - 1] \o seqs[i]
           Solves(f) == f = [i \in 1..n |-> Turn(f, i)]
           h == CHOOSE f : Solves(f)
<1>1. Len(seqs) = n
  OBVIOUS
<1>2. CASE n = 0
  <2>1. FlattenSeq(seqs) = seqs /\ seqs \in Seq(S) /\ 1..n = {}
    BY <1>1, <1>2 DEF FlattenSeq
  <2> QED
    BY <2>1
<1>3. CASE n # 0
  <2>1. FlattenSeq(seqs) = h[n]
    BY <1>1, <1>3 DEF FlattenSeq
  <2>2. Solves(h)
    <3>1. \E f : Solves(f)
      BY FlattenExists
    <3> HIDE DEF Solves
    <3> QED
      BY <3>1
  <2>3. ASSUME NEW i \in 1..n PROVE h[i] = Turn(h, i)
    BY <2>2
  <2> HIDE DEF h
  <2> DEFINE K == {k \in Nat : k \in 1..n => /\ h[k] \in Seq(S)
                                            /\ \A i \in 1..k : ToSet(seqs[i]) \subseteq ToSet(h[k])}
  <2>4. 0 \in K
    OBVIOUS
  <2>5. ASSUME NEW k \in Nat, k \in K PROVE k + 1 \in K
    <3> SUFFICES ASSUME k + 1 \in 1..n
                 PROVE  /\ h[k + 1] \in Seq(S)
                        /\ \A i \in 1..(k + 1) : ToSet(seqs[i]) \subseteq ToSet(h[k + 1])
      OBVIOUS
    <3>1. CASE k = 0
      <4>1. h[k + 1] = seqs[k + 1] /\ \A i \in 1..(k + 1) : i = k + 1
        BY <2>3, <3>1
      <4> QED
        BY <4>1
    <3>2. CASE k # 0
      <4>1. /\ h[k + 1] = h[k] \o seqs[k + 1] /\ h[k] \in Seq(S) /\ seqs[k + 1] \in Seq(S)
            /\ \A i \in 1..k : ToSet(seqs[i]) \subseteq ToSet(h[k])
        <5>1. k \in 1..n /\ k + 1 # 1 /\ (k + 1) - 1 = k
          BY <3>2
        <5>2. h[k + 1] = h[k] \o seqs[k + 1]
          BY <2>3, <5>1
        <5> QED
          BY <2>5, <5>1, <5>2
      <4> DEFINE a == h[k]
                 b == seqs[k + 1]
      <4> HIDE DEF a, b
      <4>2. a \in Seq(S) /\ b \in Seq(S)
        BY <4>1 DEF a, b
      <4>3. ToSet(a) \subseteq ToSet(a \o b) /\ ToSet(b) \subseteq ToSet(a \o b)
        <5>1. /\ DOMAIN (a \o b) = 1..(Len(a) + Len(b)) /\ DOMAIN a = 1..Len(a)
              /\ DOMAIN b = 1..Len(b) /\ Len(a) \in Nat /\ Len(b) \in Nat
              /\ \A i \in 1..Len(a) : (a \o b)[i] = a[i]
              /\ \A i \in 1..Len(b) : (a \o b)[Len(a) + i] = b[i]
          BY <4>2
        <5>2. \A i \in 1..Len(b) : Len(a) + i \in DOMAIN (a \o b)
          BY <5>1
        <5>3. \A i \in 1..Len(a) : i \in DOMAIN (a \o b)
          BY <5>1
        <5> QED
          BY <5>1, <5>2, <5>3 DEF ToSet
      <4>4. a \o b \in Seq(S)
        BY <4>2
      <4>5. \A i \in 1..(k + 1) : i \in 1..k \/ i = k + 1
        OBVIOUS
      <4> QED
        BY <4>1, <4>3, <4>4, <4>5 DEF a, b
    <3> QED
      BY <3>1, <3>2
  <2>6. n \in K
    <3> HIDE DEF K
    <3> QED
      BY <2>4, <2>5, NatSetInduction
  <2> QED
    BY <1>3, <2>1, <2>6
<1> QED
  BY <1>2, <1>3

-----------------------------------------------------------------------------
\* How many messages of a kind, the members of X, stand in a queue after the k-th.
PlacesAfter(q, X, k) == {i \in 1..Len(q) : i > k /\ q[i] \in X}

CountAfter(q, X, k) == Cardinality(PlacesAfter(q, X, k))

LEMMA CountType ==
  ASSUME NEW S, NEW q \in Seq(S), NEW X, NEW k \in Nat
  PROVE  /\ IsFiniteSet(PlacesAfter(q, X, k))
         /\ CountAfter(q, X, k) \in Nat
<1>1. IsFiniteSet(1..Len(q))
  BY FS_Interval
<1>2. PlacesAfter(q, X, k) \in SUBSET (1..Len(q))
  BY DEF PlacesAfter
<1>3. IsFiniteSet(PlacesAfter(q, X, k))
  BY <1>1, <1>2, FS_Subset
<1> QED
  BY <1>3, FS_CardinalityType DEF CountAfter

LEMMA CountNone ==
  ASSUME NEW X, NEW k
  PROVE  CountAfter(<<>>, X, k) = 0
<1>1. PlacesAfter(<<>>, X, k) = {}
  BY DEF PlacesAfter
<1> QED
  BY <1>1, FS_EmptySet DEF CountAfter

\* A message that is appended counts, wherever one starts to count.
LEMMA CountAppend ==
  ASSUME NEW S, NEW q \in Seq(S), NEW m \in S, NEW X, NEW k \in Nat, k <= Len(q)
  PROVE  CountAfter(Append(q, m), X, k) = CountAfter(q, X, k) + (IF m \in X THEN 1 ELSE 0)
<1> DEFINE n == Len(q) + 1
<1>1. /\ Len(Append(q, m)) = n /\ Len(q) \in Nat /\ Append(q, m)[n] = m
      /\ \A i \in 1..Len(q) : Append(q, m)[i] = q[i]
  OBVIOUS
<1>2. n \notin PlacesAfter(q, X, k)
  BY <1>1 DEF PlacesAfter
<1>3. PlacesAfter(Append(q, m), X, k) = PlacesAfter(q, X, k) \cup (IF m \in X THEN {n} ELSE {})
  BY <1>1 DEF PlacesAfter
<1>4. IsFiniteSet(PlacesAfter(q, X, k)) /\ CountAfter(q, X, k) \in Nat
  BY CountType
<1>5. Cardinality(PlacesAfter(q, X, k) \cup {n}) = Cardinality(PlacesAfter(q, X, k)) + 1
  BY <1>2, <1>4, FS_AddElement
<1>6. CASE m \in X
  BY <1>3, <1>5, <1>6 DEF CountAfter
<1>7. CASE m \notin X
  BY <1>3, <1>4, <1>7 DEF CountAfter
<1> QED
  BY <1>6, <1>7

\* Taking the head moves every message up by one.
LEMMA CountTail ==
  ASSUME NEW S, NEW q \in Seq(S), q # <<>>, NEW X, NEW k \in Nat
  PROVE  CountAfter(Tail(q), X, k) = CountAfter(q, X, k + 1)
<1> DEFINE P == PlacesAfter(Tail(q), X, k)
           Q == PlacesAfter(q, X, k + 1)
           f == [i \in P |-> i + 1]
<1>1. /\ Tail(q) \in Seq(S) /\ Len(q) \in Nat \ {0} /\ Len(Tail(q)) = Len(q) - 1
      /\ \A i \in 1..(Len(q) - 1) : Tail(q)[i] = q[i + 1]
  OBVIOUS
<1>2. \A i \in P : i \in Nat /\ i + 1 \in Q
  BY <1>1 DEF PlacesAfter
<1>3. \A j \in Q : j - 1 \in P /\ (j - 1) + 1 = j
  <2> SUFFICES ASSUME NEW j \in Q PROVE j - 1 \in P /\ (j - 1) + 1 = j
    OBVIOUS
  <2>1. j \in Nat /\ j > k + 1 /\ j <= Len(q) /\ q[j] \in X
    BY <1>1 DEF PlacesAfter
  <2>2. j - 1 \in 1..(Len(q) - 1) /\ (j - 1) + 1 = j /\ j - 1 > k
    BY <1>1, <2>1
  <2>3. Tail(q)[j - 1] = q[j]
    BY <1>1, <2>2
  <2> QED
    BY <1>1, <2>1, <2>2, <2>3 DEF PlacesAfter
<1>4. IsFiniteSet(P)
  BY <1>1, CountType
<1> HIDE DEF P, Q
<1>5. f \in Bijection(P, Q)
  <2>1. f \in [P -> Q] /\ \A i \in P : f[i] = i + 1
    BY <1>2
  <2>2. \A i, j \in P : f[i] = f[j] => i = j
    BY <1>2, <2>1
  <2>3. \A j \in Q : \E i \in P : f[i] = j
    BY <1>3, <2>1
  <2> HIDE DEF f
  <2> QED
    BY <2>1, <2>2, <2>3 DEF Bijection, Injection, Surjection, IsInjective
<1>6. ExistsBijection(P, Q)
  BY <1>5 DEF ExistsBijection
<1> QED
  BY <1>4, <1>6, FS_Bijection DEF CountAfter, P, Q

\* The head counts when one counts from the start.
LEMMA CountHead ==
  ASSUME NEW S, NEW q \in Seq(S), q # <<>>, NEW X
  PROVE  CountAfter(q, X, 0) = CountAfter(Tail(q), X, 0) + (IF Head(q) \in X THEN 1 ELSE 0)
<1>1. Len(q) \in Nat \ {0} /\ Head(q) = q[1] /\ Tail(q) \in Seq(S)
  OBVIOUS
<1>2. PlacesAfter(q, X, 0) = PlacesAfter(q, X, 1) \cup (IF Head(q) \in X THEN {1} ELSE {})
  BY <1>1 DEF PlacesAfter
<1>3. 1 \notin PlacesAfter(q, X, 1)
  BY DEF PlacesAfter
<1>4. IsFiniteSet(PlacesAfter(q, X, 1)) /\ CountAfter(q, X, 1) \in Nat
  BY CountType
<1>5. Cardinality(PlacesAfter(q, X, 1) \cup {1}) = Cardinality(PlacesAfter(q, X, 1)) + 1
  BY <1>3, <1>4, FS_AddElement
<1>6. CountAfter(Tail(q), X, 0) = CountAfter(q, X, 1)
  BY CountTail
<1>7. CASE Head(q) \in X
  BY <1>2, <1>5, <1>6, <1>7 DEF CountAfter
<1>8. CASE Head(q) \notin X
  <2>1. PlacesAfter(q, X, 0) = PlacesAfter(q, X, 1)
    BY <1>2, <1>8
  <2>2. CountAfter(q, X, 0) = CountAfter(q, X, 1)
    BY <2>1 DEF CountAfter
  <2> QED
    BY <1>4, <1>6, <1>8, <2>2
<1> QED
  BY <1>7, <1>8

LEMMA CountPastEnd ==
  ASSUME NEW S, NEW q \in Seq(S), NEW X
  PROVE  CountAfter(q, X, Len(q)) = 0
<1>1. PlacesAfter(q, X, Len(q)) = {}
  BY DEF PlacesAfter
<1> QED
  BY <1>1, FS_EmptySet DEF CountAfter

\* A queue with fewer places of them, and one with a place less.
LEMMA CountFewer ==
  ASSUME NEW S, NEW q \in Seq(S), NEW r, NEW X, NEW k \in Nat,
         PlacesAfter(r, X, k) \subseteq PlacesAfter(q, X, k)
  PROVE  /\ CountAfter(r, X, k) \in Nat /\ CountAfter(r, X, k) <= CountAfter(q, X, k)
         /\ \A i \in PlacesAfter(q, X, k) \ PlacesAfter(r, X, k) :
              CountAfter(r, X, k) + 1 <= CountAfter(q, X, k)
<1> DEFINE P == PlacesAfter(q, X, k)
           N == PlacesAfter(r, X, k)
<1>1. IsFiniteSet(P) /\ N \subseteq P /\ Cardinality(P) \in Nat
  BY CountType, FS_CardinalityType
<1> HIDE DEF P, N
<1>2. IsFiniteSet(N) /\ Cardinality(N) <= Cardinality(P)
  BY <1>1, FS_Subset
<1>3. Cardinality(N) \in Nat
  BY <1>2, FS_CardinalityType
<1>4. ASSUME NEW i \in P \ N PROVE Cardinality(N) + 1 <= Cardinality(P)
  <2>1. IsFiniteSet(P \ {i}) /\ Cardinality(P \ {i}) = Cardinality(P) - 1
    BY <1>1, FS_RemoveElement
  <2>2. N \subseteq P \ {i}
    BY <1>1
  <2>3. Cardinality(N) <= Cardinality(P \ {i})
    BY <2>1, <2>2, FS_Subset
  <2> QED
    BY <1>1, <1>3, <2>1, <2>3
<1> QED
  BY <1>2, <1>3, <1>4 DEF CountAfter, P, N

\* A queue in which one of them stands.
LEMMA CountSome ==
  ASSUME NEW S, NEW q \in Seq(S), NEW X, NEW i \in 1..Len(q), q[i] \in X
  PROVE  CountAfter(q, X, 0) >= 1
<1>1. i \in PlacesAfter(q, X, 0)
  BY DEF PlacesAfter
<1>2. IsFiniteSet(PlacesAfter(q, X, 0)) /\ CountAfter(q, X, 0) \in Nat
  BY CountType
<1>3. CountAfter(q, X, 0) # 0
  BY <1>1, <1>2, FS_EmptySet DEF CountAfter
<1> QED
  BY <1>2, <1>3

-----------------------------------------------------------------------------
\* The sum of a function over a finite set, as the number of its units.
Units(I, f) == UNION {{v} \X (1..f[v]) : v \in I}

Total(I, f) == Cardinality(Units(I, f))

LEMMA UnitsAre ==
  ASSUME NEW I, NEW f
  PROVE  \A x : x \in Units(I, f) <=> \E v \in I : \E i \in 1..f[v] : x = <<v, i>>
<1>1. ASSUME NEW x \in Units(I, f) PROVE \E v \in I : \E i \in 1..f[v] : x = <<v, i>>
  <2>1. PICK v \in I : x \in {v} \X (1..f[v])
    BY DEF Units
  <2> QED
    BY <2>1
<1>2. ASSUME NEW v \in I, NEW i \in 1..f[v] PROVE <<v, i>> \in Units(I, f)
  <2>1. <<v, i>> \in {v} \X (1..f[v])
    OBVIOUS
  <2> QED
    BY <2>1 DEF Units
<1> QED
  BY <1>1, <1>2

LEMMA TotalType ==
  ASSUME NEW I, IsFiniteSet(I), NEW f \in [I -> Nat]
  PROVE  IsFiniteSet(Units(I, f)) /\ Total(I, f) \in Nat
<1> DEFINE G == [v \in I |-> {v} \X (1..f[v])]
           R == {{v} \X (1..f[v]) : v \in I}
<1>1. G \in Surjection(I, R)
  BY DEF Surjection
<1>2. IsFiniteSet(R)
  <2> HIDE DEF G, R
  <2> QED
    BY <1>1, FS_Surjection
<1>3. \A T \in R : IsFiniteSet(T)
  <2> SUFFICES ASSUME NEW v \in I PROVE IsFiniteSet({v} \X (1..f[v]))
    OBVIOUS
  <2>1. IsFiniteSet({v})
    BY FS_Singleton
  <2>2. 1 \in Int /\ f[v] \in Int
    OBVIOUS
  <2>3. IsFiniteSet(1..f[v])
    BY <2>2, FS_Interval
  <2> QED
    BY <2>1, <2>3, FS_Product
<1>4. IsFiniteSet(UNION R)
  <2> HIDE DEF R
  <2> QED
    BY <1>2, <1>3, FS_UNION
<1>5. IsFiniteSet(Units(I, f))
  BY <1>4 DEF Units
<1> QED
  BY <1>5, FS_CardinalityType DEF Total

LEMMA TotalOfNone ==
  ASSUME NEW I, NEW f, \A v \in I : f[v] = 0
  PROVE  Total(I, f) = 0
<1>1. Units(I, f) = {}
  BY UnitsAre
<1> QED
  BY <1>1, FS_EmptySet DEF Total

\* A function that is nowhere lower has no lower sum, and one that is higher
\* somewhere has a higher one.
LEMMA TotalGrows ==
  ASSUME NEW I, IsFiniteSet(I), NEW f \in [I -> Nat], NEW g \in [I -> Nat],
         \A v \in I : f[v] <= g[v]
  PROVE  /\ Total(I, f) <= Total(I, g)
         /\ (\E v \in I : f[v] < g[v]) => Total(I, f) + 1 <= Total(I, g)
<1>1. Units(I, f) \in SUBSET Units(I, g)
  <2>1. \A v \in I : 1..f[v] \subseteq 1..g[v]
    OBVIOUS
  <2> QED
    BY <2>1, UnitsAre
<1>2. /\ IsFiniteSet(Units(I, g)) /\ Total(I, f) \in Nat /\ Total(I, g) \in Nat
  BY TotalType
<1>3. Total(I, f) <= Total(I, g) /\ (Total(I, g) = Total(I, f) => Units(I, g) = Units(I, f))
  BY <1>1, <1>2, FS_Subset DEF Total
<1>4. ASSUME NEW v \in I, f[v] < g[v] PROVE Units(I, g) # Units(I, f)
  <2>1. g[v] \in 1..g[v] /\ g[v] \notin 1..f[v]
    BY <1>4
  <2>2. <<v, g[v]>> \in Units(I, g) /\ <<v, g[v]>> \notin Units(I, f)
    BY <2>1, UnitsAre
  <2> QED
    BY <2>2
<1> QED
  BY <1>2, <1>3, <1>4

\* One that is lower by one in one place and nowhere else has a sum lower by one at most.
LEMMA TotalShrinks ==
  ASSUME NEW I, IsFiniteSet(I), NEW f \in [I -> Nat], NEW g \in [I -> Nat], NEW w \in I,
         \A v \in I \ {w} : f[v] <= g[v], f[w] <= g[w] + 1
  PROVE  Total(I, f) <= Total(I, g) + 1
<1> DEFINE U == Units(I, g)
           x == <<w, f[w]>>
<1>1. Units(I, f) \in SUBSET (U \cup {x})
  <2> SUFFICES ASSUME NEW v \in I, NEW i \in 1..f[v] PROVE <<v, i>> \in U \cup {x}
    BY UnitsAre
  <2>1. CASE v # w
    <3>1. i \in 1..g[v]
      BY <2>1
    <3> QED
      BY <3>1, UnitsAre
  <2>2. CASE v = w
    <3>1. i = f[w] \/ i \in 1..g[w]
      BY <2>2
    <3> QED
      BY <2>2, <3>1, UnitsAre
  <2> QED
    BY <2>1, <2>2
<1>2. IsFiniteSet(U) /\ Total(I, f) \in Nat /\ Total(I, g) \in Nat
  BY TotalType
<1> HIDE DEF U, x
<1>3. IsFiniteSet(U \cup {x}) /\ Cardinality(U \cup {x}) = IF x \in U THEN Cardinality(U) ELSE Cardinality(U) + 1
  BY <1>2, FS_AddElement
<1>4. Cardinality(Units(I, f)) <= Cardinality(U \cup {x})
  BY <1>1, <1>3, FS_Subset
<1>5. Cardinality(U) = Total(I, g) /\ Cardinality(Units(I, f)) = Total(I, f)
  BY DEF Total, U
<1> QED
  BY <1>2, <1>3, <1>4, <1>5
=============================================================================
