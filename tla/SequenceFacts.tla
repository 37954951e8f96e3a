---------------------------- MODULE SequenceFacts ----------------------------
(***************************************************************************)
(* What several proofs need of numbers and sequences and the library does  *)
(* not have: induction as the least element of a set of counterexamples,   *)
(* and with it what FlattenSeq gives for sequences of any length.          *)
(***************************************************************************)
EXTENDS Integers, SequencesExt, FiniteSetsExt, SequenceTheorems, WellFoundedInduction, TLAPS

(* A set of numbers has a least element. *)
LEMMA LeastNat ==
  ASSUME NEW T, T \subseteq Nat, T # {}
  PROVE  \E n \in T : \A m \in T : n <= m
<1>1. PICK n \in T : \A m \in T : ~(<<m, n>> \in OpToRel(<, Nat))
  BY NatLessThanWellFounded, WFMin
<1>2. \A m \in T : ~(m < n)
  BY <1>1 DEF OpToRel
<1> QED
  BY <1>2

(* A function on the first n numbers is a sequence of that length. *)
LEMMA FunctionAsSeq ==
  ASSUME NEW C, NEW n \in Nat, NEW f \in [1 .. n -> C]
  PROVE  f \in Seq(C) /\ Len(f) = n
<1>1. f \in Seq(C)
  BY SeqDef
<1> QED
  BY <1>1, LenProperties

(* The recursive function in FlattenSeq exists: a solution for the first m *)
(* pieces can be continued.                                                *)
LEMMA FlattenRecursion ==
  ASSUME NEW ss, Len(ss) \in Nat, Len(ss) # 0
  PROVE  \E f : /\ f = [i \in 1 .. Len(ss) |-> IF i = 1 THEN ss[i] ELSE f[i - 1] \o ss[i]]
                /\ FlattenSeq(ss) = f[Len(ss)]
<1> DEFINE Is(m, f) == f = [i \in 1 .. m |-> IF i = 1 THEN ss[i] ELSE f[i - 1] \o ss[i]]
<1>1. \A m \in Nat : \E f : Is(m, f)
  <2> SUFFICES ASSUME NEW x \in Nat, ~ \E f : Is(x, f) PROVE FALSE
    OBVIOUS
  <2> DEFINE Bad == {m \in Nat : ~ \E f : Is(m, f)}
  <2> HIDE DEF Is
  <2>1. PICK m \in Bad : \A k \in Bad : m <= k
    <3>1. Bad \subseteq Nat /\ x \in Bad
      OBVIOUS
    <3> HIDE DEF Bad
    <3> QED
      BY <3>1, LeastNat
  <2>2. PICK f : m # 0 => Is(m - 1, f)
    <3>1. ASSUME m # 0 PROVE \E f : Is(m - 1, f)
      <4>1. m \in Nat /\ m - 1 \in Nat /\ ~(m <= m - 1)
        BY <2>1, <3>1
      <4>2. m - 1 \notin Bad
        <5> HIDE DEF Bad
        <5> QED
          BY <2>1, <4>1
      <4> QED
        BY <4>1, <4>2
    <3> QED
      BY <3>1
  <2> DEFINE g == [i \in 1 .. m |-> IF i <= m - 1 THEN f[i]
                                    ELSE IF i = 1 THEN ss[i] ELSE f[i - 1] \o ss[i]]
  <2>3. ASSUME NEW i \in 1 .. m
        PROVE  g[i] = IF i = 1 THEN ss[i] ELSE g[i - 1] \o ss[i]
    <3>1. CASE i <= m - 1
      <4>1. i \in 1 .. m - 1 /\ (i # 1 => i - 1 \in 1 .. m /\ i - 1 <= m - 1)
        BY <2>1, <3>1
      <4>2. m \in Nat /\ m # 0
        BY <2>1, <3>1
      <4>3. f = [j \in 1 .. m - 1 |-> IF j = 1 THEN ss[j] ELSE f[j - 1] \o ss[j]]
        BY <2>2, <4>2 DEF Is
      <4>4. f[i] = IF i = 1 THEN ss[i] ELSE f[i - 1] \o ss[i]
        BY <4>1, <4>3
      <4> QED
        BY <3>1, <4>1, <4>4
    <3>2. CASE i = m
      BY <2>1, <3>2
    <3> QED
      BY <2>1, <3>1, <3>2
  <2>4. Is(m, g)
    BY <2>3 DEF Is
  <2> QED
    BY <2>1, <2>4
<1> DEFINE flatten == CHOOSE f : Is(Len(ss), f)
<1>2. Is(Len(ss), flatten)
  BY <1>1
<1>3. FlattenSeq(ss) = flatten[Len(ss)]
  BY DEF FlattenSeq
<1> HIDE DEF flatten
<1> QED
  BY <1>2, <1>3

(* What contains the pieces and is closed under concatenation contains     *)
(* what FlattenSeq makes of them.                                          *)
LEMMA FlattenInto ==
  ASSUME NEW C, << >> \in C, \A s, t \in C : s \o t \in C, NEW ss \in Seq(C)
  PROVE  FlattenSeq(ss) \in C
<1>1. Len(ss) \in Nat /\ \A i \in 1 .. Len(ss) : ss[i] \in C
  BY ElementOfSeq, LenProperties
<1>2. CASE Len(ss) = 0
  <2>1. FlattenSeq(ss) = ss
    BY <1>2 DEF FlattenSeq
  <2> QED
    BY <1>2, <2>1, EmptySeq
<1>3. CASE Len(ss) # 0
  <2>1. PICK f : /\ f = [i \in 1 .. Len(ss) |-> IF i = 1 THEN ss[i] ELSE f[i - 1] \o ss[i]]
                 /\ FlattenSeq(ss) = f[Len(ss)]
    BY <1>1, <1>3, FlattenRecursion
  <2>2. \A i \in 1 .. Len(ss) : f[i] = IF i = 1 THEN ss[i] ELSE f[i - 1] \o ss[i]
    BY <2>1
  <2>3. \A i \in 1 .. Len(ss) : f[i] \in C
    <3> SUFFICES ASSUME NEW x \in 1 .. Len(ss), f[x] \notin C PROVE FALSE
      OBVIOUS
    <3> DEFINE Bad == {i \in 1 .. Len(ss) : f[i] \notin C}
    <3>1. PICK i \in Bad : \A k \in Bad : i <= k
      <4>1. Bad \subseteq Nat /\ x \in Bad
        BY <1>1
      <4> HIDE DEF Bad
      <4> QED
        BY <4>1, LeastNat
    <3>2. i # 1
      BY <1>1, <2>2, <3>1
    <3>3. i - 1 \in 1 .. Len(ss) /\ f[i - 1] \in C
      BY <1>1, <3>1, <3>2
    <3>4. f[i] = f[i - 1] \o ss[i]
      BY <2>2, <3>2
    <3> QED
      BY <1>1, <3>1, <3>3, <3>4
  <2>4. Len(ss) \in 1 .. Len(ss)
    BY <1>1, <1>3
  <2> QED
    BY <2>1, <2>3, <2>4
<1> QED
  BY <1>2, <1>3

(* FlattenSeq adds the pieces one after the other. *)
LEMMA FlattenSteps ==
  ASSUME NEW S, NEW ss \in Seq(Seq(S))
  PROVE  \E g \in [0 .. Len(ss) -> Seq(S)] :
           /\ g[0] = << >>
           /\ \A i \in 1 .. Len(ss) : g[i] = g[i - 1] \o ss[i]
           /\ FlattenSeq(ss) = g[Len(ss)]
<1>1. Len(ss) \in Nat /\ \A i \in 1 .. Len(ss) : ss[i] \in Seq(S)
  BY ElementOfSeq, LenProperties
<1>2. << >> \in Seq(S)
  BY EmptySeq
<1>3. CASE Len(ss) = 0
  <2> DEFINE g == [i \in 0 .. Len(ss) |-> << >>]
  <2>1. FlattenSeq(ss) = ss /\ ss = << >>
    BY <1>3, EmptySeq DEF FlattenSeq
  <2>2. g \in [0 .. Len(ss) -> Seq(S)] /\ g[0] = << >> /\ g[Len(ss)] = << >>
    BY <1>2, <1>3
  <2>3. \A i \in 1 .. Len(ss) : FALSE
    BY <1>3
  <2> HIDE DEF g
  <2> QED
    BY <2>1, <2>2, <2>3
<1>4. CASE Len(ss) # 0
  <2>1. PICK f : /\ f = [i \in 1 .. Len(ss) |-> IF i = 1 THEN ss[i] ELSE f[i - 1] \o ss[i]]
                 /\ FlattenSeq(ss) = f[Len(ss)]
    BY <1>1, <1>4, FlattenRecursion
  <2>2. \A i \in 1 .. Len(ss) : f[i] = IF i = 1 THEN ss[i] ELSE f[i - 1] \o ss[i]
    BY <2>1
  <2> DEFINE g == [i \in 0 .. Len(ss) |-> IF i = 0 THEN << >> ELSE f[i]]
  <2>3. g[0] = << >> /\ g[Len(ss)] = f[Len(ss)]
    BY <1>1, <1>4
  <2>4. \A i \in 1 .. Len(ss) : g[i] = g[i - 1] \o ss[i]
    <3> SUFFICES ASSUME NEW i \in 1 .. Len(ss) PROVE g[i] = g[i - 1] \o ss[i]
      OBVIOUS
    <3>1. i # 0 /\ i \in 0 .. Len(ss) /\ i - 1 \in 0 .. Len(ss)
      BY <1>1
    <3>2. CASE i = 1
      <4>1. g[i] = ss[i] /\ g[i - 1] = << >>
        BY <2>2, <3>1, <3>2
      <4>2. << >> \o ss[i] = ss[i]
        BY <1>1, ConcatEmptySeq
      <4> QED
        BY <4>1, <4>2
    <3>3. CASE i # 1
      <4>1. g[i] = f[i] /\ g[i - 1] = f[i - 1]
        BY <1>1, <3>1, <3>3
      <4> QED
        BY <2>2, <3>3, <4>1
    <3> QED
      BY <3>2, <3>3
  <2>5. g = [i \in 0 .. Len(ss) |-> g[i]]
    OBVIOUS
  <2> HIDE DEF g
  <2>6. \A i \in 0 .. Len(ss) : g[i] \in Seq(S)
    <3> SUFFICES ASSUME NEW x \in 0 .. Len(ss), g[x] \notin Seq(S) PROVE FALSE
      OBVIOUS
    <3> DEFINE Bad == {i \in 0 .. Len(ss) : g[i] \notin Seq(S)}
    <3>1. PICK i \in Bad : \A k \in Bad : i <= k
      <4>1. Bad \subseteq Nat /\ x \in Bad
        BY <1>1
      <4> HIDE DEF Bad
      <4> QED
        BY <4>1, LeastNat
    <3>2. i # 0
      BY <1>2, <2>3, <3>1
    <3>3. i \in 1 .. Len(ss) /\ i - 1 \in 0 .. Len(ss) /\ g[i - 1] \in Seq(S)
      BY <1>1, <3>1, <3>2
    <3>4. g[i - 1] \o ss[i] \in Seq(S)
      BY <1>1, <3>3, ConcatProperties
    <3> QED
      BY <2>4, <3>1, <3>3, <3>4
  <2>7. g \in [0 .. Len(ss) -> Seq(S)]
    BY <2>5, <2>6
  <2> QED
    BY <2>1, <2>3, <2>4, <2>7
<1> QED
  BY <1>3, <1>4

-----------------------------------------------------------------------------
(* Induction up to a number, over a set.                                   *)
LEMMA SetInduction ==
  ASSUME NEW n \in Nat, NEW T, 0 \in T, \A k \in 1 .. n : k - 1 \in T => k \in T
  PROVE  \A k \in 0 .. n : k \in T
<1> SUFFICES ASSUME NEW x \in 0 .. n, x \notin T PROVE FALSE
  OBVIOUS
<1> DEFINE Bad == {k \in 0 .. n : k \notin T}
<1>1. PICK m \in Bad : \A k \in Bad : m <= k
  <2>1. Bad \subseteq Nat /\ x \in Bad
    OBVIOUS
  <2> HIDE DEF Bad
  <2> QED
    BY <2>1, LeastNat
<1>2. m # 0 /\ m \in 1 .. n /\ m - 1 \in 0 .. n /\ ~(m <= m - 1)
  BY <1>1
<1> QED
  BY <1>1, <1>2

(* The greatest of some of the first n numbers, and of all of them.        *)
LEMMA MaxOfSome ==
  ASSUME NEW n \in Nat, NEW s \in SUBSET (1 .. n), s # {}
  PROVE  Max(s) \in s /\ \A x \in s : Max(s) >= x
<1> DEFINE T == {n - x : x \in s}
<1>1. \A x \in s : x \in Nat /\ n - x \in Nat
  <2>1. \A x \in s : x \in 1 .. n
    OBVIOUS
  <2> QED
    BY <2>1
<1>2. PICK m \in T : \A k \in T : m <= k
  <2>1. T \subseteq Nat /\ T # {}
    BY <1>1
  <2> HIDE DEF T
  <2> QED
    BY <2>1, LeastNat
<1>3. PICK x \in s : m = n - x
  BY <1>2
<1>4. \A y \in s : n - x <= n - y
  BY <1>2, <1>3
<1>5. \A y \in s : x >= y
  BY <1>1, <1>4
<1>6. \E y \in s : \A z \in s : y >= z
  BY <1>5
<1> QED
  BY <1>6 DEF Max

(* The least of them.                                                      *)
LEMMA MinOfSome ==
  ASSUME NEW n \in Nat, NEW s \in SUBSET (1 .. n), s # {}
  PROVE  Min(s) \in s /\ \A x \in s : Min(s) <= x
<1>1. s \subseteq Nat
  OBVIOUS
<1>2. \E x \in s : \A y \in s : x <= y
  BY <1>1, LeastNat
<1> QED
  BY <1>2 DEF Min

(* The greatest of all of the first numbers is the last.                   *)
LEMMA MaxOfAll ==
  ASSUME NEW n \in Nat, NEW k \in 1 .. n
  PROVE  Max(1 .. k) = k /\ (1 .. k) \ {k} = 1 .. k - 1
<1>1. k \in Nat /\ 1 .. k \in SUBSET (1 .. k) /\ k \in 1 .. k
  OBVIOUS
<1>2. Max(1 .. k) \in 1 .. k /\ Max(1 .. k) >= k
  BY <1>1, MaxOfSome
<1> QED
  BY <1>1, <1>2

(* A step of a fold over n places with values in V.                        *)
IsStep(n, V, base, h) == n \in Nat /\ base \in V /\ h \in [(1 .. n) \X V -> V]

(* What the recursive function in the folds of sequences satisfies, if a   *)
(* step is h of the place and what came before.                            *)
IsFold(n, base, h, it) ==
  \A s \in SUBSET (1 .. n) : it[s] = IF s = {} THEN base ELSE h[<<Max(s), it[s \ {Max(s)}]>>]

(* The recursive function in the folds of sequences exists: one for the    *)
(* first m places can be continued.                                        *)
LEMMA FoldRecursion ==
  ASSUME NEW n, NEW V, NEW base, NEW h, IsStep(n, V, base, h)
  PROVE  \E it \in [SUBSET (1 .. n) -> V] : IsFold(n, base, h, it)
<1> n \in Nat /\ base \in V /\ h \in [(1 .. n) \X V -> V]
  BY DEF IsStep
<1> USE DEF IsFold
<1> DEFINE Is(m, it) == IsFold(m, base, h, it)
           Some(m) == \E it \in [SUBSET (1 .. m) -> V] : Is(m, it)
<1>1. \A m \in 0 .. n : Some(m)
  <2> SUFFICES ASSUME NEW x \in 0 .. n, ~Some(x) PROVE FALSE
    OBVIOUS
  <2> DEFINE Bad == {m \in 0 .. n : ~Some(m)}
  <2> HIDE DEF Some
  <2>1. PICK m \in Bad : \A k \in Bad : m <= k
    <3>1. Bad \subseteq Nat /\ x \in Bad
      OBVIOUS
    <3> HIDE DEF Bad
    <3> QED
      BY <3>1, LeastNat
  <2>2. m \in 0 .. n /\ ~Some(m)
    BY <2>1
  <2>3. m # 0
    <3> DEFINE it == [s \in SUBSET (1 .. 0) |-> base]
    <3>1. it \in [SUBSET (1 .. 0) -> V]
      OBVIOUS
    <3>2. Is(0, it)
      OBVIOUS
    <3>3. Some(0)
      BY <3>1, <3>2 DEF Some
    <3> QED
      BY <2>2, <3>3
  <2>4. m - 1 \in 0 .. n /\ ~(m <= m - 1) /\ m \in 1 .. n
    BY <2>2, <2>3
  <2>5. Some(m - 1)
    BY <2>1, <2>4
  <2>6. PICK f \in [SUBSET (1 .. m - 1) -> V] : Is(m - 1, f)
    BY <2>5 DEF Some
  <2> DEFINE it == [s \in SUBSET (1 .. m) |-> IF m \in s THEN h[<<m, f[s \ {m}]>>] ELSE f[s]]
  <2>7. \A s \in SUBSET (1 .. m) : s \ {m} \in SUBSET (1 .. m - 1) /\ (m \notin s => s \in SUBSET (1 .. m - 1))
    <3>1. (1 .. m) \ {m} = 1 .. m - 1
      BY <2>4, MaxOfAll
    <3> QED
      BY <3>1
  <2>8. it \in [SUBSET (1 .. m) -> V]
    <3>1. ASSUME NEW s \in SUBSET (1 .. m) PROVE (IF m \in s THEN h[<<m, f[s \ {m}]>>] ELSE f[s]) \in V
      <4>1. f[s \ {m}] \in V
        BY <2>7
      <4>2. <<m, f[s \ {m}]>> \in (1 .. n) \X V
        BY <2>4, <4>1
      <4>3. h[<<m, f[s \ {m}]>>] \in V
        BY <4>2
      <4>4. m \notin s => f[s] \in V
        BY <2>7
      <4> QED
        BY <4>3, <4>4
    <3> QED
      BY <3>1
  <2>9. \A s \in SUBSET (1 .. m) : it[s] = IF m \in s THEN h[<<m, f[s \ {m}]>>] ELSE f[s]
    OBVIOUS
  <2> HIDE DEF it
  <2>10. Is(m, it)
    <3> SUFFICES ASSUME NEW s \in SUBSET (1 .. m)
                 PROVE  it[s] = IF s = {} THEN base ELSE h[<<Max(s), it[s \ {Max(s)}]>>]
      OBVIOUS
    <3>1. CASE m \in s
      <4>1. Max(s) = m
        <5>1. s # {} /\ m \in Nat
          BY <2>4, <3>1
        <5>2. Max(s) \in s /\ \A y \in s : Max(s) >= y
          BY <5>1, MaxOfSome
        <5>3. Max(s) \in 1 .. m /\ Max(s) >= m
          BY <3>1, <5>2
        <5> QED
          BY <5>1, <5>3
      <4>2. s \ {m} \in SUBSET (1 .. m) /\ m \notin s \ {m}
        OBVIOUS
      <4>3. it[s \ {m}] = f[s \ {m}]
        BY <2>9, <4>2
      <4> QED
        BY <2>9, <3>1, <4>1, <4>3
    <3>2. CASE m \notin s
      <4>1. s \in SUBSET (1 .. m - 1) /\ it[s] = f[s]
        BY <2>7, <2>9, <3>2
      <4>2. f[s] = IF s = {} THEN base ELSE h[<<Max(s), f[s \ {Max(s)}]>>]
        BY <2>6, <4>1
      <4>3. s \ {Max(s)} \in SUBSET (1 .. m) /\ m \notin s \ {Max(s)}
        BY <3>2
      <4>4. it[s \ {Max(s)}] = f[s \ {Max(s)}]
        BY <2>9, <4>3
      <4> QED
        BY <4>1, <4>2, <4>4
    <3> QED
      BY <3>1, <3>2
  <2>11. Some(m)
    BY <2>8, <2>10 DEF Some
  <2> QED
    BY <2>2, <2>11
<1>2. PICK it \in [SUBSET (1 .. n) -> V] : Is(n, it)
  <2>1. n \in 0 .. n
    OBVIOUS
  <2>2. Some(n)
    BY <1>1, <2>1
  <2> QED
    BY <2>2
<1> QED
  BY <1>2

(* It goes through the places one after the other: a function does so that *)
(* takes the step h wherever what came before is in V.                     *)
TakesSteps(n, V, base, h, it) ==
  /\ it[{}] = base
  /\ \A s \in SUBSET (1 .. n) : s # {} /\ it[s \ {Max(s)}] \in V => it[s] = h[<<Max(s), it[s \ {Max(s)}]>>]
IsChain(n, base, h, g) == g[0] = base /\ \A k \in 1 .. n : g[k] = h[<<k, g[k - 1]>>]

(* A fold over a sequence can be computed one element after the other.     *)
LEMMA FoldChain ==
  ASSUME NEW n, NEW V, NEW base, NEW h, IsStep(n, V, base, h), NEW it, TakesSteps(n, V, base, h, it)
  PROVE  \E g \in [0 .. n -> V] : IsChain(n, base, h, g) /\ g[n] = it[1 .. n]
<1> n \in Nat /\ base \in V /\ h \in [(1 .. n) \X V -> V]
  BY DEF IsStep
<1> DEFINE g == [k \in 0 .. n |-> it[1 .. k]]
           T == {k \in 0 .. n : g[k] \in V}
<1>1. g[0] = base /\ 0 \in 0 .. n /\ g[n] = it[1 .. n]
  <2>1. 1 .. 0 = {} /\ 0 \in 0 .. n /\ n \in 0 .. n
    OBVIOUS
  <2> QED
    BY <2>1 DEF TakesSteps
<1>2. ASSUME NEW k \in 1 .. n, g[k - 1] \in V
      PROVE  g[k] = h[<<k, g[k - 1]>>] /\ g[k] \in V
  <2>1. k \in 1 .. k /\ 1 .. k \in SUBSET (1 .. n) /\ k \in 0 .. n /\ k - 1 \in 0 .. n
    OBVIOUS
  <2>2. Max(1 .. k) = k /\ (1 .. k) \ {k} = 1 .. k - 1
    BY MaxOfAll
  <2>3. g[k] = it[1 .. k] /\ g[k - 1] = it[1 .. k - 1] /\ 1 .. k # {}
    BY <2>1
  <2> HIDE DEF g
  <2>4. g[k] = h[<<k, g[k - 1]>>]
    BY <1>2, <2>1, <2>2, <2>3 DEF TakesSteps
  <2> QED
    BY <1>2, <2>4
<1>3. \A k \in 0 .. n : k \in T
  <2> HIDE DEF g
  <2>1. 0 \in T
    BY <1>1
  <2>2. ASSUME NEW k \in 1 .. n, k - 1 \in T PROVE k \in T
    <3>1. k \in 0 .. n /\ g[k - 1] \in V
      BY <2>2
    <3> QED
      BY <1>2, <3>1
  <2> HIDE DEF T
  <2> QED
    BY <2>1, <2>2, SetInduction
<1>4. g = [k \in 0 .. n |-> g[k]]
  OBVIOUS
<1> HIDE DEF g
<1>5. g \in [0 .. n -> V]
  BY <1>3, <1>4
<1>6. \A k \in 1 .. n : k - 1 \in 0 .. n
  OBVIOUS
<1> QED
  BY <1>1, <1>2, <1>3, <1>5, <1>6 DEF IsChain
=============================================================================
