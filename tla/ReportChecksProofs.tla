------------------------- MODULE ReportChecksProofs -------------------------
(***************************************************************************)
(* What reports keep and hide, for any rules, families, repository files   *)
(* and runs.  The invariant says what a run has collected by then, that a  *)
(* report is of it, and what a run shielded from its repository leaves     *)
(* behind: the outcome of its bare form, which is the run without the      *)
(* repository's configuration and without its comments.  Before it what    *)
(* each writer gives of a scan: its reading is the scan again, masked it   *)
(* has no body of a secret, what it refers to is in it.  Last, what        *)
(* Dedupe and FilterNewOnly give for any findings.                         *)
(***************************************************************************)
EXTENDS ReportChecks, SequenceFacts, FiniteSetTheorems, TLAPS

-----------------------------------------------------------------------------
(* Kept takes place after place.                                           *)
Keeps(seq, places, g) ==
  /\ g[0] = << >>
  /\ \A k \in 1 .. Len(seq) : g[k] = IF k \in places THEN Append(g[k - 1], seq[k]) ELSE g[k - 1]
  /\ Kept(seq, places) = g[Len(seq)]

(* Kept can be computed one place after the other.                         *)
LEMMA KeptSteps ==
  ASSUME NEW S, NEW seq \in Seq(S), NEW places
  PROVE  \E g \in [0 .. Len(seq) -> Seq(S)] : Keeps(seq, places, g)
<1> DEFINE len == Len(seq)
           V == Seq(S)
           id == [i \in DOMAIN seq |-> i]
           h == [p \in (1 .. len) \X V |-> IF p[1] \in places THEN Append(p[2], seq[p[1]]) ELSE p[2]]
           P(it) == it = [s \in SUBSET (DOMAIN id) |->
                            IF s = {} THEN << >>
                            ELSE IF id[Max(s)] \in places THEN Append(it[s \ {Max(s)}], seq[id[Max(s)]])
                            ELSE it[s \ {Max(s)}]]
           all == CHOOSE it : P(it)
<1>1. len \in Nat /\ DOMAIN seq = 1 .. len /\ \A k \in 1 .. len : seq[k] \in S
  BY ElementOfSeq, LenProperties
<1>2. << >> \in V
  BY EmptySeq
<1>3. h \in [(1 .. len) \X V -> V]
  <2>1. ASSUME NEW p \in (1 .. len) \X V
        PROVE  (IF p[1] \in places THEN Append(p[2], seq[p[1]]) ELSE p[2]) \in V
    BY <1>1, AppendProperties
  <2> QED
    BY <2>1
<1>4. Kept(seq, places) = all[DOMAIN id]
  BY DEF Kept, FoldLeftDomain, FoldLeft, MapThenFoldSet
<1>5. DOMAIN id = 1 .. len /\ \A k \in 1 .. len : id[k] = k
  BY <1>1
<1>6. PICK f \in [SUBSET (1 .. len) -> V] : IsFold(len, << >>, h, f)
  <2> HIDE DEF h, V, len
  <2>1. IsStep(len, V, << >>, h)
    BY <1>1, <1>2, <1>3 DEF IsStep
  <2> QED
    BY <2>1, FoldRecursion
<1> HIDE DEF id
<1>7. P(f)
  <2>1. ASSUME NEW s \in SUBSET (1 .. len)
        PROVE  f[s] = IF s = {} THEN << >>
                      ELSE IF id[Max(s)] \in places THEN Append(f[s \ {Max(s)}], seq[id[Max(s)]])
                      ELSE f[s \ {Max(s)}]
    <3>1. f[s] = IF s = {} THEN << >> ELSE h[<<Max(s), f[s \ {Max(s)}]>>]
      BY <1>6 DEF IsFold
    <3>2. CASE s # {}
      <4>1. Max(s) \in 1 .. len
        BY <1>1, <3>2, MaxOfSome
      <4>2. f[s \ {Max(s)}] \in V
        BY <1>6
      <4>3. <<Max(s), f[s \ {Max(s)}]>> \in (1 .. len) \X V /\ id[Max(s)] = Max(s)
        BY <1>5, <4>1, <4>2
      <4> QED
        BY <3>1, <3>2, <4>3
    <3> QED
      BY <3>1, <3>2
  <2>2. f = [s \in SUBSET (1 .. len) |-> f[s]]
    BY <1>6
  <2>3. f = [s \in SUBSET (1 .. len) |->
                            IF s = {} THEN << >>
                            ELSE IF id[Max(s)] \in places THEN Append(f[s \ {Max(s)}], seq[id[Max(s)]])
                            ELSE f[s \ {Max(s)}]]
    BY <2>1, <2>2
  <2> QED
    BY <1>5, <2>3
<1>8. P(all)
  <2> HIDE DEF P
  <2> QED
    BY <1>7
<1>9. \A s \in SUBSET (1 .. len) :
        all[s] = IF s = {} THEN << >>
                 ELSE IF id[Max(s)] \in places THEN Append(all[s \ {Max(s)}], seq[id[Max(s)]])
                 ELSE all[s \ {Max(s)}]
  <2> HIDE DEF all
  <2> QED
    BY <1>5, <1>8
<1>10. all[{}] = << >>
  BY <1>9
<1>11. ASSUME NEW s \in SUBSET (1 .. len), s # {}, all[s \ {Max(s)}] \in V
       PROVE  all[s] = h[<<Max(s), all[s \ {Max(s)}]>>]
  <2> HIDE DEF all, P, V, len
  <2>1. Max(s) \in 1 .. len
    BY <1>1, <1>11, MaxOfSome
  <2>2. <<Max(s), all[s \ {Max(s)}]>> \in (1 .. len) \X V /\ id[Max(s)] = Max(s)
    BY <1>5, <1>11, <2>1
  <2> QED
    BY <1>9, <1>11, <2>2
<1>12. PICK g \in [0 .. len -> V] : IsChain(len, << >>, h, g) /\ g[len] = all[1 .. len]
  <2> HIDE DEF all, P, V, len, h
  <2>1. IsStep(len, V, << >>, h)
    BY <1>1, <1>2, <1>3 DEF IsStep
  <2>2. TakesSteps(len, V, << >>, h, all)
    BY <1>10, <1>11 DEF TakesSteps
  <2> QED
    BY <2>1, <2>2, FoldChain
<1>13. ASSUME NEW k \in 1 .. len
       PROVE  g[k] = IF k \in places THEN Append(g[k - 1], seq[k]) ELSE g[k - 1]
  <2>1. k - 1 \in 0 .. len
    BY <1>1
  <2>2. g[k - 1] \in V
    BY <1>12, <2>1
  <2>3. <<k, g[k - 1]>> \in (1 .. len) \X V
    BY <2>2
  <2> QED
    BY <1>12, <2>3 DEF IsChain
<1> HIDE DEF all
<1> QED
  BY <1>4, <1>5, <1>12, <1>13 DEF IsChain, Keeps

(* Kept has what the sequence has at the places, and nothing else.         *)
LEMMA KeptRange ==
  ASSUME NEW S, NEW seq \in Seq(S), NEW places
  PROVE  /\ Kept(seq, places) \in Seq({seq[i] : i \in places \intersect DOMAIN seq})
         /\ \A i \in places \intersect DOMAIN seq : \E j \in DOMAIN Kept(seq, places) : Kept(seq, places)[j] = seq[i]
<1> DEFINE len == Len(seq)
           U == {seq[i] : i \in places \intersect DOMAIN seq}
<1>1. len \in Nat /\ DOMAIN seq = 1 .. len /\ \A k \in 1 .. len : seq[k] \in S
  BY ElementOfSeq, LenProperties
<1>a. PICK g \in [0 .. len -> Seq(S)] : Keeps(seq, places, g)
  BY KeptSteps
<1>2. /\ g[0] = << >>
      /\ \A k \in 1 .. len : g[k] = IF k \in places THEN Append(g[k - 1], seq[k]) ELSE g[k - 1]
      /\ Kept(seq, places) = g[len]
  BY <1>a DEF Keeps
<1> DEFINE Has(k) == /\ g[k] \in Seq(U)
                     /\ \A i \in places \intersect (1 .. k) : \E j \in 1 .. Len(g[k]) : g[k][j] = seq[i]
           T == {k \in 0 .. len : Has(k)}
<1>3. 0 \in T
  <2>1. g[0] \in Seq(U) /\ 0 \in 0 .. len /\ \A i \in 1 .. 0 : FALSE
    BY <1>1, <1>2, EmptySeq
  <2> QED
    BY <2>1
<1>4. ASSUME NEW k \in 1 .. len, k - 1 \in T
      PROVE  k \in T
  <2> DEFINE old == g[k - 1]
  <2>1. k \in 0 .. len /\ Has(k - 1) /\ k \in Nat /\ \A i \in 1 .. k : i = k \/ i \in 1 .. k - 1
    BY <1>1, <1>4
  <2>2. CASE k \in places
    <3>1. g[k] = Append(old, seq[k]) /\ seq[k] \in U
      BY <1>1, <1>2, <2>2
    <3>2. old \in Seq(U)
      BY <2>1
    <3>3. /\ g[k] \in Seq(U) /\ Len(g[k]) = Len(old) + 1 /\ g[k][Len(old) + 1] = seq[k]
          /\ \A j \in 1 .. Len(old) : g[k][j] = old[j]
      <4> HIDE DEF old, U
      <4> QED
        BY <3>1, <3>2, AppendProperties
    <3>4. Len(old) \in Nat
      BY <3>2, LenProperties
    <3>5. ASSUME NEW i \in places \intersect (1 .. k)
          PROVE  \E j \in 1 .. Len(g[k]) : g[k][j] = seq[i]
      <4>1. CASE i = k
        <5>1. Len(old) + 1 \in 1 .. Len(g[k])
          BY <3>3, <3>4
        <5> QED
          BY <3>3, <4>1, <5>1
      <4>2. CASE i # k
        <5>1. i \in places \intersect (1 .. k - 1)
          BY <2>1, <4>2
        <5>2. PICK j \in 1 .. Len(old) : old[j] = seq[i]
          BY <2>1, <5>1
        <5>3. j \in 1 .. Len(g[k])
          BY <3>3, <3>4
        <5> HIDE DEF old
        <5> QED
          BY <3>3, <5>2, <5>3
      <4> QED
        BY <4>1, <4>2
    <3>6. Has(k)
      BY <3>3, <3>5
    <3> QED
      BY <2>1, <3>6
  <2>3. CASE k \notin places
    <3>1. g[k] = g[k - 1]
      BY <1>2, <2>3
    <3>2. places \intersect (1 .. k) = places \intersect (1 .. k - 1)
      BY <2>1, <2>3
    <3>3. Has(k)
      BY <2>1, <3>1, <3>2
    <3> QED
      BY <2>1, <3>3
  <2> QED
    BY <2>2, <2>3
<1>5. len \in T
  <2>1. \A k \in 0 .. len : k \in T
    <3> HIDE DEF T, len
    <3> QED
      BY <1>1, <1>3, <1>4, SetInduction
  <2> QED
    BY <1>1, <2>1
<1>6. Has(len)
  BY <1>5
<1>7. DOMAIN g[len] = 1 .. Len(g[len])
  BY <1>6, LenProperties
<1> QED
  BY <1>1, <1>2, <1>6, <1>7

(* Nothing is kept where no place is to be kept.                           *)
LEMMA KeptNone ==
  ASSUME NEW S, NEW seq \in Seq(S), NEW places, places \intersect DOMAIN seq = {}
  PROVE  Kept(seq, places) = << >>
<1>1. Kept(seq, places) \in Seq({})
  BY KeptRange
<1> QED
  BY <1>1, ElementOfSeq, EmptySeq, LenProperties

(* Of two sequences one after the other Kept can keep either.              *)
LEMMA KeptParts ==
  ASSUME NEW S, NEW a \in Seq(S), NEW b \in Seq(S), NEW places
  PROVE  /\ places \intersect (1 .. Len(a) + Len(b)) = 1 .. Len(a) => Kept(a \o b, places) = a
         /\ places \intersect (1 .. Len(a) + Len(b)) = Len(a) + 1 .. Len(a) + Len(b) => Kept(a \o b, places) = b
<1> DEFINE both == a \o b
           m == Len(a)
           len == Len(a) + Len(b)
<1>1. /\ Len(a) \in Nat /\ Len(b) \in Nat /\ both \in Seq(S) /\ Len(both) = len
      /\ \A i \in 1 .. len : both[i] = IF i <= m THEN a[i] ELSE b[i - m]
  BY LenProperties, ConcatProperties
<1>a. PICK g \in [0 .. len -> Seq(S)] : Keeps(both, places, g)
  <2> HIDE DEF both
  <2> QED
    BY <1>1, KeptSteps
<1>2. /\ g[0] = << >>
      /\ \A k \in 1 .. len : g[k] = IF k \in places THEN Append(g[k - 1], both[k]) ELSE g[k - 1]
      /\ Kept(both, places) = g[len]
  <2> HIDE DEF both, len
  <2> QED
    BY <1>1, <1>a DEF Keeps
<1>3. \A k \in 0 .. len : Len(g[k]) \in Nat /\ g[k] \in Seq(S)
  BY <1>2, LenProperties
<1>4. ASSUME places \intersect (1 .. len) = 1 .. m
      PROVE  Kept(both, places) = a
  <2> DEFINE Has(k) == Len(g[k]) = (IF k <= m THEN k ELSE m) /\ \A j \in 1 .. Len(g[k]) : g[k][j] = a[j]
             T == {k \in 0 .. len : Has(k)}
  <2>1. 0 \in T
    <3>1. Len(g[0]) = 0 /\ 0 \in 0 .. len
      BY <1>1, <1>2, EmptySeq
    <3> QED
      BY <1>1, <3>1
  <2>2. ASSUME NEW k \in 1 .. len, k - 1 \in T
        PROVE  k \in T
    <3>1. k \in 0 .. len /\ k - 1 \in 0 .. len /\ Has(k - 1)
      BY <1>1, <2>2
    <3>2. CASE k <= m
      <4>1. k \in places /\ both[k] = a[k]
        BY <1>1, <1>4, <3>2
      <4>2. g[k] = Append(g[k - 1], a[k]) /\ a[k] \in S
        BY <1>1, <1>2, <3>2, <4>1, ElementOfSeq
      <4>3. Len(g[k]) = k /\ g[k][k] = a[k] /\ \A j \in 1 .. k - 1 : g[k][j] = g[k - 1][j]
        BY <1>1, <1>3, <3>1, <3>2, <4>2, AppendProperties
      <4> QED
        BY <1>1, <3>1, <3>2, <4>3
    <3>3. CASE ~(k <= m)
      <4>1. k \notin places
        <5>1. k \in places => k \in 1 .. m
          BY <1>4
        <5> QED
          BY <1>1, <3>3, <5>1
      <4>2. g[k] = g[k - 1]
        BY <1>2, <4>1
      <4>3. Len(g[k - 1]) = m
        BY <1>1, <3>1, <3>3
      <4> QED
        BY <1>1, <3>1, <3>3, <4>2, <4>3
    <3> QED
      BY <3>2, <3>3
  <2>3. len \in T
    <3>1. len \in Nat /\ len \in 0 .. len
      BY <1>1
    <3>2. \A k \in 0 .. len : k \in T
      <4> HIDE DEF T, len
      <4> QED
        BY <2>1, <2>2, <3>1, SetInduction
    <3> QED
      BY <3>1, <3>2
  <2>4. g[len] \in Seq(S) /\ Len(g[len]) = Len(a) /\ \A j \in 1 .. Len(a) : g[len][j] = a[j]
    BY <1>1, <1>3, <2>3
  <2>5. g[len] = a
    <3> HIDE DEF len
    <3> QED
      BY <2>4, SeqEqual
  <2> QED
    BY <1>2, <2>5
<1>5. ASSUME places \intersect (1 .. len) = m + 1 .. len
      PROVE  Kept(both, places) = b
  <2> DEFINE Has(k) == Len(g[k]) = (IF k <= m THEN 0 ELSE k - m) /\ \A j \in 1 .. Len(g[k]) : g[k][j] = b[j]
             T == {k \in 0 .. len : Has(k)}
  <2>1. 0 \in T
    <3>1. Len(g[0]) = 0 /\ 0 \in 0 .. len
      BY <1>1, <1>2, EmptySeq
    <3> QED
      BY <1>1, <3>1
  <2>2. ASSUME NEW k \in 1 .. len, k - 1 \in T
        PROVE  k \in T
    <3>1. k \in 0 .. len /\ k - 1 \in 0 .. len /\ Has(k - 1)
      BY <1>1, <2>2
    <3>2. CASE ~(k <= m)
      <4>1. k \in places /\ both[k] = b[k - m] /\ k - m \in 1 .. Len(b)
        BY <1>1, <1>5, <3>2
      <4>2. g[k] = Append(g[k - 1], b[k - m]) /\ b[k - m] \in S
        BY <1>2, <4>1, ElementOfSeq
      <4>3. Len(g[k - 1]) = k - 1 - m
        BY <1>1, <3>1, <3>2
      <4>4. Len(g[k]) = k - m /\ g[k][k - m] = b[k - m] /\ \A j \in 1 .. k - 1 - m : g[k][j] = g[k - 1][j]
        BY <1>1, <1>3, <3>1, <3>2, <4>2, <4>3, AppendProperties
      <4>5. \A j \in 1 .. k - 1 - m : g[k][j] = b[j]
        BY <3>1, <4>3, <4>4
      <4>6. \A j \in 1 .. k - m : j = k - m \/ j \in 1 .. k - 1 - m
        <5>1. k \in Nat /\ m \in Nat
          BY <1>1
        <5> HIDE DEF m
        <5> QED
          BY <5>1
      <4>7. \A j \in 1 .. k - m : g[k][j] = b[j]
        BY <4>4, <4>5, <4>6
      <4>8. Has(k)
        BY <3>2, <4>4, <4>7
      <4> QED
        BY <3>1, <4>8
    <3>3. CASE k <= m
      <4>1. k \notin places
        BY <1>1, <1>5, <3>3
      <4>2. g[k] = g[k - 1]
        BY <1>2, <4>1
      <4>3. Len(g[k - 1]) = 0
        BY <1>1, <3>1, <3>3
      <4> QED
        BY <1>1, <3>1, <3>3, <4>2, <4>3
    <3> QED
      BY <3>2, <3>3
  <2>3. len \in T
    <3>1. len \in Nat /\ len \in 0 .. len
      BY <1>1
    <3>2. \A k \in 0 .. len : k \in T
      <4> HIDE DEF T, len
      <4> QED
        BY <2>1, <2>2, <3>1, SetInduction
    <3> QED
      BY <3>1, <3>2
  <2>4. g[len] \in Seq(S) /\ Len(g[len]) = Len(b) /\ \A j \in 1 .. Len(b) : g[len][j] = b[j]
    BY <1>1, <1>3, <2>3
  <2>5. g[len] = b
    <3> HIDE DEF len
    <3> QED
      BY <2>4, SeqEqual
  <2> QED
    BY <1>2, <2>5
<1> QED
  BY <1>4, <1>5

(* The findings of a set stay in it when one takes the severity of another. *)
Blends(S) == \A f, g \in S : [f EXCEPT !.severity = g.severity] \in S

(* Merge appends what is new, and else may raise the severity of what there is. *)
Raised(out, i, f) ==
  [out EXCEPT ![i] = [out[i] EXCEPT !.severity = IF Rank(f.severity) > Rank(out[i].severity) THEN f.severity
                                                 ELSE out[i].severity]]
MergesTo(out, f, new) ==
  \/ (\A i \in 1 .. Len(out) : KeyOf(out[i]) # KeyOf(f)) /\ new = Append(out, f)
  \/ \E i \in 1 .. Len(out) : KeyOf(out[i]) = KeyOf(f) /\ new = Raised(out, i, f)

(* The merge of a finding (finding.Dedupe, one round of its loop) does one *)
(* of the two.                                                             *)
LEMMA MergeOne ==
  ASSUME NEW S, NEW out \in Seq(S), NEW f
  PROVE  MergesTo(out, f, Merge(out, f))
<1> DEFINE I == {i \in 1 .. Len(out) : KeyOf(out[i]) = KeyOf(f)}
           same == SelectInSeq(out, LAMBDA g : KeyOf(g) = KeyOf(f))
<1>1. Len(out) \in Nat /\ DOMAIN out = 1 .. Len(out)
  BY LenProperties
<1>2. same = IF I # {} THEN Min(I) ELSE 0
  BY DEF SelectInSeq
<1>3. CASE I = {}
  <2>1. Merge(out, f) = Append(out, f)
    BY <1>2, <1>3 DEF Merge
  <2> QED
    BY <1>3, <2>1 DEF MergesTo
<1>4. CASE I # {}
  <2>1. I \in SUBSET (1 .. Len(out))
    OBVIOUS
  <2>2. Min(I) \in I
    <3> HIDE DEF I
    <3> QED
      BY <1>1, <1>4, <2>1, MinOfSome
  <2>3. same \in 1 .. Len(out) /\ same # 0 /\ KeyOf(out[same]) = KeyOf(f)
    BY <1>1, <1>2, <1>4, <2>2
  <2>4. Merge(out, f) = Raised(out, same, f)
    <3>1. Merge(out, f) = IF same = 0 THEN Append(out, f)
            ELSE [out EXCEPT ![same].severity = IF Rank(f.severity) > Rank(@) THEN f.severity ELSE @]
      BY DEF Merge
    <3> HIDE DEF same
    <3> QED
      BY <2>3, <3>1 DEF Raised
  <2> HIDE DEF same
  <2> QED
    BY <2>3, <2>4 DEF MergesTo
<1> QED
  BY <1>3, <1>4

(* Merging into findings of such a set leaves findings of it.              *)
LEMMA MergeType ==
  ASSUME NEW S, Blends(S), NEW out \in Seq(S), NEW f \in S
  PROVE  Merge(out, f) \in Seq(S)
<1>1. CASE Merge(out, f) = Append(out, f)
  BY <1>1, AppendProperties
<1>2. ASSUME NEW i \in 1 .. Len(out), Merge(out, f) = Raised(out, i, f)
      PROVE  Merge(out, f) \in Seq(S)
  <2>1. out[i] \in S
    BY <1>2, ElementOfSeq
  <2>2. /\ [out[i] EXCEPT !.severity = f.severity] \in S
        /\ [out[i] EXCEPT !.severity = out[i].severity] \in S
    BY <2>1 DEF Blends
  <2> DEFINE e == [out[i] EXCEPT !.severity = IF Rank(f.severity) > Rank(out[i].severity) THEN f.severity
                                              ELSE out[i].severity]
  <2>3. e \in S
    BY <2>2
  <2>4. Merge(out, f) = [out EXCEPT ![i] = e]
    BY <1>2 DEF Raised
  <2> HIDE DEF e
  <2> QED
    BY <2>3, <2>4, ExceptSeq
<1> QED
  BY <1>1, <1>2, MergeOne DEF MergesTo

(* Dedupe merges one finding after the other.                              *)
Dedupes(said, g) ==
  /\ g[0] = << >>
  /\ \A k \in 1 .. Len(said) : g[k] = Merge(g[k - 1], said[k])
  /\ Dedupe(said) = g[Len(said)]

(* Dedupe can be computed one finding after the other.                     *)
LEMMA DedupeSteps ==
  ASSUME NEW S, Blends(S), NEW said \in Seq(S)
  PROVE  \E g \in [0 .. Len(said) -> Seq(S)] : Dedupes(said, g)
<1> DEFINE len == Len(said)
           V == Seq(S)
           h == [p \in (1 .. len) \X V |-> Merge(p[2], said[p[1]])]
           P(it) == it = [s \in SUBSET (DOMAIN said) |->
                            IF s = {} THEN << >> ELSE Merge(it[s \ {Max(s)}], said[Max(s)])]
           all == CHOOSE it : P(it)
<1>1. len \in Nat /\ DOMAIN said = 1 .. len /\ \A k \in 1 .. len : said[k] \in S
  BY ElementOfSeq, LenProperties
<1>2. << >> \in V
  BY EmptySeq
<1>3. h \in [(1 .. len) \X V -> V]
  <2>1. ASSUME NEW p \in (1 .. len) \X V
        PROVE  Merge(p[2], said[p[1]]) \in V
    BY <1>1, MergeType
  <2> QED
    BY <2>1
<1>4. Dedupe(said) = all[DOMAIN said]
  BY DEF Dedupe, FoldLeft, MapThenFoldSet
<1>5. PICK f \in [SUBSET (1 .. len) -> V] : IsFold(len, << >>, h, f)
  <2> HIDE DEF h, V, len
  <2>1. IsStep(len, V, << >>, h)
    BY <1>1, <1>2, <1>3 DEF IsStep
  <2> QED
    BY <2>1, FoldRecursion
<1>6. P(f)
  <2>1. ASSUME NEW s \in SUBSET (1 .. len)
        PROVE  f[s] = IF s = {} THEN << >> ELSE Merge(f[s \ {Max(s)}], said[Max(s)])
    <3>1. f[s] = IF s = {} THEN << >> ELSE h[<<Max(s), f[s \ {Max(s)}]>>]
      BY <1>5 DEF IsFold
    <3>2. CASE s # {}
      <4>1. Max(s) \in 1 .. len
        BY <1>1, <3>2, MaxOfSome
      <4>2. f[s \ {Max(s)}] \in V
        BY <1>5
      <4>3. <<Max(s), f[s \ {Max(s)}]>> \in (1 .. len) \X V
        BY <4>1, <4>2
      <4> QED
        BY <3>1, <3>2, <4>3
    <3> QED
      BY <3>1, <3>2
  <2>2. f = [s \in SUBSET (1 .. len) |-> f[s]]
    BY <1>5
  <2>3. f = [s \in SUBSET (1 .. len) |-> IF s = {} THEN << >> ELSE Merge(f[s \ {Max(s)}], said[Max(s)])]
    BY <2>1, <2>2
  <2> QED
    BY <1>1, <2>3
<1>7. P(all)
  <2> HIDE DEF P
  <2> QED
    BY <1>6
<1>8. \A s \in SUBSET (1 .. len) : all[s] = IF s = {} THEN << >> ELSE Merge(all[s \ {Max(s)}], said[Max(s)])
  <2> HIDE DEF all
  <2> QED
    BY <1>1, <1>7
<1>9. TakesSteps(len, V, << >>, h, all)
  <2>1. all[{}] = << >>
    BY <1>8
  <2>2. ASSUME NEW s \in SUBSET (1 .. len), s # {}, all[s \ {Max(s)}] \in V
        PROVE  all[s] = h[<<Max(s), all[s \ {Max(s)}]>>]
    <3> HIDE DEF all, P, V, len
    <3>1. Max(s) \in 1 .. len
      BY <1>1, <2>2, MaxOfSome
    <3>2. <<Max(s), all[s \ {Max(s)}]>> \in (1 .. len) \X V
      BY <2>2, <3>1
    <3> QED
      BY <1>8, <2>2, <3>2
  <2> HIDE DEF all, P, V, len, h
  <2> QED
    BY <2>1, <2>2 DEF TakesSteps
<1>10. PICK g \in [0 .. len -> V] : IsChain(len, << >>, h, g) /\ g[len] = all[1 .. len]
  <2> HIDE DEF all, P, V, len, h
  <2>1. IsStep(len, V, << >>, h)
    BY <1>1, <1>2, <1>3 DEF IsStep
  <2> QED
    BY <1>9, <2>1, FoldChain
<1>11. ASSUME NEW k \in 1 .. len
       PROVE  g[k] = Merge(g[k - 1], said[k])
  <2>1. k - 1 \in 0 .. len
    BY <1>1
  <2>2. g[k - 1] \in V
    BY <1>10, <2>1
  <2>3. <<k, g[k - 1]>> \in (1 .. len) \X V
    BY <2>2
  <2> QED
    BY <1>10, <2>3 DEF IsChain
<1> HIDE DEF all
<1> QED
  BY <1>1, <1>4, <1>10, <1>11 DEF IsChain, Dedupes
(* The same of what is suppressed.                                         *)
BlendsSuppressed(S) == \A s, o \in S : [s EXCEPT !.finding.severity = o.finding.severity] \in S
RaisedSuppressed(out, i, s) ==
  [out EXCEPT ![i] = [out[i] EXCEPT !.finding.severity =
                        IF Rank(s.finding.severity) > Rank(out[i].finding.severity) THEN s.finding.severity
                        ELSE out[i].finding.severity]]

(* Merging into suppressed findings of such a set leaves findings of it.   *)
LEMMA MergeSuppressedType ==
  ASSUME NEW S, BlendsSuppressed(S), NEW out \in Seq(S), NEW f \in S
  PROVE  MergeSuppressed(out, f) \in Seq(S)
<1> DEFINE I == {i \in 1 .. Len(out) : KeyOf(out[i].finding) = KeyOf(f.finding)}
           same == SelectInSeq(out, LAMBDA o : KeyOf(o.finding) = KeyOf(f.finding))
<1>1. Len(out) \in Nat /\ DOMAIN out = 1 .. Len(out)
  BY LenProperties
<1>2. same = IF I # {} THEN Min(I) ELSE 0
  BY DEF SelectInSeq
<1>3. CASE I = {}
  <2>1. MergeSuppressed(out, f) = Append(out, f)
    BY <1>2, <1>3 DEF MergeSuppressed
  <2> QED
    BY <2>1, AppendProperties
<1>4. CASE I # {}
  <2>1. I \in SUBSET (1 .. Len(out))
    OBVIOUS
  <2>2. Min(I) \in I
    <3> HIDE DEF I
    <3> QED
      BY <1>1, <1>4, <2>1, MinOfSome
  <2>3. same \in 1 .. Len(out) /\ same # 0
    BY <1>1, <1>2, <1>4, <2>2
  <2>4. MergeSuppressed(out, f) = RaisedSuppressed(out, same, f)
    <3>1. MergeSuppressed(out, f) = IF same = 0 THEN Append(out, f)
            ELSE [out EXCEPT ![same].finding.severity =
                    IF Rank(f.finding.severity) > Rank(@) THEN f.finding.severity ELSE @]
      BY DEF MergeSuppressed
    <3> HIDE DEF same
    <3> QED
      BY <2>3, <3>1 DEF RaisedSuppressed
  <2> HIDE DEF same
  <2> DEFINE e == [out[same] EXCEPT !.finding.severity =
                     IF Rank(f.finding.severity) > Rank(out[same].finding.severity) THEN f.finding.severity
                     ELSE out[same].finding.severity]
  <2>5. out[same] \in S
    BY <2>3, ElementOfSeq
  <2>6. e \in S
    <3>1. /\ [out[same] EXCEPT !.finding.severity = f.finding.severity] \in S
          /\ [out[same] EXCEPT !.finding.severity = out[same].finding.severity] \in S
      BY <2>5 DEF BlendsSuppressed
    <3> QED
      BY <3>1
  <2>7. MergeSuppressed(out, f) = [out EXCEPT ![same] = e]
    BY <2>4 DEF RaisedSuppressed
  <2> HIDE DEF e
  <2> QED
    BY <2>3, <2>6, <2>7, ExceptSeq
<1> QED
  BY <1>3, <1>4

DedupesSuppressed(said, g) ==
  /\ g[0] = << >>
  /\ \A k \in 1 .. Len(said) : g[k] = MergeSuppressed(g[k - 1], said[k])
  /\ DedupeSuppressed(said) = g[Len(said)]

(* DedupeSuppressed can be computed one finding after the other.           *)
LEMMA DedupeSuppressedSteps ==
  ASSUME NEW S, BlendsSuppressed(S), NEW said \in Seq(S)
  PROVE  \E g \in [0 .. Len(said) -> Seq(S)] : DedupesSuppressed(said, g)
<1> DEFINE len == Len(said)
           V == Seq(S)
           h == [p \in (1 .. len) \X V |-> MergeSuppressed(p[2], said[p[1]])]
           P(it) == it = [s \in SUBSET (DOMAIN said) |->
                            IF s = {} THEN << >> ELSE MergeSuppressed(it[s \ {Max(s)}], said[Max(s)])]
           all == CHOOSE it : P(it)
<1>1. len \in Nat /\ DOMAIN said = 1 .. len /\ \A k \in 1 .. len : said[k] \in S
  BY ElementOfSeq, LenProperties
<1>2. << >> \in V
  BY EmptySeq
<1>3. h \in [(1 .. len) \X V -> V]
  <2>1. ASSUME NEW p \in (1 .. len) \X V
        PROVE  MergeSuppressed(p[2], said[p[1]]) \in V
    BY <1>1, MergeSuppressedType
  <2> QED
    BY <2>1
<1>4. DedupeSuppressed(said) = all[DOMAIN said]
  BY DEF DedupeSuppressed, FoldLeft, MapThenFoldSet
<1>5. PICK f \in [SUBSET (1 .. len) -> V] : IsFold(len, << >>, h, f)
  <2> HIDE DEF h, V, len
  <2>1. IsStep(len, V, << >>, h)
    BY <1>1, <1>2, <1>3 DEF IsStep
  <2> QED
    BY <2>1, FoldRecursion
<1>6. P(f)
  <2>1. ASSUME NEW s \in SUBSET (1 .. len)
        PROVE  f[s] = IF s = {} THEN << >> ELSE MergeSuppressed(f[s \ {Max(s)}], said[Max(s)])
    <3>1. f[s] = IF s = {} THEN << >> ELSE h[<<Max(s), f[s \ {Max(s)}]>>]
      BY <1>5 DEF IsFold
    <3>2. CASE s # {}
      <4>1. Max(s) \in 1 .. len
        BY <1>1, <3>2, MaxOfSome
      <4>2. f[s \ {Max(s)}] \in V
        BY <1>5
      <4>3. <<Max(s), f[s \ {Max(s)}]>> \in (1 .. len) \X V
        BY <4>1, <4>2
      <4> QED
        BY <3>1, <3>2, <4>3
    <3> QED
      BY <3>1, <3>2
  <2>2. f = [s \in SUBSET (1 .. len) |-> f[s]]
    BY <1>5
  <2>3. f = [s \in SUBSET (1 .. len) |-> IF s = {} THEN << >> ELSE MergeSuppressed(f[s \ {Max(s)}], said[Max(s)])]
    BY <2>1, <2>2
  <2> QED
    BY <1>1, <2>3
<1>7. P(all)
  <2> HIDE DEF P
  <2> QED
    BY <1>6
<1>8. \A s \in SUBSET (1 .. len) : all[s] = IF s = {} THEN << >> ELSE MergeSuppressed(all[s \ {Max(s)}], said[Max(s)])
  <2> HIDE DEF all
  <2> QED
    BY <1>1, <1>7
<1>9. TakesSteps(len, V, << >>, h, all)
  <2>1. all[{}] = << >>
    BY <1>8
  <2>2. ASSUME NEW s \in SUBSET (1 .. len), s # {}, all[s \ {Max(s)}] \in V
        PROVE  all[s] = h[<<Max(s), all[s \ {Max(s)}]>>]
    <3> HIDE DEF all, P, V, len
    <3>1. Max(s) \in 1 .. len
      BY <1>1, <2>2, MaxOfSome
    <3>2. <<Max(s), all[s \ {Max(s)}]>> \in (1 .. len) \X V
      BY <2>2, <3>1
    <3> QED
      BY <1>8, <2>2, <3>2
  <2> HIDE DEF all, P, V, len, h
  <2> QED
    BY <2>1, <2>2 DEF TakesSteps
<1>10. PICK g \in [0 .. len -> V] : IsChain(len, << >>, h, g) /\ g[len] = all[1 .. len]
  <2> HIDE DEF all, P, V, len, h
  <2>1. IsStep(len, V, << >>, h)
    BY <1>1, <1>2, <1>3 DEF IsStep
  <2> QED
    BY <1>9, <2>1, FoldChain
<1>11. ASSUME NEW k \in 1 .. len
       PROVE  g[k] = MergeSuppressed(g[k - 1], said[k])
  <2>1. k - 1 \in 0 .. len
    BY <1>1
  <2>2. g[k - 1] \in V
    BY <1>10, <2>1
  <2>3. <<k, g[k - 1]>> \in (1 .. len) \X V
    BY <2>2
  <2> QED
    BY <1>10, <2>3 DEF IsChain
<1> HIDE DEF all
<1> QED
  BY <1>1, <1>4, <1>10, <1>11 DEF IsChain, DedupesSuppressed

(* Described goes through the results.                                     *)
WithRule(ids, r) == IF r.rule \in Range(ids) THEN ids ELSE Append(ids, r.rule)
Describes(results, g) ==
  /\ g[0] = << >>
  /\ \A k \in 1 .. Len(results) : g[k] = WithRule(g[k - 1], results[k])
  /\ Described(results) = g[Len(results)]

(* Described can be computed one result after the other.                   *)
LEMMA DescribedSteps ==
  ASSUME NEW S, NEW results \in Seq(S)
  PROVE  \E g \in [0 .. Len(results) -> Seq({x.rule : x \in S})] : Describes(results, g)
<1> DEFINE len == Len(results)
           V == Seq({x.rule : x \in S})
           h == [p \in (1 .. len) \X V |-> WithRule(p[2], results[p[1]])]
           P(it) == it = [s \in SUBSET (DOMAIN results) |->
                            IF s = {} THEN << >> ELSE WithRule(it[s \ {Max(s)}], results[Max(s)])]
           all == CHOOSE it : P(it)
<1>1. len \in Nat /\ DOMAIN results = 1 .. len /\ \A k \in 1 .. len : results[k] \in S
  BY ElementOfSeq, LenProperties
<1>2. << >> \in V
  BY EmptySeq
<1>3. h \in [(1 .. len) \X V -> V]
  <2>1. ASSUME NEW p \in (1 .. len) \X V
        PROVE  WithRule(p[2], results[p[1]]) \in V
    <3>1. results[p[1]].rule \in {x.rule : x \in S}
      BY <1>1
    <3> QED
      BY <3>1, AppendProperties DEF WithRule
  <2> QED
    BY <2>1
<1>4. Described(results) = all[DOMAIN results]
  BY DEF Described, FoldLeft, MapThenFoldSet, WithRule
<1>5. PICK f \in [SUBSET (1 .. len) -> V] : IsFold(len, << >>, h, f)
  <2> HIDE DEF h, V, len
  <2>1. IsStep(len, V, << >>, h)
    BY <1>1, <1>2, <1>3 DEF IsStep
  <2> QED
    BY <2>1, FoldRecursion
<1>6. P(f)
  <2>1. ASSUME NEW s \in SUBSET (1 .. len)
        PROVE  f[s] = IF s = {} THEN << >> ELSE WithRule(f[s \ {Max(s)}], results[Max(s)])
    <3>1. f[s] = IF s = {} THEN << >> ELSE h[<<Max(s), f[s \ {Max(s)}]>>]
      BY <1>5 DEF IsFold
    <3>2. CASE s # {}
      <4>1. Max(s) \in 1 .. len
        BY <1>1, <3>2, MaxOfSome
      <4>2. f[s \ {Max(s)}] \in V
        BY <1>5
      <4>3. <<Max(s), f[s \ {Max(s)}]>> \in (1 .. len) \X V
        BY <4>1, <4>2
      <4> QED
        BY <3>1, <3>2, <4>3
    <3> QED
      BY <3>1, <3>2
  <2>2. f = [s \in SUBSET (1 .. len) |-> f[s]]
    BY <1>5
  <2>3. f = [s \in SUBSET (1 .. len) |-> IF s = {} THEN << >> ELSE WithRule(f[s \ {Max(s)}], results[Max(s)])]
    BY <2>1, <2>2
  <2> QED
    BY <1>1, <2>3
<1>7. P(all)
  <2> HIDE DEF P
  <2> QED
    BY <1>6
<1>8. \A s \in SUBSET (1 .. len) : all[s] = IF s = {} THEN << >> ELSE WithRule(all[s \ {Max(s)}], results[Max(s)])
  <2> HIDE DEF all
  <2> QED
    BY <1>1, <1>7
<1>9. TakesSteps(len, V, << >>, h, all)
  <2>1. all[{}] = << >>
    BY <1>8
  <2>2. ASSUME NEW s \in SUBSET (1 .. len), s # {}, all[s \ {Max(s)}] \in V
        PROVE  all[s] = h[<<Max(s), all[s \ {Max(s)}]>>]
    <3> HIDE DEF all, P, V, len
    <3>1. Max(s) \in 1 .. len
      BY <1>1, <2>2, MaxOfSome
    <3>2. <<Max(s), all[s \ {Max(s)}]>> \in (1 .. len) \X V
      BY <2>2, <3>1
    <3> QED
      BY <1>8, <2>2, <3>2
  <2> HIDE DEF all, P, V, len, h
  <2> QED
    BY <2>1, <2>2 DEF TakesSteps
<1>10. PICK g \in [0 .. len -> V] : IsChain(len, << >>, h, g) /\ g[len] = all[1 .. len]
  <2> HIDE DEF all, P, V, len, h
  <2>1. IsStep(len, V, << >>, h)
    BY <1>1, <1>2, <1>3 DEF IsStep
  <2> QED
    BY <1>9, <2>1, FoldChain
<1>11. ASSUME NEW k \in 1 .. len
       PROVE  g[k] = WithRule(g[k - 1], results[k])
  <2>1. k - 1 \in 0 .. len
    BY <1>1
  <2>2. g[k - 1] \in V
    BY <1>10, <2>1
  <2>3. <<k, g[k - 1]>> \in (1 .. len) \X V
    BY <2>2
  <2> QED
    BY <1>10, <2>3 DEF IsChain
<1> HIDE DEF all
<1> QED
  BY <1>1, <1>4, <1>10, <1>11 DEF IsChain, Describes

(* What is deduplicated is of the kind that was found.                     *)
LEMMA DedupeType ==
  ASSUME NEW S, Blends(S), NEW said \in Seq(S)
  PROVE  Dedupe(said) \in Seq(S)
<1>1. PICK g \in [0 .. Len(said) -> Seq(S)] : Dedupes(said, g)
  BY DedupeSteps
<1>2. Len(said) \in 0 .. Len(said)
  BY LenProperties
<1> QED
  BY <1>1, <1>2 DEF Dedupes

(* What is deduplicated of the suppressed is of the kind that was          *)
(* suppressed.                                                             *)
LEMMA DedupeSuppressedType ==
  ASSUME NEW S, BlendsSuppressed(S), NEW said \in Seq(S)
  PROVE  DedupeSuppressed(said) \in Seq(S)
<1>1. PICK g \in [0 .. Len(said) -> Seq(S)] : DedupesSuppressed(said, g)
  BY DedupeSuppressedSteps
<1>2. Len(said) \in 0 .. Len(said)
  BY LenProperties
<1> QED
  BY <1>1, <1>2 DEF DedupesSuppressed

(* What is kept of a sequence is of its kind.                              *)
LEMMA KeptType ==
  ASSUME NEW S, NEW seq \in Seq(S), NEW places
  PROVE  Kept(seq, places) \in Seq(S)
<1>1. PICK g \in [0 .. Len(seq) -> Seq(S)] : Keeps(seq, places, g)
  BY KeptSteps
<1>2. Len(seq) \in 0 .. Len(seq)
  BY LenProperties
<1> QED
  BY <1>1, <1>2 DEF Keeps

(* What of a finding that counts follows from its rule: its rule runs.     *)
LEMMA CountsRuns ==
  ASSUME NEW cfg, NEW rules, NEW f, Selected(cfg, rules, <<f>>) # << >>
  PROVE  Runs(cfg, rules, f)
<1> SUFFICES ASSUME ~Runs(cfg, rules, f) PROVE Selected(cfg, rules, <<f>>) = << >>
  OBVIOUS
<1> DEFINE places == {i \in DOMAIN <<f>> : Runs(cfg, rules, <<f>>[i])}
           run == Kept(<<f>>, places)
<1>1. <<f>> \in Seq({f}) /\ DOMAIN <<f>> = {1} /\ <<f>>[1] = f
  OBVIOUS
<1>2. places = {}
  BY <1>1
<1>3. run = << >>
  <2> HIDE DEF places
  <2>1. places \intersect DOMAIN <<f>> = {}
    BY <1>2
  <2> QED
    BY <1>1, <2>1, KeptNone
<1>4. Selected(cfg, rules, <<f>>) =
        Kept([i \in DOMAIN run |-> ApplySeverity(cfg, run[i])],
             {i \in DOMAIN [j \in DOMAIN run |-> ApplySeverity(cfg, run[j])] :
                AboveMinSeverity(cfg, [j \in DOMAIN run |-> ApplySeverity(cfg, run[j])][i])})
  BY DEF Selected, Passing
<1>5. [i \in DOMAIN << >> |-> ApplySeverity(cfg, << >>[i])] = << >>
  BY EmptySeq
<1> DEFINE none == {i \in DOMAIN << >> : AboveMinSeverity(cfg, << >>[i])}
<1>6. Selected(cfg, rules, <<f>>) = Kept(<< >>, none)
  <2> HIDE DEF run
  <2> QED
    BY <1>3, <1>4, <1>5
<1>7. << >> \in Seq({}) /\ none \intersect DOMAIN << >> = {}
  BY EmptySeq
<1> HIDE DEF none
<1> QED
  BY <1>6, <1>7, KeptNone

-----------------------------------------------------------------------------
(* What comes of the items of a run whose rules run.                       *)
Told(cfg) == {f \in AFinding : f.origin = f.message.from /\ RuleEnabled(cfg, f.rule)}
Marked(cfg) == [finding : Told(cfg), source : STRING, reason : ASecret]

(* A finding of an enabled rule stays one whatever severity it takes.      *)
LEMMA ToldBlends ==
  ASSUME NEW cfg
  PROVE  Blends(Told(cfg)) /\ BlendsSuppressed(Marked(cfg))
<1>1. ASSUME NEW f \in Told(cfg), NEW g \in Told(cfg)
      PROVE  [f EXCEPT !.severity = g.severity] \in Told(cfg)
  <2>1. g.severity \in Severity
    BY DEF Told, AFinding
  <2>2. [f EXCEPT !.severity = g.severity] \in AFinding
    BY <2>1 DEF Told, AFinding
  <2>3. LET h == [f EXCEPT !.severity = g.severity]
        IN  h.origin = f.origin /\ h.message = f.message /\ h.rule = f.rule
    BY DEF Told, AFinding
  <2> QED
    BY <2>2, <2>3 DEF Told
<1>2. ASSUME NEW s \in Marked(cfg), NEW o \in Marked(cfg)
      PROVE  [s EXCEPT !.finding.severity = o.finding.severity] \in Marked(cfg)
  <2>1. s.finding \in Told(cfg) /\ o.finding \in Told(cfg)
    BY DEF Marked
  <2>2. [s.finding EXCEPT !.severity = o.finding.severity] \in Told(cfg)
    BY <1>1, <2>1
  <2>3. [s EXCEPT !.finding.severity = o.finding.severity]
          = [s EXCEPT !.finding = [s.finding EXCEPT !.severity = o.finding.severity]]
    OBVIOUS
  <2> HIDE DEF Told
  <2> QED
    BY <2>2, <2>3 DEF Marked
<1> QED
  BY <1>1, <1>2 DEF Blends, BlendsSuppressed

(* The severities that a configuration gives.                              *)
Tuned(cfg) == \A id \in DOMAIN cfg.rules : cfg.rules[id] \in Severity \union {"off"}

(* What is made of an item whose rule runs, is a finding with the origin   *)
(* it had and of an enabled rule.                                          *)
LEMMA FindingType ==
  ASSUME Tuned(Cfg), NEW item \in AnItem, Counts(item)
  PROVE  Finding(item) \in Told(Cfg) /\ Suppressed(item) \in Marked(Cfg)
<1> DEFINE f == item.finding
<1>1. f \in AFinding /\ f.origin = << >> /\ f.message.from = << >> /\ item.at \in Seq(APlace)
  BY DEF AnItem
<1>2. RuleEnabled(Cfg, f.rule)
  BY CountsRuns DEF Counts, Runs
<1>3. Placed(item) \in AFinding /\ Placed(item).origin = Placed(item).message.from /\ Placed(item).rule = f.rule
  <2>1. CASE item.at = << >>
    BY <1>1, <2>1 DEF Placed
  <2>2. CASE item.at # << >>
    <3> DEFINE to == item.at[1]
               from == <<Place(f.file, f.line)>>
    <3>1. to \in APlace
      BY <1>1, <2>2, ElementOfSeq, EmptySeq, LenProperties
    <3>2. from \in Seq(APlace)
      <4>1. Place(f.file, f.line) \in APlace
        BY <1>1 DEF Place, APlace, AFinding
      <4> QED
        BY <4>1
    <3>3. Placed(item) = [f EXCEPT !.file = to.path, !.line = to.line, !.col = 1, !.message.from = from,
                                   !.origin = from]
      BY <2>2 DEF Placed, MovedToJob
    <3> HIDE DEF from
    <3>4. to.path \in APath /\ to.line \in Nat
      BY <3>1 DEF APlace
    <3> HIDE DEF to
    <3>5. f.message \in AMessage
      BY <1>1 DEF AFinding
    <3>6. [f.message EXCEPT !.from = from] \in AMessage /\ [f.message EXCEPT !.from = from].from = from
      BY <3>2, <3>5 DEF AMessage
    <3> DEFINE message == [f.message EXCEPT !.from = from]
    <3>7. Placed(item) = [f EXCEPT !.file = to.path, !.line = to.line, !.col = 1, !.message = message,
                                   !.origin = from]
      BY <3>3
    <3>8. message \in AMessage /\ message.from = from
      BY <3>6
    <3> HIDE DEF message, f
    <3>9. Placed(item) = [rule |-> f.rule, severity |-> f.severity, file |-> to.path, line |-> to.line, col |-> 1,
                          job |-> f.job, origin |-> from, message |-> message]
      BY <1>1, <3>7 DEF AFinding
    <3>10. /\ f.rule \in STRING \ {"glsec-error"} /\ f.severity \in Severity /\ f.job \in STRING
           /\ 1 \in Nat
      BY <1>1 DEF AFinding
    <3> QED
      BY <3>2, <3>4, <3>8, <3>9, <3>10 DEF AFinding
  <2> QED
    BY <2>1, <2>2
<1>4. Finding(item) \in Told(Cfg)
  <2> DEFINE p == Placed(item)
  <2>1. CASE p.rule \in DOMAIN Cfg.rules
    <3>1. Cfg.rules[p.rule] \in Severity
      BY <1>2, <1>3, <2>1 DEF RuleEnabled, Tuned
    <3>2. Finding(item) = [p EXCEPT !.severity = Cfg.rules[p.rule]]
      BY <2>1 DEF Finding, ApplySeverity
    <3> HIDE DEF p
    <3>3. p \in AFinding /\ p.origin = p.message.from /\ p.rule = f.rule
      BY <1>3 DEF p
    <3>4. [p EXCEPT !.severity = Cfg.rules[p.rule]] \in AFinding
      BY <3>1, <3>3 DEF AFinding
    <3>5. LET q == [p EXCEPT !.severity = Cfg.rules[p.rule]]
          IN  q.origin = p.origin /\ q.message = p.message /\ q.rule = p.rule
      BY <3>3 DEF AFinding
    <3> QED
      BY <1>2, <3>2, <3>3, <3>4, <3>5 DEF Told
  <2>2. CASE p.rule \notin DOMAIN Cfg.rules
    BY <1>2, <1>3, <2>2 DEF Finding, ApplySeverity, Told
  <2> QED
    BY <2>1, <2>2
<1>5. item.by \in STRING /\ item.reason \in ASecret
  BY DEF AnItem
<1> QED
  BY <1>4, <1>5 DEF Suppressed, Marked

(* Joined sequences of members are a sequence of members.                  *)
LEMMA FlattenType ==
  ASSUME NEW S, NEW len \in Nat, NEW ss \in [1 .. len -> Seq(S)]
  PROVE  FlattenSeq(ss) \in Seq(S)
<1>1. ss \in Seq(Seq(S))
  BY FunctionAsSeq
<1>2. << >> \in Seq(S) /\ \A s, t \in Seq(S) : s \o t \in Seq(S)
  BY EmptySeq, ConcatProperties
<1> QED
  BY <1>1, <1>2, FlattenInto

(* What RunsAssumption says of a run.                                      *)
IsRun(run) ==
  /\ run.flags.config \in Seq(Seq(RepoFiles)) /\ run.repo.config \in Seq(RepoFiles)
  /\ \A t \in DOMAIN run.said : run.said[t] \in Saying
  /\ ~Refuses(run.flags, run.repo) => Scanned(run.flags, run.repo) \in Seq(DOMAIN run.said)
  /\ run.source \in Seq([at : APlace, secret : ASecret])

(* A configuration that is taken tunes severities.                         *)
LEMMA TakenTunes ==
  ASSUME NEW run, IsRun(run), ~Refuses(run.flags, run.repo)
  PROVE  Tuned(Effective(run.flags, run.repo))
<1> DEFINE flags == run.flags
           repo == run.repo
<1>1. Effective(flags, repo).rules = Taken(flags, repo).rules
  BY DEF Effective
<1>2. CASE Reads(flags, repo) = << >>
  <2>1. Taken(flags, repo).rules = << >>
    BY <1>2 DEF Taken, Default
  <2>2. \A id \in DOMAIN << >> : FALSE
    OBVIOUS
  <2> QED
    BY <1>1, <2>1, <2>2 DEF Tuned
<1>3. CASE Reads(flags, repo) # << >>
  <2>1. Reads(flags, repo) \in Seq(RepoFiles)
    <3>1. CASE flags.config # << >>
      <4>1. flags.config[1] \in Seq(RepoFiles)
        BY <3>1, ElementOfSeq, EmptySeq, LenProperties DEF IsRun
      <4> QED
        BY <3>1, <4>1 DEF Reads
    <3>2. CASE flags.config = << >>
      BY <1>3, <3>2 DEF Reads, IsRun
    <3> QED
      BY <3>1, <3>2
  <2>2. 1 \in DOMAIN Reads(flags, repo)
    BY <1>3, <2>1, EmptySeq, LenProperties
  <2>3. Accepts(Reads(flags, repo)[1])
    BY <2>2 DEF Refuses, ConfigFails
  <2>4. Taken(flags, repo) = Reads(flags, repo)[1]
    BY <1>3 DEF Taken
  <2> QED
    BY <1>1, <2>3, <2>4 DEF Accepts, Tuned
<1> QED
  BY <1>2, <1>3

-----------------------------------------------------------------------------
(* What a document gives has its types: findings of enabled rules,         *)
(* suppressed ones and errors.                                             *)
LEMMA DocTypes ==
  ASSUME Tuned(Cfg), NEW doc \in ADoc
  PROVE  FoundIn(doc) \in Seq(Told(Cfg)) /\ QuietIn(doc) \in Seq(Marked(Cfg)) /\ PolicyErrors(doc) \in Seq(AnError)
<1>1. doc.items \in Seq(AnItem) /\ doc.path \in APath /\ doc.unjustified \in Nat
  BY DEF ADoc
<1> DEFINE items == doc.items
           len == Len(items)
<1>2. len \in Nat /\ DOMAIN items = 1 .. len /\ \A i \in 1 .. len : items[i] \in AnItem
  BY <1>1, ElementOfSeq, LenProperties
<1>3. ASSUME NEW covered
      PROVE  /\ Kept([i \in DOMAIN items |-> Finding(items[i])], ItemsOf(doc, covered)) \in Seq(Told(Cfg))
             /\ Kept([i \in DOMAIN items |-> Suppressed(items[i])], ItemsOf(doc, covered)) \in Seq(Marked(Cfg))
  <2> DEFINE fs == [i \in DOMAIN items |-> Finding(items[i])]
             ss == [i \in DOMAIN items |-> Suppressed(items[i])]
             places == ItemsOf(doc, covered)
  <2>1. DOMAIN fs = 1 .. len /\ DOMAIN ss = 1 .. len
    BY <1>2
  <2>2. \A i \in places : i \in DOMAIN items /\ Counts(items[i])
    BY DEF ItemsOf
  <2>3. \A i \in places : fs[i] \in Told(Cfg) /\ ss[i] \in Marked(Cfg)
    <3> SUFFICES ASSUME NEW i \in places PROVE fs[i] \in Told(Cfg) /\ ss[i] \in Marked(Cfg)
      OBVIOUS
    <3>1. items[i] \in AnItem /\ Counts(items[i]) /\ i \in DOMAIN items
      BY <1>2, <2>2
    <3>2. Finding(items[i]) \in Told(Cfg) /\ Suppressed(items[i]) \in Marked(Cfg)
      BY <3>1, FindingType
    <3>3. fs[i] = Finding(items[i]) /\ ss[i] = Suppressed(items[i])
      BY <3>1
    <3> QED
      BY <3>2, <3>3
  <2>4. ASSUME NEW T, NEW seq, DOMAIN seq = 1 .. len, seq = [i \in 1 .. len |-> seq[i]],
               \A i \in places : seq[i] \in T
        PROVE  Kept(seq, places) \in Seq(T)
    <3> DEFINE R == {seq[i] : i \in 1 .. len}
    <3>1. seq \in Seq(R)
      <4>1. seq \in [1 .. len -> R]
        BY <2>4
      <4> HIDE DEF R
      <4> QED
        BY <1>2, <4>1, FunctionAsSeq
    <3> DEFINE K == {seq[i] : i \in places \intersect DOMAIN seq}
    <3>2. Kept(seq, places) \in Seq(K)
      BY <3>1, KeptRange
    <3>3. K \subseteq T
      BY <2>4
    <3> HIDE DEF K
    <3> QED
      BY <3>2, <3>3, SeqMonotonic
  <2>5. fs = [i \in 1 .. len |-> fs[i]] /\ ss = [i \in 1 .. len |-> ss[i]]
    BY <1>2
  <2> HIDE DEF fs, ss, places
  <2>6. Kept(fs, places) \in Seq(Told(Cfg)) /\ Kept(ss, places) \in Seq(Marked(Cfg))
    BY <2>1, <2>3, <2>4, <2>5
  <2> QED
    BY <2>6 DEF fs, ss, places
<1>4. Blends(Told(Cfg)) /\ BlendsSuppressed(Marked(Cfg))
  BY ToldBlends
<1>5. FoundIn(doc) \in Seq(Told(Cfg))
  <2> DEFINE kept == Kept([i \in DOMAIN items |-> Finding(items[i])], ItemsOf(doc, FALSE))
  <2>1. FoundIn(doc) = Dedupe(kept) /\ kept \in Seq(Told(Cfg))
    BY <1>3 DEF FoundIn
  <2> HIDE DEF kept
  <2> QED
    BY <1>4, <2>1, DedupeType
<1>6. QuietIn(doc) \in Seq(Marked(Cfg))
  <2> DEFINE kept == Kept([i \in DOMAIN items |-> Suppressed(items[i])], ItemsOf(doc, TRUE))
  <2>1. QuietIn(doc) = DedupeSuppressed(kept) /\ kept \in Seq(Marked(Cfg))
    BY <1>3 DEF QuietIn
  <2> HIDE DEF kept
  <2> QED
    BY <1>4, <2>1, DedupeSuppressedType
<1>7. PolicyErrors(doc) \in Seq(AnError)
  <2>1. ScanError(<<doc.path>>) \in AnError
    <3>1. <<doc.path>> \in Seq(APath) /\ << >> \in ASecret
      BY <1>1 DEF ASecret
    <3> QED
      BY <3>1 DEF ScanError, AnError
  <2>2. [i \in 1 .. doc.unjustified |-> ScanError(<<doc.path>>)] \in Seq(AnError)
    <3> DEFINE f == [i \in 1 .. doc.unjustified |-> ScanError(<<doc.path>>)]
    <3>1. f \in [1 .. doc.unjustified -> AnError]
      BY <2>1
    <3> HIDE DEF f
    <3> QED
      BY <1>1, <3>1, FunctionAsSeq DEF f
  <2> QED
    BY <2>2, EmptySeq DEF PolicyErrors
<1> QED
  BY <1>5, <1>6, <1>7

(* What a scan of the targets collects.                                    *)
LEMMA CollectTypes ==
  ASSUME IsRun(Run), ~Refuses(Flags, Run.repo)
  PROVE  /\ OverTargets(FoundBy) \in Seq(Told(Cfg))
         /\ OverTargets(QuietBy) \in Seq(Marked(Cfg))
         /\ OverTargets(ErrorsBy) \o NothingScanned \in Seq(AnError)
<1>1. Tuned(Cfg)
  BY TakenTunes DEF Cfg, Flags
<1>2. ASSUME NEW t \in DOMAIN Run.said
      PROVE  FoundBy(t) \in Seq(Told(Cfg)) /\ QuietBy(t) \in Seq(Marked(Cfg)) /\ ErrorsBy(t) \in Seq(AnError)
  <2> DEFINE said == Run.said[t]
             len == Len(said.docs)
  <2>1. said \in Saying /\ said.failed \in Seq(AnError) /\ said.docs \in Seq(ADoc)
    BY <1>2 DEF IsRun, Saying
  <2>2. len \in Nat /\ DOMAIN said.docs = 1 .. len /\ \A i \in 1 .. len : said.docs[i] \in ADoc
    BY <2>1, ElementOfSeq, LenProperties
  <2>3. InDocs(t, FoundIn) \in Seq(Told(Cfg))
    <3> DEFINE ss == [i \in DOMAIN said.docs |-> FoundIn(said.docs[i])]
    <3>1. ss \in [1 .. len -> Seq(Told(Cfg))]
      BY <1>1, <2>2, DocTypes
    <3>2. InDocs(t, FoundIn) = IF said.failed # << >> THEN << >> ELSE FlattenSeq(ss)
      BY DEF InDocs
    <3> HIDE DEF ss
    <3> QED
      BY <2>2, <3>1, <3>2, FlattenType, EmptySeq
  <2>4. InDocs(t, QuietIn) \in Seq(Marked(Cfg))
    <3> DEFINE ss == [i \in DOMAIN said.docs |-> QuietIn(said.docs[i])]
    <3>1. ss \in [1 .. len -> Seq(Marked(Cfg))]
      BY <1>1, <2>2, DocTypes
    <3>2. InDocs(t, QuietIn) = IF said.failed # << >> THEN << >> ELSE FlattenSeq(ss)
      BY DEF InDocs
    <3> HIDE DEF ss
    <3> QED
      BY <2>2, <3>1, <3>2, FlattenType, EmptySeq
  <2>5. InDocs(t, PolicyErrors) \in Seq(AnError)
    <3> DEFINE ss == [i \in DOMAIN said.docs |-> PolicyErrors(said.docs[i])]
    <3>1. ss \in [1 .. len -> Seq(AnError)]
      BY <1>1, <2>2, DocTypes
    <3>2. InDocs(t, PolicyErrors) = IF said.failed # << >> THEN << >> ELSE FlattenSeq(ss)
      BY DEF InDocs
    <3> HIDE DEF ss
    <3> QED
      BY <2>2, <3>1, <3>2, FlattenType, EmptySeq
  <2>6. FoundBy(t) \in Seq(Told(Cfg))
    <3>1. Dedupe(InDocs(t, FoundIn)) \in Seq(Told(Cfg))
      BY <2>3, ToldBlends, DedupeType
    <3> QED
      BY <3>1, KeptType DEF FoundBy, DedupeMoved
  <2>7. QuietBy(t) \in Seq(Marked(Cfg))
    BY <2>4, ToldBlends, DedupeSuppressedType DEF QuietBy
  <2>8. ErrorsBy(t) \in Seq(AnError)
    BY <2>1, <2>5, ConcatProperties DEF ErrorsBy
  <2> QED
    BY <2>6, <2>7, <2>8
<1> DEFINE scanned == Scanned(Flags, Run.repo)
           len == Len(scanned)
<1>3. scanned \in Seq(DOMAIN Run.said)
  BY DEF IsRun, Flags
<1> HIDE DEF scanned
<1>4. len \in Nat /\ DOMAIN scanned = 1 .. len /\ \A i \in 1 .. len : scanned[i] \in DOMAIN Run.said
  BY <1>3, ElementOfSeq, LenProperties
<1>5. OverTargets(FoundBy) \in Seq(Told(Cfg))
  <2> DEFINE ss == [i \in DOMAIN scanned |-> FoundBy(scanned[i])]
  <2>1. ss \in [1 .. len -> Seq(Told(Cfg))]
    BY <1>2, <1>4
  <2>2. OverTargets(FoundBy) = FlattenSeq(ss)
    BY DEF OverTargets, scanned
  <2> HIDE DEF ss
  <2> QED
    BY <1>4, <2>1, <2>2, FlattenType
<1>6. OverTargets(QuietBy) \in Seq(Marked(Cfg))
  <2> DEFINE ss == [i \in DOMAIN scanned |-> QuietBy(scanned[i])]
  <2>1. ss \in [1 .. len -> Seq(Marked(Cfg))]
    BY <1>2, <1>4
  <2>2. OverTargets(QuietBy) = FlattenSeq(ss)
    BY DEF OverTargets, scanned
  <2> HIDE DEF ss
  <2> QED
    BY <1>4, <2>1, <2>2, FlattenType
<1>7. OverTargets(ErrorsBy) \in Seq(AnError)
  <2> DEFINE ss == [i \in DOMAIN scanned |-> ErrorsBy(scanned[i])]
  <2>1. ss \in [1 .. len -> Seq(AnError)]
    BY <1>2, <1>4
  <2>2. OverTargets(ErrorsBy) = FlattenSeq(ss)
    BY DEF OverTargets, scanned
  <2> HIDE DEF ss
  <2> QED
    BY <1>4, <2>1, <2>2, FlattenType
<1>8. NothingScanned \in Seq(AnError)
  <2>1. ScanError(<< >>) \in AnError
    <3>1. << >> \in Seq(APath) /\ << >> \in ASecret
      BY EmptySeq DEF ASecret
    <3> QED
      BY <3>1 DEF ScanError, AnError
  <2> QED
    BY <2>1, EmptySeq DEF NothingScanned
<1> QED
  BY <1>5, <1>6, <1>7, <1>8, ConcatProperties

(* The severities, one by one.                                             *)
LEMMA SeverityIs == Severity = {"info", "warn", "error"}
<1>1. DOMAIN Severities = {1, 2, 3}
  BY DEF Severities
<1> QED
  BY <1>1 DEF Severity, ToSet, Severities

(* The rank of each severity (rank in dedupe.go).                          *)
LEMMA RankIs == Rank("info") = 1 /\ Rank("warn") = 2 /\ Rank("error") = 3
<1> DEFINE I(s) == {i \in 1 .. Len(Severities) : Severities[i] = s}
<1>1. \A s : Rank(s) = IF I(s) # {} THEN Min(I(s)) ELSE 0
  BY DEF Rank, SelectInSeq
<1>2. Len(Severities) = 3 /\ Severities[1] = "info" /\ Severities[2] = "warn" /\ Severities[3] = "error"
  BY DEF Severities
<1>3. I("info") = {1} /\ I("warn") = {2} /\ I("error") = {3}
  BY <1>2
<1>4. Min({1}) = 1 /\ Min({2}) = 2 /\ Min({3}) = 3
  BY DEF Min
<1> HIDE DEF I
<1> QED
  BY <1>1, <1>3, <1>4

(* Each format has a name of its own for each severity.                    *)
LEMMA SeverityRead ==
  ASSUME NEW s \in Severity
  PROVE  /\ SeverityOf(SarifLevels, SarifLevel(s)) = s
         /\ SeverityOf(Criticality, CodeClimateSeverity(s)) = s
         /\ SeverityOf(SASTSeverities, SASTSeverity(s)) = s
<1>1. \A t \in Severity : SarifLevel(t) = SarifLevel(s) => t = s
  BY SeverityIs DEF SarifLevel
<1>2. \A t \in Severity : CodeClimateSeverity(t) = CodeClimateSeverity(s) => t = s
  BY SeverityIs DEF CodeClimateSeverity
<1>3. \A t \in Severity : SASTSeverity(t) = SASTSeverity(s) => t = s
  BY SeverityIs DEF SASTSeverity
<1> HIDE DEF Severity
<1>4. SeverityOf(SarifLevels, SarifLevel(s)) = s
  <2>1. \A t \in Severity : SarifLevels[t] = SarifLevel(s) <=> t = s
    BY <1>1 DEF SarifLevels
  <2> QED
    BY <2>1 DEF SeverityOf
<1>5. SeverityOf(Criticality, CodeClimateSeverity(s)) = s
  <2>1. \A t \in Severity : Criticality[t] = CodeClimateSeverity(s) <=> t = s
    BY <1>2 DEF Criticality
  <2> QED
    BY <2>1 DEF SeverityOf
<1>6. SeverityOf(SASTSeverities, SASTSeverity(s)) = s
  <2>1. \A t \in Severity : SASTSeverities[t] = SASTSeverity(s) <=> t = s
    BY <1>3 DEF SASTSeverities
  <2> QED
    BY <2>1 DEF SeverityOf
<1> QED
  BY <1>4, <1>5, <1>6

(* One sequence joined is itself.                                          *)
LEMMA FlattenOne ==
  ASSUME NEW S, NEW s \in Seq(S)
  PROVE  FlattenSeq(<<s>>) = s
<1>1. <<s>> \in Seq(Seq(S)) /\ Len(<<s>>) = 1 /\ <<s>>[1] = s
  OBVIOUS
<1> DEFINE ss == <<s>>
<1>2. PICK g \in [0 .. Len(ss) -> Seq(S)] :
        /\ g[0] = << >>
        /\ \A i \in 1 .. Len(ss) : g[i] = g[i - 1] \o ss[i]
        /\ FlattenSeq(ss) = g[Len(ss)]
  <2> HIDE DEF ss
  <2>1. ss \in Seq(Seq(S))
    BY <1>1 DEF ss
  <2> QED
    BY <2>1, FlattenSteps
<1>3. g[1] = << >> \o s /\ FlattenSeq(ss) = g[1]
  <2>1. Len(ss) = 1 /\ ss[1] = s /\ 1 \in 1 .. 1 /\ 1 - 1 = 0
    BY <1>1
  <2> HIDE DEF ss
  <2>2. \A i \in 1 .. 1 : g[i] = g[i - 1] \o ss[i]
    BY <1>2, <2>1
  <2>3. g[1] = g[0] \o ss[1]
    BY <2>1, <2>2
  <2> QED
    BY <1>2, <2>1, <2>3
<1> QED
  BY <1>3, ConcatEmptySeq

-----------------------------------------------------------------------------
(* What a report is written from.                                          *)
IsScan(cfg, scan) ==
  /\ scan.found \in Seq(Told(cfg)) /\ scan.suppressed \in Seq(Marked(cfg)) /\ scan.errors \in Seq(AnError)
People == {"text", "table"}
Shows(format, f) ==
  Entry(f.rule, f.severity, IF format \in People THEN f.file ELSE ReportPath(f.file), f.message)
ShownOf(format, scan) == [i \in DOMAIN scan.found |-> Shows(format, scan.found[i])]
MarkedOf(format, scan) ==
  IF format \in {"json", "sarif"}
    THEN [i \in DOMAIN scan.suppressed |-> Shows(format, scan.suppressed[i].finding)] ELSE << >>
ErrorsOf(format, scan) == IF format \in People THEN << >> ELSE ReportErrors(scan.errors)
ReadsAs(format, scan, seen) ==
  seen.shown = ShownOf(format, scan) /\ seen.marked = MarkedOf(format, scan) /\ seen.errors = ErrorsOf(format, scan)

(* The domains of what is written.                                         *)
LEMMA ScanDomains ==
  ASSUME NEW cfg, NEW scan, IsScan(cfg, scan)
  PROVE  /\ Len(scan.found) \in Nat /\ DOMAIN scan.found = 1 .. Len(scan.found)
         /\ Len(scan.suppressed) \in Nat /\ DOMAIN scan.suppressed = 1 .. Len(scan.suppressed)
         /\ Len(scan.errors) \in Nat /\ DOMAIN scan.errors = 1 .. Len(scan.errors)
         /\ \A i \in DOMAIN scan.found : scan.found[i] \in Told(cfg)
         /\ \A i \in DOMAIN scan.suppressed : scan.suppressed[i] \in Marked(cfg)
         /\ \A i \in DOMAIN scan.errors : scan.errors[i] \in AnError
  BY ElementOfSeq, LenProperties DEF IsScan

(* A finding as it is in JSON reads as the finding.                        *)
LEMMA ShowsJson ==
  ASSUME NEW list, NEW written, written = [i \in DOMAIN list |-> JsonFinding(Rules, list[i])],
         NEW format, format \notin People
  PROVE  Entries(written, EntryOf) = [i \in DOMAIN list |-> Shows(format, list[i])]
<1>1. ASSUME NEW f
      PROVE  EntryOf(JsonFinding(Rules, f)) = Shows(format, f)
  BY DEF EntryOf, JsonFinding, Shows
<1>2. DOMAIN written = DOMAIN list /\ \A i \in DOMAIN list : written[i] = JsonFinding(Rules, list[i])
  OBVIOUS
<1>3. \A i \in DOMAIN list : EntryOf(written[i]) = Shows(format, list[i])
  BY <1>1, <1>2
<1> QED
  BY <1>2, <1>3 DEF Entries

(* The JSON report reads as the scan it was written of (writeJSON).        *)
LEMMA ReadJson ==
  ASSUME NEW cfg, NEW scan, IsScan(cfg, scan)
  PROVE  ReadsAs("json", scan, Read("json", WriteMasked("json", Rules, scan)))
<1> DEFINE r == WriteJSON(Rules, scan)
<1>1. WriteMasked("json", Rules, scan) = r
  BY DEF WriteMasked
<1>2. Read("json", r) = Reading(Entries(r.findings, EntryOf), Entries(r.suppressed, LAMBDA s : EntryOf(s.finding)), r.errors)
  BY DEF Read
<1>3. /\ r.findings = [i \in DOMAIN scan.found |-> JsonFinding(Rules, scan.found[i])]
      /\ r.suppressed = [i \in DOMAIN scan.suppressed |-> JsonSuppressed(Rules, scan.suppressed[i])]
      /\ r.errors = ReportErrors(scan.errors)
  BY DEF WriteJSON, JsonFindings
<1> HIDE DEF r
<1>4. Entries(r.findings, EntryOf) = ShownOf("json", scan)
  <2>1. "json" \notin People
    BY DEF People
  <2> QED
    BY <1>3, <2>1, ShowsJson DEF ShownOf
<1>5. Entries(r.suppressed, LAMBDA s : EntryOf(s.finding)) = MarkedOf("json", scan)
  <2>1. ASSUME NEW i \in DOMAIN scan.suppressed
        PROVE  EntryOf(r.suppressed[i].finding) = Shows("json", scan.suppressed[i].finding)
    <3> DEFINE f == scan.suppressed[i].finding
    <3>1. r.suppressed[i].finding = JsonFinding(Rules, f)
      BY <1>3 DEF JsonSuppressed
    <3> HIDE DEF f
    <3>2. EntryOf(JsonFinding(Rules, f)) = Shows("json", f)
      BY DEF EntryOf, JsonFinding, Shows, People
    <3> QED
      BY <3>1, <3>2 DEF f
  <2>2. Entries(r.suppressed, LAMBDA s : EntryOf(s.finding))
          = [i \in DOMAIN scan.suppressed |-> EntryOf(r.suppressed[i].finding)]
    BY <1>3 DEF Entries
  <2> QED
    BY <2>1, <2>2 DEF MarkedOf
<1>6. r.errors = ErrorsOf("json", scan)
  BY <1>3 DEF ErrorsOf, People
<1> QED
  BY <1>1, <1>2, <1>4, <1>5, <1>6 DEF Reading, ReadsAs

(* The report of a template reads as the scan it was written of            *)
(* (writeTemplate).                                                        *)
LEMMA ReadTemplate ==
  ASSUME NEW cfg, NEW scan, IsScan(cfg, scan)
  PROVE  ReadsAs("template", scan, Read("template", WriteMasked("template", Rules, scan)))
<1> DEFINE r == WriteTemplate(Rules, scan)
<1>1. WriteMasked("template", Rules, scan) = r
  BY DEF WriteMasked
<1>2. Read("template", r) = Reading(Entries(r.findings, EntryOf), << >>, r.errors)
  BY DEF Read
<1>3. /\ r.findings = [i \in DOMAIN scan.found |-> JsonFinding(Rules, scan.found[i])]
      /\ r.errors = ReportErrors(scan.errors)
  BY DEF WriteTemplate, JsonFindings
<1> HIDE DEF r
<1>4. Entries(r.findings, EntryOf) = ShownOf("template", scan)
  <2>1. "template" \notin People
    BY DEF People
  <2> QED
    BY <1>3, <2>1, ShowsJson DEF ShownOf
<1>6. r.errors = ErrorsOf("template", scan)
  BY <1>3 DEF ErrorsOf, People
<1> QED
  BY <1>1, <1>2, <1>4, <1>6 DEF Reading, ReadsAs, MarkedOf

(* The reports for people read as the scan, and have no errors (writeText, *)
(* writeTable: errors go to stderr).                                       *)
LEMMA ReadForPeople ==
  ASSUME NEW cfg, NEW scan, IsScan(cfg, scan), NEW format \in People
  PROVE  ReadsAs(format, scan, Read(format, WriteMasked(format, Rules, scan)))
<1> DEFINE r == WriteMasked(format, Rules, scan)
<1>1. Read(format, r) = Reading(Entries(r.entries, EntryOf), << >>, << >>)
  BY DEF Read, People
<1>2. Entries(r.entries, EntryOf) = ShownOf(format, scan)
  <2>1. CASE format = "text"
    <3>1. r.entries = [i \in DOMAIN scan.found |-> Diagnostic(scan, scan.found[i])]
      BY <2>1 DEF WriteMasked, WriteText
    <3> HIDE DEF r
    <3>2. ASSUME NEW i \in DOMAIN scan.found PROVE EntryOf(r.entries[i]) = Shows(format, scan.found[i])
      <4> DEFINE f == scan.found[i]
                 e == Diagnostic(scan, f)
      <4>1. r.entries[i] = e
        BY <3>1
      <4>2. e.rule = f.rule /\ e.severity = f.severity /\ e.file = f.file /\ e.message = f.message
        BY DEF Diagnostic
      <4> HIDE DEF e, f
      <4> QED
        BY <4>1, <4>2 DEF EntryOf, Shows, f
    <3> QED
      BY <3>1, <3>2 DEF Entries, ShownOf
  <2>2. CASE format = "table"
    <3>1. r.entries = [i \in DOMAIN scan.found |-> TableRow(scan.found[i])]
      BY <2>2 DEF WriteMasked, WriteTable
    <3> HIDE DEF r
    <3>2. ASSUME NEW i \in DOMAIN scan.found PROVE EntryOf(r.entries[i]) = Shows(format, scan.found[i])
      <4> DEFINE f == scan.found[i]
                 e == TableRow(f)
      <4>1. r.entries[i] = e
        BY <3>1
      <4>2. e.rule = f.rule /\ e.severity = f.severity /\ e.file = f.file /\ e.message = f.message
        BY DEF TableRow
      <4> HIDE DEF e, f
      <4>3. EntryOf(e) = Shows(format, f)
        BY <4>2 DEF EntryOf, Shows
      <4> QED
        BY <4>1, <4>3 DEF f
    <3>3. Entries(r.entries, EntryOf) = [i \in DOMAIN scan.found |-> EntryOf(r.entries[i])]
      BY <3>1 DEF Entries
    <3> QED
      BY <3>2, <3>3 DEF ShownOf
  <2> QED
    BY <2>1, <2>2 DEF People
<1>3. MarkedOf(format, scan) = << >> /\ ErrorsOf(format, scan) = << >>
  BY DEF MarkedOf, ErrorsOf, People
<1> QED
  BY <1>1, <1>2, <1>3 DEF Reading, ReadsAs

(* The GitLab SAST report reads as the scan it was written of              *)
(* (writeGitLabSAST).                                                      *)
LEMMA ReadSecurity ==
  ASSUME NEW cfg, NEW scan, IsScan(cfg, scan)
  PROVE  ReadsAs("gitlab-sast", scan, Read("gitlab-sast", WriteMasked("gitlab-sast", Rules, scan)))
<1> DEFINE r == WriteGitLabSAST(Rules, scan)
           Of(v) == Entry(v.primary, SeverityOf(SASTSeverities, v.severity), v.file, v.description)
<1>1. WriteMasked("gitlab-sast", Rules, scan) = r
  BY DEF WriteMasked
<1>2. Read("gitlab-sast", r) = Reading([i \in DOMAIN r.vulnerabilities |-> Of(r.vulnerabilities[i])], << >>, r.messages)
  BY DEF Read, ReadSAST, Entries
<1>3. /\ r.vulnerabilities = [i \in DOMAIN scan.found |-> SASTVuln(Rules, Reported(scan.found[i]))]
      /\ r.messages = ReportErrors(scan.errors)
  BY DEF WriteGitLabSAST
<1>4. ASSUME NEW i \in DOMAIN scan.found
      PROVE  Of(SASTVuln(Rules, Reported(scan.found[i]))) = Shows("gitlab-sast", scan.found[i])
  <2> DEFINE f == scan.found[i]
             g == Reported(f)
  <2>1. f \in AFinding /\ f.severity \in Severity
    BY ScanDomains DEF Told, AFinding
  <2> HIDE DEF f
  <2>2. g.rule = f.rule /\ g.severity = f.severity /\ g.message = f.message /\ g.file = ReportPath(f.file)
    BY <2>1 DEF Reported, AFinding
  <2> HIDE DEF g
  <2>3. Of(SASTVuln(Rules, g)) = Entry(g.rule, SeverityOf(SASTSeverities, SASTSeverity(g.severity)), g.file, g.message)
    BY DEF SASTVuln
  <2>4. SeverityOf(SASTSeverities, SASTSeverity(g.severity)) = f.severity
    BY <2>1, <2>2, SeverityRead
  <2>5. Of(SASTVuln(Rules, g)) = Shows("gitlab-sast", f)
    BY <2>2, <2>3, <2>4 DEF Shows, People
  <2> QED
    BY <2>5 DEF f, g
<1> HIDE DEF r, Of
<1>5. [i \in DOMAIN r.vulnerabilities |-> Of(r.vulnerabilities[i])] = ShownOf("gitlab-sast", scan)
  BY <1>3, <1>4 DEF ShownOf
<1>6. r.messages = ErrorsOf("gitlab-sast", scan)
  BY <1>3 DEF ErrorsOf, People
<1> QED
  BY <1>1, <1>2, <1>5, <1>6 DEF Reading, ReadsAs, MarkedOf

(* Two sequences one after the other, told apart by a test.                *)
LEMMA PassingParts ==
  ASSUME NEW S, NEW a \in Seq(S), NEW b \in Seq(S), NEW first, NEW second,
         first \subseteq 1 .. Len(a) + Len(b), second \subseteq 1 .. Len(a) + Len(b),
         \A i \in 1 .. Len(a) : i \in first /\ i \notin second,
         \A i \in Len(a) + 1 .. Len(a) + Len(b) : i \notin first /\ i \in second
  PROVE  Kept(a \o b, first) = a /\ Kept(a \o b, second) = b
<1>1. Len(a) \in Nat /\ Len(b) \in Nat
  BY LenProperties
<1>2. \A i \in 1 .. Len(a) + Len(b) : i \in 1 .. Len(a) \/ i \in Len(a) + 1 .. Len(a) + Len(b)
  BY <1>1
<1>3. \A i \in 1 .. Len(a) : i \in 1 .. Len(a) + Len(b)
  BY <1>1
<1>4. \A i \in Len(a) + 1 .. Len(a) + Len(b) : i \in 1 .. Len(a) + Len(b)
  BY <1>1
<1>5. first \intersect (1 .. Len(a) + Len(b)) = 1 .. Len(a)
  BY <1>2, <1>3
<1>6. second \intersect (1 .. Len(a) + Len(b)) = Len(a) + 1 .. Len(a) + Len(b)
  BY <1>2, <1>4
<1> QED
  BY <1>5, <1>6, KeptParts

(* What a sequence made of two has at its places.                          *)
EitherOf(a, b) == Range(a) \union Range(b)
AreParts(a, b, la, lb) ==
  /\ a \in Seq(EitherOf(a, b)) /\ b \in Seq(EitherOf(a, b)) /\ a \o b \in Seq(EitherOf(a, b))
  /\ Len(a) = la /\ Len(b) = lb /\ Len(a \o b) = la + lb /\ DOMAIN (a \o b) = 1 .. la + lb
  /\ \A i \in 1 .. la : i \in 1 .. la + lb /\ (a \o b)[i] = a[i]
  /\ \A i \in la + 1 .. la + lb : i \in 1 .. la + lb /\ i - la \in 1 .. lb /\ (a \o b)[i] = b[i - la]

(* Two sequences one after the other have the first at the first places    *)
(* and the second at the others.                                           *)
LEMMA PartsOf ==
  ASSUME NEW la \in Nat, NEW lb \in Nat, NEW a, NEW b, a = [i \in 1 .. la |-> a[i]], b = [i \in 1 .. lb |-> b[i]]
  PROVE  AreParts(a, b, la, lb)
<1> DEFINE S == EitherOf(a, b)
<1>1. a \in [1 .. la -> S] /\ b \in [1 .. lb -> S]
  <2>1. DOMAIN a = 1 .. la /\ DOMAIN b = 1 .. lb
    OBVIOUS
  <2> QED
    BY <2>1 DEF EitherOf, Range
<1> HIDE DEF S
<1>2. a \in Seq(S) /\ b \in Seq(S) /\ Len(a) = la /\ Len(b) = lb
  BY <1>1, FunctionAsSeq
<1>3. /\ a \o b \in Seq(S) /\ Len(a \o b) = la + lb
      /\ \A i \in 1 .. la + lb : (a \o b)[i] = IF i <= la THEN a[i] ELSE b[i - la]
  <2>1. /\ a \o b \in Seq(S) /\ Len(a \o b) = Len(a) + Len(b)
        /\ \A i \in 1 .. Len(a) + Len(b) : (a \o b)[i] = IF i <= Len(a) THEN a[i] ELSE b[i - Len(a)]
    BY <1>2, ConcatProperties
  <2> QED
    BY <1>2, <2>1
<1>4. DOMAIN (a \o b) = 1 .. la + lb
  BY <1>3, LenProperties
<1>5. \A i \in 1 .. la : i \in 1 .. la + lb /\ i <= la
  OBVIOUS
<1>6. \A i \in la + 1 .. la + lb : i \in 1 .. la + lb /\ ~(i <= la) /\ i - la \in 1 .. lb
  OBVIOUS
<1>7. /\ \A i \in 1 .. la : (a \o b)[i] = a[i]
      /\ \A i \in la + 1 .. la + lb : i - la \in 1 .. lb /\ (a \o b)[i] = b[i - la]
  BY <1>3, <1>5, <1>6
<1> QED
  BY <1>2, <1>3, <1>4, <1>5, <1>6, <1>7 DEF S, AreParts

-----------------------------------------------------------------------------
(* The issues of a Code Climate report: first those of findings.           *)
IssuesOf(scan) == [i \in DOMAIN scan.found |-> CodeClimateIssue(Reported(scan.found[i]))]
ErrorIssuesOf(scan) == [i \in DOMAIN scan.errors |-> CodeClimateError(ReportErrors(scan.errors)[i])]

(* An issue of a finding is not taken for one of an error, and reads as    *)
(* the finding.                                                            *)
LEMMA IssueOfFinding ==
  ASSUME NEW cfg, NEW f \in Told(cfg)
  PROVE  LET x == CodeClimateIssue(Reported(f))
         IN  /\ x.check # "glsec-error"
             /\ Entry(x.check, SeverityOf(Criticality, x.severity), x.path, x.description) = Shows("codeclimate", f)
<1>1. f \in AFinding /\ f.severity \in Severity /\ f.rule # "glsec-error"
  BY DEF Told, AFinding
<1> DEFINE g == Reported(f)
<1>2. g.rule = f.rule /\ g.severity = f.severity /\ g.message = f.message /\ g.file = ReportPath(f.file)
  BY <1>1 DEF Reported, AFinding
<1> HIDE DEF g
<1> DEFINE x == CodeClimateIssue(g)
<1>3. /\ x.check = g.rule /\ x.severity = CodeClimateSeverity(g.severity) /\ x.path = g.file
      /\ x.description = g.message
  BY DEF CodeClimateIssue
<1> HIDE DEF x
<1>4. SeverityOf(Criticality, x.severity) = f.severity
  BY <1>1, <1>2, <1>3, SeverityRead
<1>5. /\ x.check # "glsec-error"
      /\ Entry(x.check, SeverityOf(Criticality, x.severity), x.path, x.description) = Shows("codeclimate", f)
  BY <1>1, <1>2, <1>3, <1>4 DEF Shows, People
<1> QED
  BY <1>5 DEF x, g

(* The Code Climate report reads as the scan it was written of             *)
(* (writeCodeClimate).                                                     *)
LEMMA ReadClimate ==
  ASSUME NEW cfg, NEW scan, IsScan(cfg, scan)
  PROVE  ReadsAs("codeclimate", scan, Read("codeclimate", WriteMasked("codeclimate", Rules, scan)))
<1> DEFINE a == IssuesOf(scan)
           b == ErrorIssuesOf(scan)
           la == Len(scan.found)
           lb == Len(scan.errors)
           r == a \o b
           Of(x) == Entry(x.check, SeverityOf(Criticality, x.severity), x.path, x.description)
           fine == {i \in DOMAIN r : ~(r[i].check = "glsec-error")}
           broken == {i \in DOMAIN r : r[i].check = "glsec-error"}
<1>1. la \in Nat /\ lb \in Nat /\ DOMAIN scan.found = 1 .. la /\ DOMAIN scan.errors = 1 .. lb
  BY ScanDomains
<1>2. WriteMasked("codeclimate", Rules, scan) = r
  <2>1. DOMAIN ReportErrors(scan.errors) = DOMAIN scan.errors
    BY DEF ReportErrors
  <2> QED
    BY <2>1 DEF WriteMasked, WriteCodeClimate, IssuesOf, ErrorIssuesOf
<1>3. Read("codeclimate", r) =
        Reading([i \in DOMAIN Kept(r, fine) |-> Of(Kept(r, fine)[i])], << >>,
                [i \in DOMAIN Kept(r, broken) |-> Kept(r, broken)[i].description])
  BY DEF Read, ReadCodeClimate, Entries, Passing
<1>4. a = [i \in 1 .. la |-> a[i]] /\ b = [i \in 1 .. lb |-> b[i]]
  BY <1>1 DEF IssuesOf, ErrorIssuesOf
<1>5. AreParts(a, b, la, lb)
  <2> HIDE DEF a, b, la, lb
  <2> QED
    BY <1>1, <1>4, PartsOf
<1>6. ASSUME NEW i \in 1 .. la
      PROVE  a[i].check # "glsec-error" /\ Of(a[i]) = Shows("codeclimate", scan.found[i])
  <2>1. scan.found[i] \in Told(cfg) /\ a[i] = CodeClimateIssue(Reported(scan.found[i]))
    BY <1>1, ScanDomains DEF IssuesOf
  <2> QED
    BY <2>1, IssueOfFinding
<1>7. ASSUME NEW i \in 1 .. lb
      PROVE  b[i].check = "glsec-error" /\ b[i].description = ReportErrors(scan.errors)[i]
  BY <1>1 DEF ErrorIssuesOf, CodeClimateError
<1>8. Kept(r, fine) = a /\ Kept(r, broken) = b
  <2> HIDE DEF a, b, la, lb
  <2>3. \A i \in 1 .. la : i \in fine /\ i \notin broken
    BY <1>5, <1>6 DEF AreParts
  <2>4. \A i \in la + 1 .. la + lb : i \notin fine /\ i \in broken
    BY <1>5, <1>7 DEF AreParts
  <2>5. fine \subseteq 1 .. la + lb /\ broken \subseteq 1 .. la + lb
    BY <1>5 DEF AreParts
  <2>5a. a \in Seq(EitherOf(a, b)) /\ b \in Seq(EitherOf(a, b)) /\ Len(a) = la /\ Len(b) = lb
    BY <1>5 DEF AreParts
  <2> HIDE DEF fine, broken
  <2>6. Kept(a \o b, fine) = a /\ Kept(a \o b, broken) = b
    BY <2>3, <2>4, <2>5, <2>5a, PassingParts
  <2> QED
    BY <2>6
<1> HIDE DEF fine, broken, r
<1>9. [i \in DOMAIN Kept(r, fine) |-> Of(Kept(r, fine)[i])] = ShownOf("codeclimate", scan)
  <2>1. DOMAIN a = 1 .. la
    BY <1>4
  <2> HIDE DEF a, la, Of
  <2>2. [i \in DOMAIN a |-> Of(a[i])] = [i \in DOMAIN scan.found |-> Shows("codeclimate", scan.found[i])]
    BY <1>1, <1>6, <2>1
  <2> QED
    BY <1>8, <2>2 DEF ShownOf
<1>10. [i \in DOMAIN Kept(r, broken) |-> Kept(r, broken)[i].description] = ErrorsOf("codeclimate", scan)
  <2>1. DOMAIN b = 1 .. lb
    BY <1>4
  <2>2. ErrorsOf("codeclimate", scan) = [i \in 1 .. lb |-> ReportErrors(scan.errors)[i]]
    BY <1>1 DEF ErrorsOf, People, ReportErrors
  <2> HIDE DEF b, lb
  <2>3. [i \in DOMAIN b |-> b[i].description] = [i \in 1 .. lb |-> ReportErrors(scan.errors)[i]]
    BY <1>7, <2>1
  <2> QED
    BY <1>8, <2>2, <2>3
<1> HIDE DEF Of
<1> QED
  BY <1>2, <1>3, <1>9, <1>10 DEF Reading, ReadsAs, MarkedOf

-----------------------------------------------------------------------------
(* The cases of a JUnit report.                                            *)
CasesOf(scan) == [i \in DOMAIN scan.found |-> JUnitFailure(Reported(scan.found[i]))]
ErrorCasesOf(scan) == [i \in DOMAIN scan.errors |-> JUnitError(ReportErrors(scan.errors)[i])]

(* The case of a finding has a failure and no error, and reads as the      *)
(* finding.                                                                *)
LEMMA CaseOfFinding ==
  ASSUME NEW cfg, NEW f \in Told(cfg)
  PROVE  LET c == JUnitFailure(Reported(f))
         IN  /\ c.failure # << >> /\ c.error = << >>
             /\ Entry(c.name[1], c.failure[1].type, c.class[1], c.failure[1].message) = Shows("junit", f)
<1>1. f \in AFinding
  BY DEF Told
<1> DEFINE g == Reported(f)
<1>2. g.rule = f.rule /\ g.severity = f.severity /\ g.message = f.message /\ g.file = ReportPath(f.file)
  BY <1>1 DEF Reported, AFinding
<1> HIDE DEF g
<1> DEFINE c == JUnitFailure(g)
<1>3. /\ c.failure = <<[message |-> g.message, type |-> g.severity]>> /\ c.error = << >>
      /\ c.name = <<g.rule, g.job>> /\ c.class = <<g.file, IF g.line > 0 THEN <<g.line>> ELSE << >> >>
  BY DEF JUnitFailure, Case
<1> HIDE DEF c
<1>4. /\ c.failure # << >> /\ c.failure[1].type = g.severity /\ c.failure[1].message = g.message
      /\ c.name[1] = g.rule /\ c.class[1] = g.file
  BY <1>3
<1>5. /\ c.failure # << >> /\ c.error = << >>
      /\ Entry(c.name[1], c.failure[1].type, c.class[1], c.failure[1].message) = Shows("junit", f)
  BY <1>2, <1>3, <1>4 DEF Shows, People
<1> QED
  BY <1>5 DEF c, g

(* The cases are the findings, then the errors, or one that passes.        *)
Failed(cases) == {i \in DOMAIN cases : cases[i].failure # << >>}
Broken(cases) == {i \in DOMAIN cases : cases[i].error # << >>}

(* The failures of a JUnit report are the findings in their order and its  *)
(* errors the errors; with neither it has the one case that passes.        *)
LEMMA JUnitParts ==
  ASSUME NEW cfg, NEW scan, IsScan(cfg, scan)
  PROVE  LET cases == WriteJUnit(scan).cases
         IN  /\ Kept(cases, Failed(cases)) = CasesOf(scan) /\ Kept(cases, Broken(cases)) = ErrorCasesOf(scan)
             /\ Len(cases) = IF Len(scan.found) + Len(scan.errors) = 0 THEN 1 ELSE Len(scan.found) + Len(scan.errors)
             /\ CasesOf(scan) \o ErrorCasesOf(scan) = << >> <=> Len(scan.found) + Len(scan.errors) = 0
<1> DEFINE a == CasesOf(scan)
           b == ErrorCasesOf(scan)
           la == Len(scan.found)
           lb == Len(scan.errors)
           r == a \o b
           cases == WriteJUnit(scan).cases
<1>1. la \in Nat /\ lb \in Nat /\ DOMAIN scan.found = 1 .. la /\ DOMAIN scan.errors = 1 .. lb
  BY ScanDomains
<1>2. cases = IF r = << >> THEN <<NoFindings>> ELSE r
  <2>1. DOMAIN ReportErrors(scan.errors) = DOMAIN scan.errors
    BY DEF ReportErrors
  <2> QED
    BY <2>1 DEF WriteJUnit, CasesOf, ErrorCasesOf
<1>3. a = [i \in 1 .. la |-> a[i]] /\ b = [i \in 1 .. lb |-> b[i]]
  BY <1>1 DEF CasesOf, ErrorCasesOf
<1>4. AreParts(a, b, la, lb)
  <2> HIDE DEF a, b, la, lb
  <2> QED
    BY <1>1, <1>3, PartsOf
<1>5. ASSUME NEW i \in 1 .. la
      PROVE  a[i].failure # << >> /\ a[i].error = << >>
  <2>1. scan.found[i] \in Told(cfg) /\ a[i] = JUnitFailure(Reported(scan.found[i]))
    BY <1>1, ScanDomains DEF CasesOf
  <2> QED
    BY <2>1, CaseOfFinding
<1>6. ASSUME NEW i \in 1 .. lb
      PROVE  b[i].failure = << >> /\ b[i].error # << >>
  <2>1. b[i] = JUnitError(ReportErrors(scan.errors)[i])
    BY <1>1 DEF ErrorCasesOf
  <2> DEFINE e == ReportErrors(scan.errors)[i]
  <2>1a. b[i] = JUnitError(e)
    BY <2>1
  <2> HIDE DEF e, b
  <2>2. b[i].failure = << >> /\ b[i].error = <<e>>
    <3> DEFINE name == <<"scan failed">>
               class == e.file
               broken == <<e>>
    <3>1. JUnitError(e) = [name |-> name, class |-> class, failure |-> << >>, error |-> broken]
      BY DEF JUnitError, Case
    <3> HIDE DEF name, class, broken
    <3>2. JUnitError(e).failure = << >> /\ JUnitError(e).error = broken
      BY <3>1
    <3> QED
      BY <2>1a, <3>2 DEF broken
  <2>3. <<e>> # << >>
    OBVIOUS
  <2> QED
    BY <2>2, <2>3
<1>7. r = << >> <=> la + lb = 0
  <2> HIDE DEF a, b, la, lb
  <2>1. r \in Seq(EitherOf(a, b)) /\ Len(r) = la + lb
    BY <1>4 DEF AreParts
  <2> QED
    BY <2>1, EmptySeq
<1> HIDE DEF cases
<1>8. CASE la + lb = 0
  <2>1. cases = <<NoFindings>> /\ Len(cases) = 1
    BY <1>2, <1>7, <1>8
  <2>2. Failed(cases) = {} /\ Broken(cases) = {}
    <3>1. NoFindings.failure = << >> /\ NoFindings.error = << >>
      BY DEF NoFindings, Case
    <3>2. DOMAIN cases = {1} /\ cases[1] = NoFindings
      BY <2>1
    <3> QED
      BY <3>1, <3>2 DEF Failed, Broken
  <2>3. cases \in Seq({NoFindings})
    BY <2>1
  <2>4. Kept(cases, Failed(cases)) = << >> /\ Kept(cases, Broken(cases)) = << >>
    BY <2>2, <2>3, KeptNone
  <2>5. a = << >> /\ b = << >>
    <3> HIDE DEF a, b, la, lb
    <3>1. a \in Seq(EitherOf(a, b)) /\ Len(a) = 0 /\ b \in Seq(EitherOf(a, b)) /\ Len(b) = 0
      BY <1>1, <1>4, <1>8 DEF AreParts
    <3> QED
      BY <3>1, EmptySeq
  <2> HIDE DEF a, b, la, lb
  <2> QED
    BY <1>7, <1>8, <2>1, <2>4, <2>5 DEF a, b, la, lb, cases
<1>9. CASE la + lb # 0
  <2>1. cases = r /\ Len(cases) = la + lb
    <3> HIDE DEF a, b, la, lb
    <3> QED
      BY <1>2, <1>4, <1>7, <1>9 DEF AreParts
  <2>2. Kept(a \o b, Failed(r)) = a /\ Kept(a \o b, Broken(r)) = b
    <3> HIDE DEF a, b, la, lb
    <3> DEFINE first == Failed(r)
               second == Broken(r)
    <3>1. \A i \in 1 .. la : i \in first /\ i \notin second
      BY <1>4, <1>5 DEF AreParts, Failed, Broken
    <3>2. \A i \in la + 1 .. la + lb : i \notin first /\ i \in second
      BY <1>4, <1>6 DEF AreParts, Failed, Broken
    <3>3. first \subseteq 1 .. la + lb /\ second \subseteq 1 .. la + lb
      BY <1>4 DEF AreParts, Failed, Broken
    <3>4. a \in Seq(EitherOf(a, b)) /\ b \in Seq(EitherOf(a, b)) /\ Len(a) = la /\ Len(b) = lb
      BY <1>4 DEF AreParts
    <3> HIDE DEF first, second
    <3>5. Kept(a \o b, first) = a /\ Kept(a \o b, second) = b
      BY <3>1, <3>2, <3>3, <3>4, PassingParts
    <3> QED
      BY <3>5 DEF first, second
  <2> HIDE DEF a, b, la, lb
  <2> QED
    BY <1>7, <1>9, <2>1, <2>2 DEF a, b, la, lb, cases
<1> QED
  BY <1>8, <1>9

(* The JUnit report reads as the scan it was written of (writeJUnit).      *)
LEMMA ReadCases ==
  ASSUME NEW cfg, NEW scan, IsScan(cfg, scan)
  PROVE  ReadsAs("junit", scan, Read("junit", WriteMasked("junit", Rules, scan)))
<1> DEFINE r == WriteJUnit(scan)
           Of(c) == Entry(c.name[1], c.failure[1].type, c.class[1], c.failure[1].message)
           a == CasesOf(scan)
           b == ErrorCasesOf(scan)
<1>1. WriteMasked("junit", Rules, scan) = r
  BY DEF WriteMasked
<1>2. Read("junit", r) =
        Reading([i \in DOMAIN Kept(r.cases, Failed(r.cases)) |-> Of(Kept(r.cases, Failed(r.cases))[i])], << >>,
                [i \in DOMAIN Kept(r.cases, Broken(r.cases)) |-> Kept(r.cases, Broken(r.cases))[i].error[1]])
  BY DEF Read, ReadJUnit, Entries, Passing, Failed, Broken
<1>3. Kept(r.cases, Failed(r.cases)) = a /\ Kept(r.cases, Broken(r.cases)) = b
  BY JUnitParts
<1>4. ASSUME NEW i \in DOMAIN scan.found
      PROVE  Of(a[i]) = Shows("junit", scan.found[i])
  <2>1. scan.found[i] \in Told(cfg) /\ a[i] = JUnitFailure(Reported(scan.found[i]))
    BY ScanDomains DEF CasesOf
  <2> QED
    BY <2>1, CaseOfFinding
<1>5. ASSUME NEW i \in DOMAIN scan.errors
      PROVE  b[i].error[1] = ReportErrors(scan.errors)[i]
  BY DEF ErrorCasesOf, JUnitError, Case
<1>6. DOMAIN a = DOMAIN scan.found /\ DOMAIN b = DOMAIN scan.errors
  BY DEF CasesOf, ErrorCasesOf
<1> HIDE DEF r, a, b, Of
<1>7. [i \in DOMAIN a |-> Of(a[i])] = ShownOf("junit", scan)
  BY <1>4, <1>6 DEF ShownOf
<1>8. [i \in DOMAIN b |-> b[i].error[1]] = ErrorsOf("junit", scan)
  <2>1. ErrorsOf("junit", scan) = [i \in DOMAIN scan.errors |-> ReportErrors(scan.errors)[i]]
    BY DEF ErrorsOf, People, ReportErrors
  <2> QED
    BY <1>5, <1>6, <2>1
<1> QED
  BY <1>1, <1>2, <1>3, <1>7, <1>8 DEF Reading, ReadsAs, MarkedOf

(* The results of a SARIF report: first those that nothing suppresses.     *)
ResultsOf(scan) == [i \in DOMAIN scan.found |-> SarifResultOf(scan.found[i], << >>)]
QuietResultsOf(scan) ==
  [i \in DOMAIN scan.suppressed |->
     SarifResultOf(scan.suppressed[i].finding, <<SarifSuppression(scan.suppressed[i])>>)]

(* A SARIF result reads as the finding it was made of, and keeps its       *)
(* suppressions.                                                           *)
LEMMA ResultOfFinding ==
  ASSUME NEW f \in AFinding, NEW suppressions
  PROVE  LET x == SarifResultOf(f, suppressions)
         IN  /\ x.suppressions = suppressions /\ x.rule = f.rule
             /\ Entry(x.rule, SeverityOf(SarifLevels, x.level), x.at.uri, x.message) = Shows("sarif", f)
<1>1. f.severity \in Severity
  BY DEF AFinding
<1> DEFINE x == SarifResultOf(f, suppressions)
           place == SarifLocation(f.file, f.line)
<1>2. place.uri = ReportPath(f.file)
  BY DEF SarifLocation
<1> HIDE DEF place
<1>3. /\ x.suppressions = suppressions /\ x.rule = f.rule /\ x.level = SarifLevel(f.severity)
      /\ x.message = f.message /\ x.at = place
  BY DEF SarifResultOf, place
<1> HIDE DEF x
<1>4. SeverityOf(SarifLevels, x.level) = f.severity
  BY <1>1, <1>3, SeverityRead
<1>5. /\ x.suppressions = suppressions /\ x.rule = f.rule
      /\ Entry(x.rule, SeverityOf(SarifLevels, x.level), x.at.uri, x.message) = Shows("sarif", f)
  BY <1>2, <1>3, <1>4 DEF Shows, People
<1> QED
  BY <1>5 DEF x

SarifParted(scan) ==
  LET a == ResultsOf(scan)
      b == QuietResultsOf(scan)
      r == a \o b
  IN  /\ WriteSARIF(Rules, scan).results = r
      /\ AreParts(a, b, Len(scan.found), Len(scan.suppressed))
      /\ Kept(r, {i \in DOMAIN r : r[i].suppressions = << >>}) = a
      /\ Kept(r, {i \in DOMAIN r : r[i].suppressions # << >>}) = b

(* The results without a suppression are the findings, those with one the  *)
(* suppressed findings.                                                    *)
LEMMA SarifParts ==
  ASSUME NEW cfg, NEW scan, IsScan(cfg, scan)
  PROVE  SarifParted(scan)
<1> DEFINE a == ResultsOf(scan)
           b == QuietResultsOf(scan)
           la == Len(scan.found)
           lb == Len(scan.suppressed)
           r == a \o b
           first == {i \in DOMAIN r : r[i].suppressions = << >>}
           second == {i \in DOMAIN r : r[i].suppressions # << >>}
<1>1. la \in Nat /\ lb \in Nat /\ DOMAIN scan.found = 1 .. la /\ DOMAIN scan.suppressed = 1 .. lb
  BY ScanDomains
<1>2. WriteSARIF(Rules, scan).results = r
  BY DEF WriteSARIF, ResultsOf, QuietResultsOf
<1>4. a = [i \in 1 .. la |-> a[i]] /\ b = [i \in 1 .. lb |-> b[i]]
  BY <1>1 DEF ResultsOf, QuietResultsOf
<1>5. AreParts(a, b, la, lb)
  <2> HIDE DEF a, b, la, lb
  <2> QED
    BY <1>1, <1>4, PartsOf
<1>6. ASSUME NEW i \in 1 .. la
      PROVE  a[i].suppressions = << >>
  <2>1. scan.found[i] \in AFinding /\ a[i] = SarifResultOf(scan.found[i], << >>)
    BY <1>1, ScanDomains DEF ResultsOf, Told
  <2> QED
    BY <2>1, ResultOfFinding
<1>7. ASSUME NEW i \in 1 .. lb
      PROVE  b[i].suppressions # << >>
  <2> DEFINE mark == SarifSuppression(scan.suppressed[i])
             f == scan.suppressed[i].finding
  <2>1. f \in AFinding /\ b[i] = SarifResultOf(f, <<mark>>)
    BY <1>1, ScanDomains DEF QuietResultsOf, Marked, Told
  <2> HIDE DEF mark, f, b
  <2>2. b[i].suppressions = <<mark>>
    BY <2>1, ResultOfFinding
  <2>3. <<mark>> # << >>
    OBVIOUS
  <2> QED
    BY <2>2, <2>3
<1>8. Kept(r, first) = a /\ Kept(r, second) = b
  <2> HIDE DEF a, b, la, lb
  <2>3. \A i \in 1 .. la : i \in first /\ i \notin second
    BY <1>5, <1>6 DEF AreParts
  <2>4. \A i \in la + 1 .. la + lb : i \notin first /\ i \in second
    BY <1>5, <1>7 DEF AreParts
  <2>5. first \subseteq 1 .. la + lb /\ second \subseteq 1 .. la + lb
    BY <1>5 DEF AreParts
  <2>5a. a \in Seq(EitherOf(a, b)) /\ b \in Seq(EitherOf(a, b)) /\ Len(a) = la /\ Len(b) = lb
    BY <1>5 DEF AreParts
  <2> HIDE DEF first, second
  <2>6. Kept(a \o b, first) = a /\ Kept(a \o b, second) = b
    BY <2>3, <2>4, <2>5, <2>5a, PassingParts
  <2> QED
    BY <2>6
<1> HIDE DEF a, b, la, lb
<1>9. SarifParted(scan)
  BY <1>2, <1>5, <1>8 DEF SarifParted, a, b, la, lb
<1> QED
  BY <1>9

(* Nothing joined is nothing.                                              *)
LEMMA FlattenNone == FlattenSeq(<< >>) = << >>
<1> DEFINE ss == << >>
<1>1. ss \in Seq(Seq({})) /\ Len(ss) = 0
  OBVIOUS
<1> HIDE DEF ss
<1>2. PICK g \in [0 .. Len(ss) -> Seq({})] :
        /\ g[0] = << >>
        /\ \A i \in 1 .. Len(ss) : g[i] = g[i - 1] \o ss[i]
        /\ FlattenSeq(ss) = g[Len(ss)]
  BY <1>1, FlattenSteps
<1>3. FlattenSeq(ss) = << >>
  BY <1>1, <1>2
<1> QED
  BY <1>3 DEF ss

(* The errors are the notifications of the invocation, if there is one.    *)
ErrorsIn(invocation) == [j \in DOMAIN invocation.notifications |-> invocation.notifications[j].error]

(* The notifications of a SARIF report are the errors.                     *)
LEMMA Notified ==
  ASSUME NEW errs \in Seq(AnError)
  PROVE  LET inv == SarifInvocations(errs)
         IN FlattenSeq([i \in DOMAIN inv |-> ErrorsIn(inv[i])]) = ReportErrors(errs)
<1>1. CASE errs = << >>
  <2>1. SarifInvocations(errs) = << >> /\ ReportErrors(errs) = << >>
    BY <1>1 DEF SarifInvocations, ReportErrors
  <2> QED
    BY <2>1, FlattenNone
<1>2. CASE errs # << >>
  <2> DEFINE notes == [i \in DOMAIN errs |-> SarifNotification(errs[i])]
             call == [successful |-> FALSE, notifications |-> notes]
  <2>1. SarifInvocations(errs) = <<call>>
    BY <1>2 DEF SarifInvocations
  <2>2. ErrorsIn(call) = ReportErrors(errs)
    <3>1. \A i \in DOMAIN errs : SarifNotification(errs[i]).error = ReportError(errs[i])
      BY DEF SarifNotification
    <3>2. call.notifications = notes /\ DOMAIN notes = DOMAIN errs
          /\ \A i \in DOMAIN errs : notes[i] = SarifNotification(errs[i])
      OBVIOUS
    <3> HIDE DEF call, notes
    <3> QED
      BY <3>1, <3>2 DEF ErrorsIn, ReportErrors
  <2> HIDE DEF call
  <2>3. [i \in DOMAIN <<call>> |-> ErrorsIn(<<call>>[i])] = <<ReportErrors(errs)>>
    BY <2>2
  <2>4. ReportErrors(errs) \in Seq(Range(ReportErrors(errs)))
    <3>1. Len(errs) \in Nat /\ DOMAIN errs = 1 .. Len(errs)
      BY LenProperties
    <3>2. ReportErrors(errs) \in [1 .. Len(errs) -> Range(ReportErrors(errs))]
      BY <3>1 DEF ReportErrors, Range
    <3> HIDE DEF Range
    <3> QED
      BY <3>1, <3>2, FunctionAsSeq
  <2> QED
    BY <2>1, <2>3, <2>4, FlattenOne
<1> QED
  BY <1>1, <1>2

(* The SARIF report reads as the scan it was written of (writeSARIF).      *)
LEMMA ReadResults ==
  ASSUME NEW cfg, NEW scan, IsScan(cfg, scan)
  PROVE  ReadsAs("sarif", scan, Read("sarif", WriteMasked("sarif", Rules, scan)))
<1> DEFINE r == WriteSARIF(Rules, scan)
           Of(x) == Entry(x.rule, SeverityOf(SarifLevels, x.level), x.at.uri, x.message)
           a == ResultsOf(scan)
           b == QuietResultsOf(scan)
           fine == {i \in DOMAIN r.results : r.results[i].suppressions = << >>}
           marked == {i \in DOMAIN r.results : r.results[i].suppressions # << >>}
<1>1. WriteMasked("sarif", Rules, scan) = r
  BY DEF WriteMasked
<1>2. Read("sarif", r) =
        Reading([i \in DOMAIN Kept(r.results, fine) |-> Of(Kept(r.results, fine)[i])],
                [i \in DOMAIN Kept(r.results, marked) |-> Of(Kept(r.results, marked)[i])],
                FlattenSeq([i \in DOMAIN r.invocations |-> ErrorsIn(r.invocations[i])]))
  <2> HIDE DEF r
  <2> QED
    BY DEF Read, ReadSarif, Entries, Passing, ErrorsIn
<1>3. Kept(r.results, fine) = a /\ Kept(r.results, marked) = b
  <2> HIDE DEF r
  <2>1. r.results = a \o b /\ SarifParted(scan)
    BY SarifParts DEF SarifParted, r
  <2> QED
    BY <2>1 DEF SarifParted
<1>4. ASSUME NEW i \in DOMAIN scan.found
      PROVE  Of(a[i]) = Shows("sarif", scan.found[i])
  <2>1. scan.found[i] \in AFinding /\ a[i] = SarifResultOf(scan.found[i], << >>)
    BY ScanDomains DEF ResultsOf, Told
  <2> QED
    BY <2>1, ResultOfFinding
<1>5. ASSUME NEW i \in DOMAIN scan.suppressed
      PROVE  Of(b[i]) = Shows("sarif", scan.suppressed[i].finding)
  <2> DEFINE mark == <<SarifSuppression(scan.suppressed[i])>>
             f == scan.suppressed[i].finding
  <2>1. f \in AFinding /\ b[i] = SarifResultOf(f, mark)
    BY ScanDomains DEF QuietResultsOf, Marked, Told
  <2> HIDE DEF mark, f, b
  <2>2. Of(b[i]) = Shows("sarif", f)
    BY <2>1, ResultOfFinding
  <2> QED
    BY <2>2 DEF f
<1>6. FlattenSeq([i \in DOMAIN r.invocations |-> ErrorsIn(r.invocations[i])]) = ErrorsOf("sarif", scan)
  <2>1. r.invocations = SarifInvocations(scan.errors)
    BY DEF WriteSARIF
  <2>2. scan.errors \in Seq(AnError)
    BY DEF IsScan
  <2> HIDE DEF r
  <2> QED
    BY <2>1, <2>2, Notified DEF ErrorsOf, People
<1>7. DOMAIN a = DOMAIN scan.found /\ DOMAIN b = DOMAIN scan.suppressed
  BY DEF ResultsOf, QuietResultsOf
<1> HIDE DEF r, a, b, Of, fine, marked
<1>8. [i \in DOMAIN a |-> Of(a[i])] = ShownOf("sarif", scan)
  BY <1>4, <1>7 DEF ShownOf
<1>9. [i \in DOMAIN b |-> Of(b[i])] = MarkedOf("sarif", scan)
  BY <1>5, <1>7 DEF MarkedOf
<1> QED
  BY <1>1, <1>2, <1>3, <1>6, <1>8, <1>9 DEF Reading, ReadsAs

(* Whatever the format (Write in output.go), a reader finds in the report  *)
(* every finding with its rule, severity, path and message in the order of *)
(* the scan; of the suppressed ones all in JSON and SARIF, and none in the *)
(* other six; of the errors none in text and table, and all in the other   *)
(* six; and nothing else.  For every rule set, configuration and scan.     *)
THEOREM ReadBack ==
  ASSUME NEW cfg, NEW scan, IsScan(cfg, scan), NEW format \in Formats
  PROVE  ReadsAs(format, scan, Read(format, WriteMasked(format, Rules, scan)))
<1>1. CASE format \in People
  BY <1>1, ReadForPeople
<1>2. CASE format \notin People
  <2>1. \/ format = "json" \/ format = "sarif" \/ format = "codeclimate" \/ format = "junit"
        \/ format = "gitlab-sast" \/ format = "template"
    BY <1>2 DEF Formats, People
  <2> QED
    BY <2>1, ReadJson, ReadResults, ReadClimate, ReadCases, ReadSecurity, ReadTemplate
<1> QED
  BY <1>1, <1>2

(* Mask shows nothing of the body of a secret: of a value with a short     *)
(* prefix all but the prefix is masked, and all of any other value,        *)
(* whatever its length and its characters; masked once more, it still is   *)
(* such a value.                                                           *)
THEOREM MaskHides ==
  ASSUME NEW secret \in ASecret
  PROVE  Mask(secret) \in ASecret /\ Range(Mask(secret)) \intersect Body = {}
<1> DEFINE I == {i \in 1 .. Len(secret) : secret[i] = "-"}
           dash == SelectInSeq(secret, LAMBDA c : c = "-")
           start == Bytes(SubSeq(secret, 1, dash - 1))
           fits == dash # 0 /\ start < PrefixWithin /\ start + 1 < Bytes(secret) \div 2
           keep == IF fits THEN dash ELSE 0
           masked == [i \in DOMAIN secret |-> IF i <= keep THEN secret[i] ELSE "*"]
<1>1. /\ secret \in Seq(Character)
      /\ \A i \in DOMAIN secret : secret[i] \in Body => ~ \E k \in i .. Len(secret) : EndsPrefix(secret, k)
  BY DEF ASecret
<1>2. Len(secret) \in Nat /\ DOMAIN secret = 1 .. Len(secret) /\ \A i \in DOMAIN secret : secret[i] \in Character
  BY <1>1, ElementOfSeq, LenProperties
<1>3. Mask(secret) = masked
  BY DEF Mask
<1>4. dash = IF I # {} THEN Min(I) ELSE 0
  BY DEF SelectInSeq
<1>5. keep = 0 \/ (keep \in 1 .. Len(secret) /\ EndsPrefix(secret, keep))
  <2>1. keep = 0 \/ (keep = dash /\ fits)
    OBVIOUS
  <2>2. fits => dash # 0 /\ start < 12 /\ start + 1 < Bytes(secret) \div 2
    BY DEF PrefixWithin
  <2>3. dash # 0 => dash = Min(I) /\ I # {}
    BY <1>4
  <2>4. I # {} => Min(I) \in I /\ \A j \in I : Min(I) <= j
    <3>1. I \in SUBSET (1 .. Len(secret))
      OBVIOUS
    <3> HIDE DEF I
    <3> QED
      BY <1>2, <3>1, MinOfSome
  <2>5. start = Bytes(SubSeq(secret, 1, dash - 1))
    OBVIOUS
  <2> HIDE DEF dash, keep, fits, start
  <2>6. ASSUME fits PROVE dash \in 1 .. Len(secret) /\ EndsPrefix(secret, dash)
    <3>1. dash \in I /\ \A j \in I : dash <= j
      BY <2>2, <2>3, <2>4, <2>6
    <3>2. \A j \in 1 .. dash - 1 : secret[j] # "-"
      BY <1>2, <3>1
    <3>3. dash \in 1 .. Len(secret) /\ secret[dash] = "-"
      BY <3>1
    <3> HIDE DEF I
    <3> QED
      BY <2>2, <2>5, <2>6, <3>2, <3>3 DEF EndsPrefix
  <2> HIDE DEF I
  <2> QED
    BY <2>1, <2>6
<1> HIDE DEF dash, start, fits, keep, I
<1>6. ASSUME NEW i \in DOMAIN secret
      PROVE  masked[i] \notin Body /\ masked[i] \in Character
  <2>1. CASE i <= keep
    <3>1. keep \in 1 .. Len(secret) /\ EndsPrefix(secret, keep)
      BY <1>2, <1>5, <2>1
    <3>2. keep \in i .. Len(secret)
      BY <1>2, <2>1, <3>1
    <3>3. secret[i] \notin Body
      BY <1>1, <3>1, <3>2
    <3> QED
      BY <1>2, <2>1, <3>3
  <2>2. CASE ~(i <= keep)
    <3>1. masked[i] = "*"
      BY <2>2
    <3>2. "*" \in Character
      BY DEF Character
    <3>3. "*" # "x" /\ "*" # "w"
      OBVIOUS
    <3> QED
      BY <3>1, <3>2, <3>3 DEF Body
  <2> QED
    BY <2>1, <2>2
<1>7. masked \in Seq(Character) /\ DOMAIN masked = DOMAIN secret
  <2>1. masked \in [1 .. Len(secret) -> Character] /\ DOMAIN masked = DOMAIN secret
    BY <1>2, <1>6
  <2> HIDE DEF masked
  <2> QED
    BY <1>2, <2>1, FunctionAsSeq
<1>8. \A i \in DOMAIN masked : masked[i] \notin Body
  BY <1>6, <1>7
<1> HIDE DEF masked
<1>9. masked \in ASecret
  BY <1>7, <1>8 DEF ASecret
<1> QED
  BY <1>3, <1>8, <1>9 DEF Range

(* What is written of several secrets, one after the other.                *)
Hidden == { s \in Seq(Character) : \A i \in DOMAIN s : s[i] \notin Body }

LEMMA HiddenFlatten ==
  ASSUME NEW len \in Nat, NEW ss \in [1 .. len -> Hidden]
  PROVE  FlattenSeq(ss) \in Hidden
<1>1. << >> \in Hidden
  BY EmptySeq DEF Hidden
<1>2. ASSUME NEW s \in Hidden, NEW t \in Hidden PROVE s \o t \in Hidden
  <2>1. s \in Seq(Character) /\ t \in Seq(Character)
    BY DEF Hidden
  <2>2. Len(s) \in Nat /\ Len(t) \in Nat /\ DOMAIN s = 1 .. Len(s) /\ DOMAIN t = 1 .. Len(t)
    BY <2>1, LenProperties
  <2> DEFINE b == s \o t
  <2>3. /\ b \in Seq(Character) /\ Len(b) = Len(s) + Len(t)
        /\ \A i \in 1 .. Len(s) + Len(t) : b[i] = IF i <= Len(s) THEN s[i] ELSE t[i - Len(s)]
    BY <2>1, ConcatProperties
  <2>4. DOMAIN b = 1 .. Len(s) + Len(t)
    BY <2>3, LenProperties
  <2> HIDE DEF b
  <2>5. ASSUME NEW i \in DOMAIN b PROVE b[i] \notin Body
    <3>1. CASE i <= Len(s)
      BY <2>2, <2>3, <2>4, <3>1 DEF Hidden
    <3>2. CASE ~(i <= Len(s))
      <4>1. i - Len(s) \in DOMAIN t
        BY <2>2, <2>4, <3>2
      <4> QED
        BY <2>3, <2>4, <3>2, <4>1 DEF Hidden
    <3> QED
      BY <3>1, <3>2
  <2>6. b \in Hidden
    BY <2>3, <2>5 DEF Hidden
  <2> QED
    BY <2>6 DEF b
<1> QED
  BY <1>1, <1>2, FlattenInto, FunctionAsSeq

(* Masking a finding, a suppressed one and an error.                       *)
LEMMA MaskedFindingIs ==
  ASSUME NEW cfg, NEW f \in Told(cfg)
  PROVE  /\ MaskedFinding(f) \in Told(cfg)
         /\ MaskedFinding(f).message.secret = Mask(f.message.secret)
         /\ Range(MaskedFinding(f).message.secret) \intersect Body = {}
         /\ MaskedFinding(f).rule = f.rule /\ MaskedFinding(f).severity = f.severity
<1>1. f \in AFinding /\ f.message \in AMessage /\ f.origin = f.message.from /\ RuleEnabled(cfg, f.rule)
  BY DEF Told, AFinding
<1> DEFINE secret == Mask(f.message.secret)
<1>2. f.message.secret \in ASecret
  BY <1>1 DEF AMessage
<1>3. secret \in ASecret /\ Range(secret) \intersect Body = {}
  BY <1>2, MaskHides
<1> HIDE DEF secret
<1> DEFINE message == [f.message EXCEPT !.secret = secret]
<1>4. Redacted(f.message) = message
  BY DEF Redacted, secret
<1>5. message \in AMessage /\ message.secret = secret /\ message.from = f.message.from
  BY <1>1, <1>3 DEF AMessage
<1> HIDE DEF message
<1>6. MaskedFinding(f) = [f EXCEPT !.message = message]
  BY <1>4 DEF MaskedFinding
<1> DEFINE g == [f EXCEPT !.message = message]
<1>7. g \in AFinding /\ g.message = message /\ g.origin = f.origin /\ g.rule = f.rule /\ g.severity = f.severity
  BY <1>1, <1>5 DEF AFinding
<1> HIDE DEF g
<1>8. g \in Told(cfg)
  BY <1>1, <1>5, <1>7 DEF Told
<1> QED
  BY <1>3, <1>5, <1>6, <1>7, <1>8 DEF g, secret

(* Masking what is suppressed masks its finding and its reason.            *)
LEMMA MaskedSuppressedIs ==
  ASSUME NEW cfg, NEW s \in Marked(cfg)
  PROVE  /\ MaskedSuppressed(s) \in Marked(cfg)
         /\ MaskedSuppressed(s).finding = MaskedFinding(s.finding)
         /\ Range(MaskedSuppressed(s).reason) \intersect Body = {}
<1>1. s.finding \in Told(cfg) /\ s.reason \in ASecret /\ s.source \in STRING
  BY DEF Marked
<1> DEFINE f == MaskedFinding(s.finding)
           reason == Mask(s.reason)
<1>2. f \in Told(cfg)
  BY <1>1, MaskedFindingIs
<1>3. reason \in ASecret /\ Range(reason) \intersect Body = {}
  BY <1>1, MaskHides
<1>4. MaskedSuppressed(s) = [[s EXCEPT !.finding = f] EXCEPT !.reason = reason]
  BY DEF MaskedSuppressed
<1> HIDE DEF f, reason
<1> DEFINE p == [s EXCEPT !.finding = f]
           q == [p EXCEPT !.reason = reason]
<1>5. q = [finding |-> f, source |-> s.source, reason |-> reason]
  <2>1. s = [finding |-> s.finding, source |-> s.source, reason |-> s.reason]
    BY DEF Marked
  <2>2. p = [finding |-> f, source |-> s.source, reason |-> s.reason]
    BY <2>1
  <2> HIDE DEF p
  <2> QED
    BY <2>2
<1>6. q \in Marked(cfg)
  BY <1>1, <1>2, <1>3, <1>5 DEF Marked
<1>7. q.finding = f /\ q.reason = reason
  BY <1>5
<1> HIDE DEF q
<1> QED
  BY <1>3, <1>4, <1>6, <1>7 DEF f, q

(* Masking an error leaves nothing of a secret in it.                      *)
LEMMA MaskedErrorIs ==
  ASSUME NEW e \in AnError
  PROVE  MaskedError(e) \in AnError /\ Range(MaskedError(e).secret) \intersect Body = {}
<1>1. e.secret \in ASecret /\ e \in [file : Seq(APath), names : Seq(APath), secret : ASecret] /\ e.names \in {<< >>, e.file}
  BY DEF AnError
<1> DEFINE secret == Mask(e.secret)
<1>2. secret \in ASecret /\ Range(secret) \intersect Body = {}
  BY <1>1, MaskHides
<1>3. MaskedError(e) = [e EXCEPT !.secret = secret]
  BY DEF MaskedError
<1> HIDE DEF secret
<1> DEFINE q == [e EXCEPT !.secret = secret]
<1>4. q = [file |-> e.file, names |-> e.names, secret |-> secret]
  BY <1>1
<1>5. e.file \in Seq(APath) /\ e.names \in Seq(APath)
  BY <1>1
<1>6. q.file = e.file /\ q.names = e.names /\ q.secret = secret
  BY <1>4
<1>7. q \in [file : Seq(APath), names : Seq(APath), secret : ASecret]
  BY <1>2, <1>4, <1>5
<1> HIDE DEF q
<1>8. q \in AnError
  BY <1>1, <1>6, <1>7 DEF AnError
<1> QED
  BY <1>2, <1>3, <1>6, <1>8 DEF q

(* Masked or not, a scan is one, of as many; masked, no secret is left.    *)
Hides(scan) ==
  /\ \A i \in DOMAIN scan.found : Range(scan.found[i].message.secret) \intersect Body = {}
  /\ \A i \in DOMAIN scan.suppressed :
       /\ Range(scan.suppressed[i].finding.message.secret) \intersect Body = {}
       /\ Range(scan.suppressed[i].reason) \intersect Body = {}
  /\ \A i \in DOMAIN scan.errors : Range(scan.errors[i].secret) \intersect Body = {}

(* The masked scan has the findings and errors of the scan at their        *)
(* places, and with redaction on no secret is left in it (writeOutput in   *)
(* main.go).                                                               *)
LEMMA MaskedScanIs ==
  ASSUME NEW cfg, NEW scan, IsScan(cfg, scan), scan = [scan EXCEPT !.found = scan.found],
         {"found", "suppressed", "errors", "mask", "source", "lines"} \subseteq DOMAIN scan
  PROVE  LET m == MaskedScan(scan)
         IN  /\ IsScan(cfg, m) /\ (scan.mask => Hides(m))
             /\ Len(m.found) = Len(scan.found) /\ Len(m.errors) = Len(scan.errors)
             /\ DOMAIN m.found = DOMAIN scan.found
             /\ \A i \in DOMAIN m.found : m.found[i].rule = scan.found[i].rule /\ m.found[i].severity = scan.found[i].severity
             /\ m.mask = scan.mask /\ m.source = scan.source /\ m.lines = scan.lines
<1> DEFINE m == MaskedScan(scan)
<1>1. CASE ~scan.mask
  BY <1>1 DEF MaskedScan
<1>2. CASE scan.mask
  <2> DEFINE fs == [i \in DOMAIN scan.found |-> MaskedFinding(scan.found[i])]
             ss == [i \in DOMAIN scan.suppressed |-> MaskedSuppressed(scan.suppressed[i])]
             es == [i \in DOMAIN scan.errors |-> MaskedError(scan.errors[i])]
  <2>1. m = [scan EXCEPT !.found = fs, !.suppressed = ss, !.errors = es]
    BY <1>2 DEF MaskedScan
  <2>2. fs \in Seq(Told(cfg)) /\ Len(fs) = Len(scan.found)
    <3>1. fs \in [1 .. Len(scan.found) -> Told(cfg)]
      BY ScanDomains, MaskedFindingIs
    <3> HIDE DEF fs
    <3> QED
      BY <3>1, ScanDomains, FunctionAsSeq
  <2>3. ss \in Seq(Marked(cfg)) /\ Len(ss) = Len(scan.suppressed)
    <3>1. ss \in [1 .. Len(scan.suppressed) -> Marked(cfg)]
      BY ScanDomains, MaskedSuppressedIs
    <3> HIDE DEF ss
    <3> QED
      BY <3>1, ScanDomains, FunctionAsSeq
  <2>4. es \in Seq(AnError) /\ Len(es) = Len(scan.errors)
    <3>1. es \in [1 .. Len(scan.errors) -> AnError]
      BY ScanDomains, MaskedErrorIs
    <3> HIDE DEF es
    <3> QED
      BY <3>1, ScanDomains, FunctionAsSeq
  <2>5. \A i \in DOMAIN fs : /\ Range(fs[i].message.secret) \intersect Body = {}
                             /\ fs[i].rule = scan.found[i].rule /\ fs[i].severity = scan.found[i].severity
    BY ScanDomains, MaskedFindingIs
  <2>6. \A i \in DOMAIN ss : /\ Range(ss[i].finding.message.secret) \intersect Body = {}
                             /\ Range(ss[i].reason) \intersect Body = {}
    <3> SUFFICES ASSUME NEW i \in DOMAIN ss
                 PROVE  /\ Range(ss[i].finding.message.secret) \intersect Body = {}
                        /\ Range(ss[i].reason) \intersect Body = {}
      OBVIOUS
    <3> DEFINE s == scan.suppressed[i]
    <3>1. s \in Marked(cfg) /\ ss[i] = MaskedSuppressed(s)
      BY ScanDomains
    <3> HIDE DEF s, ss
    <3>2. s.finding \in Told(cfg)
      BY <3>1 DEF Marked
    <3>3. ss[i].finding = MaskedFinding(s.finding) /\ Range(ss[i].reason) \intersect Body = {}
      BY <3>1, MaskedSuppressedIs
    <3> QED
      BY <3>2, <3>3, MaskedFindingIs
  <2>7. \A i \in DOMAIN es : Range(es[i].secret) \intersect Body = {}
    BY ScanDomains, MaskedErrorIs
  <2>8. DOMAIN fs = DOMAIN scan.found
    OBVIOUS
  <2> HIDE DEF fs, ss, es
  <2>9. /\ m.found = fs /\ m.suppressed = ss /\ m.errors = es
        /\ m.mask = scan.mask /\ m.source = scan.source /\ m.lines = scan.lines
    BY <2>1
  <2> HIDE DEF m
  <2> QED
    BY <2>2, <2>3, <2>4, <2>5, <2>6, <2>7, <2>8, <2>9 DEF IsScan, Hides, m
<1> QED
  BY <1>1, <1>2

(* Described names each rule of the results, and each once.                *)
LEMMA DescribedOnce ==
  ASSUME NEW S, NEW results \in Seq(S)
  PROVE  LET ids == Described(results)
         IN  /\ ids \in Seq({x.rule : x \in S})
             /\ Range(ids) = {x.rule : x \in Range(results)}
             /\ \A i, j \in DOMAIN ids : i # j => ids[i] # ids[j]
<1> DEFINE len == Len(results)
           U == {x.rule : x \in S}
           Once(s) == \A i, j \in DOMAIN s : i # j => s[i] # s[j]
           So(k) == {results[m].rule : m \in 1 .. k}
<1>1. len \in Nat /\ DOMAIN results = 1 .. len /\ \A k \in 1 .. len : results[k] \in S
  BY ElementOfSeq, LenProperties
<1>2. PICK g \in [0 .. len -> Seq(U)] : Describes(results, g)
  BY DescribedSteps
<1> DEFINE T == {k \in 0 .. len : Range(g[k]) = So(k) /\ Once(g[k])}
<1>3. 0 \in T
  <2>1. g[0] = << >> /\ 0 \in 0 .. len
    BY <1>1, <1>2 DEF Describes
  <2>2. Range(<< >>) = {} /\ Once(<< >>)
    BY DEF Range
  <2>3. So(0) = {}
    OBVIOUS
  <2> HIDE DEF So, Once
  <2> QED
    BY <2>1, <2>2, <2>3
<1>4. ASSUME NEW k \in 1 .. len, k - 1 \in T
      PROVE  k \in T
  <2> DEFINE s == g[k - 1]
             rule == results[k].rule
  <2>1. s \in Seq(U) /\ rule \in U /\ Range(s) = So(k - 1) /\ Once(s) /\ k \in 0 .. len
    <3>1. k - 1 \in 0 .. len /\ k \in 0 .. len
      BY <1>1
    <3> HIDE DEF So, Once
    <3> QED
      BY <1>1, <1>2, <1>4, <3>1
  <2>2. g[k] = IF rule \in Range(s) THEN s ELSE Append(s, rule)
    BY <1>2 DEF Describes, WithRule
  <2>3. So(k) = So(k - 1) \union {rule}
    <3>1. 1 .. k = (1 .. k - 1) \union {k}
      BY <1>1
    <3> QED
      BY <3>1
  <2>4. CASE rule \in Range(s)
    <3> HIDE DEF So, Once, s, rule
    <3>1. So(k) = So(k - 1)
      BY <2>1, <2>3, <2>4
    <3> QED
      BY <2>1, <2>2, <2>4, <3>1
  <2>5. CASE rule \notin Range(s)
    <3> DEFINE t == Append(s, rule)
    <3>1. /\ Len(s) \in Nat /\ DOMAIN s = 1 .. Len(s) /\ DOMAIN t = 1 .. Len(s) + 1
          /\ \A i \in 1 .. Len(s) : t[i] = s[i]
          /\ t[Len(s) + 1] = rule
      <4> HIDE DEF s, rule
      <4>1. t \in Seq(U) /\ Len(t) = Len(s) + 1
        BY <2>1, AppendProperties
      <4> QED
        BY <2>1, <4>1, AppendProperties, LenProperties
    <3> HIDE DEF t
    <3>2. Range(t) = Range(s) \union {rule}
      <4>1. 1 .. Len(s) + 1 = (1 .. Len(s)) \union {Len(s) + 1}
        BY <3>1
      <4> HIDE DEF s, rule
      <4> QED
        BY <3>1, <4>1 DEF Range
    <3>3. Once(t)
      <4> SUFFICES ASSUME NEW i \in DOMAIN t, NEW j \in DOMAIN t, i # j PROVE t[i] # t[j]
        OBVIOUS
      <4>1. \A m \in 1 .. Len(s) : s[m] # rule
        BY <2>5, <3>1 DEF Range
      <4> HIDE DEF s, rule
      <4>2. (i \in 1 .. Len(s) \/ i = Len(s) + 1) /\ (j \in 1 .. Len(s) \/ j = Len(s) + 1)
        BY <3>1
      <4> QED
        BY <2>1, <3>1, <4>1, <4>2 DEF s
    <3> HIDE DEF So, Once, s, rule
    <3>4. g[k] = t
      BY <2>2, <2>5 DEF t
    <3> QED
      BY <2>1, <2>3, <3>2, <3>3, <3>4
  <2> QED
    BY <2>4, <2>5
<1>5. \A k \in 0 .. len : k \in T
  <2> HIDE DEF T
  <2> QED
    BY <1>1, <1>3, <1>4, SetInduction
<1>6. len \in 0 .. len /\ g[len] = Described(results)
  BY <1>1, <1>2 DEF Describes
<1>7. So(len) = {x.rule : x \in Range(results)}
  BY <1>1 DEF Range
<1> HIDE DEF So, U, len
<1>8. len \in T /\ g[len] \in Seq(U)
  BY <1>2, <1>5, <1>6
<1> QED
  BY <1>6, <1>7, <1>8 DEF U

(* There are as many numbers from 1 as the last one says.                  *)
LEMMA NumbersUpTo ==
  ASSUME NEW m \in Nat
  PROVE  IsFiniteSet(1 .. m) /\ Cardinality(1 .. m) = m
<1>1. 1 \in Int /\ m \in Int
  OBVIOUS
<1>2. IsFiniteSet(1 .. m) /\ Cardinality(1 .. m) = IF 1 > m THEN 0 ELSE m - 1 + 1
  BY <1>1, FS_Interval
<1>3. (IF 1 > m THEN 0 ELSE m - 1 + 1) = m
  OBVIOUS
<1> QED
  BY <1>2, <1>3

(* A sequence without repetition has as many members as places.            *)
LEMMA CountOnce ==
  ASSUME NEW S, NEW s \in Seq(S), \A i, j \in DOMAIN s : i # j => s[i] # s[j]
  PROVE  Cardinality(Range(s)) = Len(s)
<1>1. Len(s) \in Nat /\ DOMAIN s = 1 .. Len(s) /\ IsFiniteSet(1 .. Len(s)) /\ Cardinality(1 .. Len(s)) = Len(s)
  <2>1. Len(s) \in Nat /\ DOMAIN s = 1 .. Len(s)
    BY LenProperties
  <2>2. IsFiniteSet(1 .. Len(s)) /\ Cardinality(1 .. Len(s)) = Len(s)
    BY <2>1, NumbersUpTo
  <2> QED
    BY <2>1, <2>2
<1>2. s \in Bijection(1 .. Len(s), Range(s))
  <2>1. s \in [1 .. Len(s) -> Range(s)]
    BY <1>1 DEF Range
  <2> QED
    BY <1>1, <2>1 DEF Bijection, Injection, Surjection, IsInjective, Range
<1>3. ExistsBijection(1 .. Len(s), Range(s))
  BY <1>2 DEF ExistsBijection
<1> QED
  BY <1>1, <1>3, FS_Bijection

(* A SARIF report refers to rules it describes, by the place they have,    *)
(* and is successful only without errors.                                  *)
LEMMA SarifIsClosed ==
  ASSUME NEW cfg, NEW scan, IsScan(cfg, scan)
  PROVE  SarifCloses(WriteSARIF(Rules, scan))
<1> DEFINE r == WriteSARIF(Rules, scan)
           results == ResultsOf(scan) \o QuietResultsOf(scan)
           ids == Described(results)
<1>1. /\ r.results = results
      /\ r.rules = [i \in DOMAIN ids |-> SarifRule(Rules, ids[i])]
      /\ r.taxonomies = [CWE |-> UNION {Meta(Rules, id).cwe : id \in Range(ids)},
                         OWASP |-> UNION {Meta(Rules, id).owasp : id \in Range(ids)},
                         ASVS |-> UNION {Meta(Rules, id).asvs : id \in Range(ids)}]
  BY DEF WriteSARIF, ResultsOf, QuietResultsOf
<1>2. PICK S : results \in Seq(S)
  <2>1. SarifParted(scan)
    BY SarifParts
  <2> QED
    BY <2>1 DEF SarifParted, AreParts
<1> DEFINE U == {x.rule : x \in S}
<1> HIDE DEF r, results
<1>3. /\ ids \in Seq(U)
      /\ Range(ids) = {x.rule : x \in Range(results)}
      /\ \A i, j \in DOMAIN ids : i # j => ids[i] # ids[j]
  BY <1>2, DescribedOnce
<1> HIDE DEF ids, U
<1>4. \A i \in DOMAIN ids : SarifRule(Rules, ids[i]).id = ids[i]
  BY DEF SarifRule
<1>5. {d.id : d \in Range(r.rules)} = Range(ids)
  BY <1>1, <1>4 DEF Range
<1>6. Len(r.rules) = Len(ids)
  <2>1. Len(ids) \in Nat /\ DOMAIN ids = 1 .. Len(ids)
    BY <1>3, LenProperties
  <2>2. r.rules \in [1 .. Len(ids) -> Range(r.rules)]
    BY <1>1, <2>1 DEF Range
  <2> QED
    BY <2>1, <2>2, FunctionAsSeq
<1>7. Cardinality(Range(ids)) = Len(ids)
  BY <1>3, CountOnce
<1>8. ASSUME NEW d \in Range(r.rules), NEW k \in DOMAIN d.relationships
      PROVE  d.relationships[k] \subseteq r.taxonomies[k]
  <2>1. PICK i \in DOMAIN ids : d = SarifRule(Rules, ids[i])
    BY <1>1 DEF Range
  <2> DEFINE id == ids[i]
             meta == Meta(Rules, id)
  <2>2. id \in Range(ids)
    BY DEF Range
  <2> HIDE DEF id
  <2>3. d.relationships = [CWE |-> meta.cwe, OWASP |-> meta.owasp, ASVS |-> meta.asvs]
    BY <2>1 DEF SarifRule, id
  <2>4. k = "CWE" \/ k = "OWASP" \/ k = "ASVS"
    BY <2>3
  <2>5. /\ meta.cwe \subseteq UNION {Meta(Rules, x).cwe : x \in Range(ids)}
        /\ meta.owasp \subseteq UNION {Meta(Rules, x).owasp : x \in Range(ids)}
        /\ meta.asvs \subseteq UNION {Meta(Rules, x).asvs : x \in Range(ids)}
    BY <2>2
  <2> HIDE DEF meta
  <2> DEFINE cwe == UNION {Meta(Rules, x).cwe : x \in Range(ids)}
             owasp == UNION {Meta(Rules, x).owasp : x \in Range(ids)}
             asvs == UNION {Meta(Rules, x).asvs : x \in Range(ids)}
  <2>6. r.taxonomies = [CWE |-> cwe, OWASP |-> owasp, ASVS |-> asvs]
    BY <1>1
  <2>7. meta.cwe \subseteq cwe /\ meta.owasp \subseteq owasp /\ meta.asvs \subseteq asvs
    BY <2>5
  <2> HIDE DEF cwe, owasp, asvs
  <2> QED
    BY <2>3, <2>4, <2>6, <2>7
<1>9. SarifCloses(r)
  BY <1>1, <1>3, <1>5, <1>6, <1>7, <1>8 DEF SarifCloses
<1> QED
  BY <1>9 DEF r

(* The totals of a JUnit report are those of its cases.                    *)
LEMMA JUnitIsClosed ==
  ASSUME NEW cfg, NEW scan, IsScan(cfg, scan)
  PROVE  JUnitCounts(WriteJUnit(scan))
<1> DEFINE r == WriteJUnit(scan)
           a == CasesOf(scan)
           b == ErrorCasesOf(scan)
           la == Len(scan.found)
           lb == Len(scan.errors)
<1>1. la \in Nat /\ lb \in Nat
  BY ScanDomains
<1>2. /\ Kept(r.cases, Failed(r.cases)) = a /\ Kept(r.cases, Broken(r.cases)) = b
      /\ Len(r.cases) = IF la + lb = 0 THEN 1 ELSE la + lb
      /\ a \o b = << >> <=> la + lb = 0
  BY JUnitParts
<1>3. DOMAIN ReportErrors(scan.errors) = DOMAIN scan.errors /\ Len(ReportErrors(scan.errors)) = lb
  <2>1. DOMAIN ReportErrors(scan.errors) = 1 .. lb
    BY ScanDomains DEF ReportErrors
  <2>2. ReportErrors(scan.errors) \in [1 .. lb -> Range(ReportErrors(scan.errors))]
    BY <2>1 DEF ReportErrors, Range
  <2> QED
    BY <1>1, <2>1, <2>2, ScanDomains, FunctionAsSeq
<1>4. /\ r.tests = IF a \o b = << >> THEN 1 ELSE la + lb
      /\ r.failures = la /\ r.errors = lb
  BY <1>3 DEF WriteJUnit, CasesOf, ErrorCasesOf
<1>5. Len(a) = la /\ Len(b) = lb
  <2>1. a \in [1 .. la -> Range(a)]
    BY ScanDomains DEF CasesOf, Range
  <2>2. b \in [1 .. lb -> Range(b)]
    BY ScanDomains DEF ErrorCasesOf, Range
  <2> HIDE DEF a, b, la, lb
  <2> QED
    BY <1>1, <2>1, <2>2, FunctionAsSeq
<1>6. /\ CountIn(r.cases, LAMBDA c : c.failure # << >>) = la
      /\ CountIn(r.cases, LAMBDA c : c.error # << >>) = lb
  <2> HIDE DEF r, a, b, la, lb
  <2> QED
    BY <1>2, <1>5 DEF CountIn, Passing, Failed, Broken
<1> HIDE DEF r, a, b, la, lb
<1>7. JUnitCounts(r)
  BY <1>1, <1>2, <1>4, <1>6 DEF JUnitCounts
<1> QED
  BY <1>7 DEF r

(* What a run has collected, as it is written.                             *)
Typed == found \in Seq(Told(Cfg)) /\ quiet \in Seq(Marked(Cfg)) /\ errors \in Seq(AnError)
Masked == MaskedScan(Scan)

(* What a run hands to writeOutput is a scan of what it collected.         *)
LEMMA ScanIs ==
  ASSUME Typed
  PROVE  /\ IsScan(Cfg, Masked) /\ (~Flags.noRedact => Hides(Masked))
         /\ Len(Masked.found) = Len(found) /\ Len(Masked.errors) = Len(errors)
         /\ DOMAIN Masked.found = DOMAIN found
         /\ \A i \in DOMAIN found : Masked.found[i].rule = found[i].rule /\ Masked.found[i].severity = found[i].severity
         /\ Masked.mask = ~Flags.noRedact /\ Masked.source = Run.source
<1> DEFINE scan == Scan
           files == Cardinality(FilesScanned)
<1>1. scan = [found |-> found, suppressed |-> quiet, errors |-> errors, files |-> files,
              source |-> Run.source, lines |-> Run.lines, mask |-> ~Flags.noRedact, tty |-> Run.tty]
  BY DEF Scan
<1> HIDE DEF scan, files
<1>2. scan.found = found /\ scan.suppressed = quiet /\ scan.errors = errors /\ scan.mask = ~Flags.noRedact
      /\ scan.source = Run.source
  BY <1>1
<1>3. scan = [scan EXCEPT !.found = scan.found]
      /\ {"found", "suppressed", "errors", "mask", "source", "lines"} \subseteq DOMAIN scan
  BY <1>1
<1>4. IsScan(Cfg, scan)
  BY <1>2 DEF IsScan, Typed
<1>5. LET m == MaskedScan(scan)
      IN  /\ IsScan(Cfg, m) /\ (scan.mask => Hides(m))
          /\ Len(m.found) = Len(scan.found) /\ Len(m.errors) = Len(scan.errors)
          /\ DOMAIN m.found = DOMAIN scan.found
          /\ \A i \in DOMAIN m.found : m.found[i].rule = scan.found[i].rule /\ m.found[i].severity = scan.found[i].severity
          /\ m.mask = scan.mask /\ m.source = scan.source /\ m.lines = scan.lines
  BY <1>3, <1>4, MaskedScanIs
<1>6. Masked = MaskedScan(scan)
  BY DEF Masked, scan
<1> HIDE DEF Masked
<1> QED
  BY <1>2, <1>5, <1>6

(* What is written is written of the masked scan, and reads as it.         *)
IsWritten == report = <<WriteMasked(Flags.format, Rules, Masked)>> /\ Flags.format \in Formats

(* What a run has written reads as its masked scan.                        *)
LEMMA WrittenReads ==
  ASSUME Typed, IsWritten
  PROVE  ReadsAs(Flags.format, Masked, Shown)
<1>1. IsScan(Cfg, Masked)
  BY ScanIs
<1>2. report[1] = WriteMasked(Flags.format, Rules, Masked)
  BY DEF IsWritten
<1>3. Flags.format \in Formats
  BY DEF IsWritten
<1> QED
  BY <1>1, <1>2, <1>3, ReadBack DEF Shown

(* The length of what is read.                                             *)
LEMMA ReadLengths ==
  ASSUME NEW cfg, NEW scan, IsScan(cfg, scan), NEW format, NEW seen, ReadsAs(format, scan, seen)
  PROVE  /\ DOMAIN seen.shown = DOMAIN scan.found
         /\ \A i \in DOMAIN scan.found : seen.shown[i] = Shows(format, scan.found[i])
         /\ format \notin People => seen.errors = ReportErrors(scan.errors) /\ Len(seen.errors) = Len(scan.errors)
         /\ format \in People => seen.errors = << >>
<1>1. DOMAIN seen.shown = DOMAIN scan.found /\ \A i \in DOMAIN scan.found : seen.shown[i] = Shows(format, scan.found[i])
  BY DEF ReadsAs, ShownOf
<1>2. Len(ReportErrors(scan.errors)) = Len(scan.errors)
  <2> DEFINE lb == Len(scan.errors)
  <2>1. lb \in Nat /\ DOMAIN ReportErrors(scan.errors) = 1 .. lb
    BY ScanDomains DEF ReportErrors
  <2>2. ReportErrors(scan.errors) \in [1 .. lb -> Range(ReportErrors(scan.errors))]
    BY <2>1 DEF ReportErrors, Range
  <2> QED
    BY <2>1, <2>2, FunctionAsSeq
<1> QED
  BY <1>1, <1>2 DEF ReadsAs, ErrorsOf

(* The exit code is what a reader of the report would expect (exitCode in  *)
(* main.go).                                                               *)
LEMMA ExitFits ==
  ASSUME Typed, IsWritten, exit = ExitCode(Cfg, found, errors)
  PROVE  ExitAsShown
<1>1. ReadsAs(Flags.format, Masked, Shown) /\ IsScan(Cfg, Masked)
  BY WrittenReads, ScanIs
<1>2. ~ForPeople => Len(Shown.errors) = Len(errors)
  BY <1>1, ReadLengths, ScanIs DEF ForPeople, People
<1>3. exit = 2 <=> errors # << >>
  BY DEF ExitCode
<1>4. \A f : (\E i \in DOMAIN Shown.shown : Serious(Shown.shown[i]))
             <=> \E g \in Range(found) : g.severity = "error" \/ (Cfg.strict /\ g.severity = "warn")
  <2>1. DOMAIN Shown.shown = DOMAIN found
        /\ \A i \in DOMAIN found : Shown.shown[i] = Shows(Flags.format, Masked.found[i])
    BY <1>1, ReadLengths, ScanIs
  <2>2. \A i \in DOMAIN found : Shown.shown[i].severity = found[i].severity
    <3> SUFFICES ASSUME NEW i \in DOMAIN found PROVE Shown.shown[i].severity = found[i].severity
      OBVIOUS
    <3>1. Shown.shown[i] = Shows(Flags.format, Masked.found[i]) /\ Masked.found[i].severity = found[i].severity
      BY <2>1, ScanIs
    <3>2. Shows(Flags.format, Masked.found[i]).severity = Masked.found[i].severity
      BY DEF Shows, Entry
    <3> QED
      BY <3>1, <3>2
  <2> QED
    BY <2>1, <2>2 DEF Serious, Range
<1>5. exit = 1 <=> errors = << >> /\ ~Cfg.noExit /\ \E i \in DOMAIN Shown.shown : Serious(Shown.shown[i])
  BY <1>4 DEF ExitCode
<1> QED
  BY <1>2, <1>3, <1>5 DEF ExitAsShown

(* Two findings of one rule that say the same of one job at one line are   *)
(* the same to a reader.                                                   *)
LEMMA SameTold ==
  ASSUME NEW cfg, NEW f \in Told(cfg), NEW g \in Told(cfg),
         LET p == Reported(f) q == Reported(g)
         IN  p.rule = q.rule /\ p.file = q.file /\ p.line = q.line /\ p.job = q.job /\ p.message = q.message
  PROVE  ~Apart(Reported(f), Reported(g))
<1>1. ASSUME NEW h \in Told(cfg)
      PROVE  LET p == Reported(h)
             IN  /\ p.origin = p.message.from
                 /\ [p EXCEPT !.col = 0, !.severity = ""]
                      = [rule |-> p.rule, severity |-> "", file |-> p.file, line |-> p.line, col |-> 0, job |-> p.job,
                         origin |-> p.origin, message |-> p.message]
  <2> DEFINE path == ReportPath(h.file)
             p == Reported(h)
  <2>1. h = [rule |-> h.rule, severity |-> h.severity, file |-> h.file, line |-> h.line, col |-> h.col, job |-> h.job,
             origin |-> h.origin, message |-> h.message]
        /\ h.origin = h.message.from
    BY DEF Told, AFinding
  <2>2. p = [h EXCEPT !.file = path]
    BY DEF Reported
  <2> HIDE DEF path, p
  <2>3. p = [rule |-> h.rule, severity |-> h.severity, file |-> path, line |-> h.line, col |-> h.col, job |-> h.job,
             origin |-> h.origin, message |-> h.message]
    BY <2>1, <2>2
  <2>4. /\ p.rule = h.rule /\ p.file = path /\ p.line = h.line /\ p.job = h.job /\ p.origin = h.origin
        /\ p.message = h.message
    BY <2>3
  <2> DEFINE q == [p EXCEPT !.col = 0]
  <2>5. q = [rule |-> h.rule, severity |-> h.severity, file |-> path, line |-> h.line, col |-> 0, job |-> h.job,
             origin |-> h.origin, message |-> h.message]
    BY <2>3
  <2>6. [p EXCEPT !.col = 0, !.severity = ""] = [q EXCEPT !.severity = ""]
    OBVIOUS
  <2> HIDE DEF q
  <2>7. [q EXCEPT !.severity = ""] = [rule |-> h.rule, severity |-> "", file |-> path, line |-> h.line, col |-> 0,
                                      job |-> h.job, origin |-> h.origin, message |-> h.message]
    <3> DEFINE none == ""
    <3> HIDE DEF none
    <3>1. [q EXCEPT !.severity = none] = [rule |-> h.rule, severity |-> none, file |-> path, line |-> h.line, col |-> 0,
                                          job |-> h.job, origin |-> h.origin, message |-> h.message]
      BY <2>5
    <3> QED
      BY <3>1 DEF none
  <2>8. [p EXCEPT !.col = 0, !.severity = ""]
          = [rule |-> p.rule, severity |-> "", file |-> p.file, line |-> p.line, col |-> 0, job |-> p.job,
             origin |-> p.origin, message |-> p.message]
    BY <2>4, <2>6, <2>7
  <2>9. p.origin = p.message.from
    BY <2>1, <2>4
  <2> QED
    BY <2>8, <2>9 DEF p
<1> DEFINE p == Reported(f)
           q == Reported(g)
<1>2. /\ p.origin = p.message.from /\ q.origin = q.message.from
      /\ [p EXCEPT !.col = 0, !.severity = ""]
           = [rule |-> p.rule, severity |-> "", file |-> p.file, line |-> p.line, col |-> 0, job |-> p.job,
              origin |-> p.origin, message |-> p.message]
      /\ [q EXCEPT !.col = 0, !.severity = ""]
           = [rule |-> q.rule, severity |-> "", file |-> q.file, line |-> q.line, col |-> 0, job |-> q.job,
              origin |-> q.origin, message |-> q.message]
  BY <1>1
<1>3. p.rule = q.rule /\ p.file = q.file /\ p.line = q.line /\ p.job = q.job /\ p.message = q.message
  OBVIOUS
<1> HIDE DEF p, q
<1>4. ~Apart(p, q)
  BY <1>2, <1>3 DEF Apart
<1> QED
  BY <1>4 DEF p, q

(* Two issues of a Code Climate report have the same fingerprint only if   *)
(* they say the same (fingerprints).                                       *)
LEMMA FingerprintsDiffer ==
  ASSUME Typed
  PROVE  LET r == WriteCodeClimate(Masked) IN IdsDiffer([i \in DOMAIN r |-> r[i].fingerprint])
<1> DEFINE told == Masked.found
           r == WriteCodeClimate(Masked)
           a == IssuesOf(Masked)
           b == ErrorIssuesOf(Masked)
           la == Len(Masked.found)
           lb == Len(Masked.errors)
           ids == [i \in DOMAIN r |-> r[i].fingerprint]
<1>1. IsScan(Cfg, Masked)
  BY ScanIs
<1>2. la \in Nat /\ lb \in Nat /\ DOMAIN told = 1 .. la /\ DOMAIN Masked.errors = 1 .. lb
  BY <1>1, ScanDomains
<1>3. \A i \in DOMAIN told : told[i] \in Told(Cfg)
  BY <1>1, ScanDomains
<1>4. r = a \o b
  <2>1. DOMAIN ReportErrors(Masked.errors) = DOMAIN Masked.errors
    BY DEF ReportErrors
  <2> QED
    BY <2>1 DEF WriteCodeClimate, IssuesOf, ErrorIssuesOf
<1>5. a = [i \in 1 .. la |-> a[i]] /\ b = [i \in 1 .. lb |-> b[i]]
  BY <1>2 DEF IssuesOf, ErrorIssuesOf
<1>6. AreParts(a, b, la, lb)
  <2> HIDE DEF a, b, la, lb
  <2> QED
    BY <1>2, <1>5, PartsOf
<1>7. \A i \in DOMAIN told : a[i] = CodeClimateIssue(Reported(told[i]))
  BY DEF IssuesOf
<1> HIDE DEF r, a, b, la, lb, told
<1>8. ASSUME NEW i \in DOMAIN told
      PROVE  ids[i] = CodeClimateFingerprint(Reported(told[i]))
  <2>1. i \in DOMAIN r /\ r[i] = a[i]
    BY <1>2, <1>4, <1>6 DEF AreParts
  <2>2. a[i].fingerprint = CodeClimateFingerprint(Reported(told[i]))
    <3> DEFINE g == Reported(told[i])
    <3>1. a[i] = CodeClimateIssue(g)
      BY <1>7
    <3> HIDE DEF g
    <3>2. CodeClimateIssue(g).fingerprint = CodeClimateFingerprint(g)
      BY DEF CodeClimateIssue
    <3> QED
      BY <3>1, <3>2 DEF g
  <2> QED
    BY <2>1, <2>2
<1> HIDE DEF ids
<1>9. ASSUME NEW i \in DOMAIN told, NEW j \in DOMAIN told, ids[i] = ids[j]
      PROVE  ~Apart(Reported(told[i]), Reported(told[j]))
  <2> DEFINE p == Reported(told[i])
             q == Reported(told[j])
  <2>1. CodeClimateFingerprint(p) = CodeClimateFingerprint(q)
    BY <1>8, <1>9
  <2> HIDE DEF p, q
  <2>2. p.rule = q.rule /\ p.file = q.file /\ p.line = q.line /\ p.job = q.job /\ p.message = q.message
    BY <2>1 DEF CodeClimateFingerprint
  <2> QED
    BY <1>3, <2>2, SameTold DEF p, q
<1>10. IdsDiffer(ids)
  BY <1>9 DEF IdsDiffer, told, Masked
<1> QED
  BY <1>10 DEF ids, r

(* A GitLab SAST report has identifiers that differ, a status that fits    *)
(* the errors and lines that count from 1.                                 *)
LEMMA SecurityIsClosed ==
  ASSUME Typed
  PROVE  LET r == WriteGitLabSAST(Rules, Masked)
         IN  /\ IdsDiffer([i \in DOMAIN r.vulnerabilities |-> r.vulnerabilities[i].id])
             /\ r.status = "failure" <=> errors # << >>
             /\ \A i \in DOMAIN r.vulnerabilities : r.vulnerabilities[i].line >= 1
<1> DEFINE told == Masked.found
           r == WriteGitLabSAST(Rules, Masked)
           vs == [i \in DOMAIN told |-> SASTVuln(Rules, Reported(told[i]))]
           ids == [i \in DOMAIN r.vulnerabilities |-> r.vulnerabilities[i].id]
<1>1. IsScan(Cfg, Masked) /\ Len(Masked.errors) = Len(errors)
  BY ScanIs
<1>2. \A i \in DOMAIN told : told[i] \in Told(Cfg)
  BY <1>1, ScanDomains
<1>3. r.vulnerabilities = vs /\ r.status = IF Masked.errors = << >> THEN "success" ELSE "failure"
  BY DEF WriteGitLabSAST
<1> HIDE DEF r, told
<1>4. ASSUME NEW i \in DOMAIN told
      PROVE  ids[i] = SASTID(Reported(told[i])) /\ vs[i].line >= 1
  <2> DEFINE p == Reported(told[i])
  <2>1. p.line \in Nat
    <3> DEFINE f == told[i]
    <3>1. f \in AFinding
      BY <1>2 DEF Told
    <3> HIDE DEF f
    <3>2. Reported(f).line = f.line /\ f.line \in Nat
      BY <3>1 DEF Reported, AFinding
    <3> QED
      BY <3>2 DEF f
  <2>2. vs[i] = SASTVuln(Rules, p)
    OBVIOUS
  <2>3. ids[i] = vs[i].id
    BY <1>3
  <2> HIDE DEF p, vs, ids
  <2>4. SASTVuln(Rules, p).id = SASTID(p) /\ SASTVuln(Rules, p).line = IF p.line < 1 THEN 1 ELSE p.line
    BY DEF SASTVuln
  <2> QED
    BY <2>1, <2>2, <2>3, <2>4 DEF p
<1>5. \A i \in DOMAIN r.vulnerabilities : r.vulnerabilities[i].line >= 1
  BY <1>3, <1>4
<1> HIDE DEF ids, vs
<1>6. ASSUME NEW i \in DOMAIN told, NEW j \in DOMAIN told, ids[i] = ids[j]
      PROVE  ~Apart(Reported(told[i]), Reported(told[j]))
  <2> DEFINE p == Reported(told[i])
             q == Reported(told[j])
  <2>1. SASTID(p) = SASTID(q)
    BY <1>4, <1>6
  <2> HIDE DEF p, q
  <2>2. p.rule = q.rule /\ p.file = q.file /\ p.line = q.line /\ p.job = q.job /\ p.message = q.message
    BY <2>1 DEF SASTID
  <2> QED
    BY <1>2, <2>2, SameTold DEF p, q
<1>7. IdsDiffer(ids)
  BY <1>6 DEF IdsDiffer, told, Masked
<1>8. r.status = "failure" <=> errors # << >>
  <2>1. Masked.errors = << >> <=> errors = << >>
    <3>1. Masked.errors \in Seq(AnError) /\ errors \in Seq(AnError)
      BY <1>1 DEF IsScan, Typed
    <3> QED
      BY <1>1, <3>1, EmptySeq
  <2> QED
    BY <1>3, <2>1
<1> QED
  BY <1>5, <1>7, <1>8 DEF ids, r

(* What a report refers to is in it, in every format.                      *)
LEMMA ClosedAsWritten ==
  ASSUME Typed, IsWritten
  PROVE  Closed(Flags.format, report[1])
<1> DEFINE format == Flags.format
           r == report[1]
<1>1. IsScan(Cfg, Masked) /\ r = WriteMasked(format, Rules, Masked) /\ format \in Formats
  BY ScanIs DEF IsWritten
<1> HIDE DEF r, format
<1>2. CASE format = "sarif"
  <2>1. r = WriteSARIF(Rules, Masked)
    BY <1>1, <1>2 DEF WriteMasked
  <2>2. SarifCloses(r)
    BY <1>1, <2>1, SarifIsClosed
  <2> QED
    BY <1>2, <2>2 DEF Closed, format, r
<1>3. CASE format = "junit"
  <2>1. r = WriteJUnit(Masked)
    BY <1>1, <1>3 DEF WriteMasked
  <2>2. JUnitCounts(r)
    BY <1>1, <2>1, JUnitIsClosed
  <2> QED
    BY <1>3, <2>2 DEF Closed, format, r
<1>4. CASE format = "codeclimate"
  <2>1. r = WriteCodeClimate(Masked)
    BY <1>1, <1>4 DEF WriteMasked
  <2>2. IdsDiffer([i \in DOMAIN r |-> r[i].fingerprint])
    BY <2>1, FingerprintsDiffer
  <2> QED
    BY <1>4, <2>2 DEF Closed, format, r
<1>5. CASE format = "gitlab-sast"
  <2>1. r = WriteGitLabSAST(Rules, Masked)
    BY <1>1, <1>5 DEF WriteMasked
  <2>2. /\ IdsDiffer([i \in DOMAIN r.vulnerabilities |-> r.vulnerabilities[i].id])
        /\ r.status = "failure" <=> errors # << >>
        /\ \A i \in DOMAIN r.vulnerabilities : r.vulnerabilities[i].line >= 1
    BY <2>1, SecurityIsClosed
  <2> QED
    BY <1>5, <2>2 DEF Closed, format, r
<1>6. CASE format \notin {"sarif", "junit", "codeclimate", "gitlab-sast"}
  BY <1>6 DEF Closed, format
<1> QED
  BY <1>2, <1>3, <1>4, <1>5, <1>6 DEF format, r

(* Two sequences one after the other have no members but theirs.           *)
LEMMA RangeJoins ==
  ASSUME NEW S, NEW T, NEW a \in Seq(S), NEW b \in Seq(T)
  PROVE  Range(a \o b) \subseteq Range(a) \union Range(b)
<1> DEFINE U == S \union T
<1>1. a \in Seq(U) /\ b \in Seq(U)
  BY SeqMonotonic
<1> HIDE DEF U
<1>2. Len(a) \in Nat /\ Len(b) \in Nat /\ DOMAIN a = 1 .. Len(a) /\ DOMAIN b = 1 .. Len(b)
  BY LenProperties
<1> DEFINE c == a \o b
<1>3. /\ c \in Seq(U) /\ Len(c) = Len(a) + Len(b)
      /\ \A i \in 1 .. Len(a) + Len(b) : c[i] = IF i <= Len(a) THEN a[i] ELSE b[i - Len(a)]
  BY <1>1, ConcatProperties
<1>4. DOMAIN c = 1 .. Len(a) + Len(b)
  BY <1>3, LenProperties
<1> HIDE DEF c
<1>5. ASSUME NEW i \in DOMAIN c
      PROVE  c[i] \in Range(a) \union Range(b)
  <2>1. CASE i <= Len(a)
    <3>1. i \in DOMAIN a /\ c[i] = a[i]
      BY <1>2, <1>3, <1>4, <2>1
    <3> QED
      BY <3>1 DEF Range
  <2>2. CASE ~(i <= Len(a))
    <3>1. i - Len(a) \in DOMAIN b /\ c[i] = b[i - Len(a)]
      BY <1>2, <1>3, <1>4, <2>2
    <3> QED
      BY <3>1 DEF Range
  <2> QED
    BY <2>1, <2>2
<1>6. Range(c) \subseteq Range(a) \union Range(b)
  BY <1>5 DEF Range
<1> QED
  BY <1>6 DEF c

(* The entries of a reading are of findings of the scan.                   *)
EntriesOf(format, scan) ==
  {Shows(format, scan.found[i]) : i \in DOMAIN scan.found}
    \union {Shows(format, scan.suppressed[i].finding) : i \in DOMAIN scan.suppressed}

(* What reads as a scan has no entries but of its findings.                *)
LEMMA ReadEntries ==
  ASSUME NEW cfg, NEW scan, IsScan(cfg, scan), NEW format, NEW seen, ReadsAs(format, scan, seen)
  PROVE  Range(seen.shown \o seen.marked) \subseteq EntriesOf(format, scan)
<1> DEFINE F == {Shows(format, scan.found[i]) : i \in DOMAIN scan.found}
           M == {Shows(format, scan.suppressed[i].finding) : i \in DOMAIN scan.suppressed}
<1>1. seen.shown \in Seq(F)
  <2>1. seen.shown \in [1 .. Len(scan.found) -> F]
    BY ScanDomains DEF ReadsAs, ShownOf
  <2> HIDE DEF F
  <2> QED
    BY <2>1, ScanDomains, FunctionAsSeq
<1>2. seen.marked \in Seq(M)
  <2>1. CASE format \in {"json", "sarif"}
    <3>1. seen.marked \in [1 .. Len(scan.suppressed) -> M]
      BY <2>1, ScanDomains DEF ReadsAs, MarkedOf
    <3> HIDE DEF M
    <3> QED
      BY <3>1, ScanDomains, FunctionAsSeq
  <2>2. CASE format \notin {"json", "sarif"}
    <3>1. seen.marked = << >>
      BY <2>2 DEF ReadsAs, MarkedOf
    <3> QED
      BY <3>1, EmptySeq
  <2> QED
    BY <2>1, <2>2
<1>3. Range(seen.shown \o seen.marked) \subseteq Range(seen.shown) \union Range(seen.marked)
  BY <1>1, <1>2, RangeJoins
<1>4. Range(seen.shown) \subseteq F /\ Range(seen.marked) \subseteq M
  <2>1. \A T : \A s \in Seq(T) : Range(s) \subseteq T
    <3> SUFFICES ASSUME NEW T, NEW s \in Seq(T) PROVE Range(s) \subseteq T
      OBVIOUS
    <3>1. \A i \in DOMAIN s : s[i] \in T
      BY ElementOfSeq, LenProperties
    <3> QED
      BY <3>1 DEF Range
  <2> HIDE DEF F, M
  <2> QED
    BY <1>1, <1>2, <2>1
<1> QED
  BY <1>3, <1>4 DEF EntriesOf

(* The errors of a reading: without the working directory in a path.       *)
LEMMA ErrorIsReported ==
  ASSUME NEW e \in AnError
  PROVE  /\ ReportError(e).secret = e.secret
         /\ \A path \in Range(ReportError(e).file) \union Range(ReportError(e).names) : path.as # "absolute"
<1>1. e = [file |-> e.file, names |-> e.names, secret |-> e.secret]
      /\ e.file \in Seq(APath) /\ (e.names = << >> \/ e.names = e.file)
  BY DEF AnError
<1>2. Range(<< >>) = {}
  BY DEF Range
<1>3. CASE e.file = << >>
  <2>1. ReportError(e) = e
    BY <1>3 DEF ReportError
  <2> QED
    BY <1>1, <1>2, <1>3, <2>1
<1>4. CASE e.file # << >>
  <2> DEFINE paths == ReportPaths(e.file)
             names == IF e.names = e.file THEN ReportPaths(e.names) ELSE e.names
             p == [e EXCEPT !.file = paths]
             q == [p EXCEPT !.names = names]
  <2>1. ReportError(e) = q
    BY <1>4 DEF ReportError
  <2>2. names = << >> \/ names = paths
    BY <1>1, <1>4
  <2> HIDE DEF paths, names
  <2>3. p = [file |-> paths, names |-> e.names, secret |-> e.secret]
    BY <1>1
  <2> HIDE DEF p
  <2>4. q = [file |-> paths, names |-> names, secret |-> e.secret]
    BY <2>3
  <2>5. q.file = paths /\ q.names = names /\ q.secret = e.secret
    BY <2>4
  <2> HIDE DEF q
  <2>6. \A path \in Range(paths) : path.as # "absolute"
    <3> SUFFICES ASSUME NEW i \in DOMAIN e.file PROVE ReportPath(e.file[i]).as # "absolute"
      BY DEF Range, paths, ReportPaths
    <3> DEFINE path == e.file[i]
    <3> HIDE DEF path
    <3>1. ReportPath(path).as # "absolute"
      BY DEF ReportPath, Path
    <3> QED
      BY <3>1 DEF path
  <2> QED
    BY <1>2, <2>1, <2>2, <2>5, <2>6
<1> QED
  BY <1>3, <1>4

(* What reads as a scan has the errors of the scan: masked if the scan is, *)
(* and without an absolute path.                                           *)
LEMMA ReadErrors ==
  ASSUME NEW cfg, NEW scan, IsScan(cfg, scan), NEW format, NEW seen, ReadsAs(format, scan, seen)
  PROVE  \A e \in Range(seen.errors) :
           /\ Hides(scan) => Range(e.secret) \intersect Body = {}
           /\ \A path \in Range(e.file) \union Range(e.names) : path.as # "absolute"
<1>1. CASE format \in People
  <2>1. seen.errors = << >>
    BY <1>1, ReadLengths
  <2>2. Range(<< >>) = {}
    BY DEF Range
  <2> QED
    BY <2>1, <2>2
<1>2. CASE format \notin People
  <2>1. seen.errors = ReportErrors(scan.errors)
    BY <1>2, ReadLengths
  <2> SUFFICES ASSUME NEW e \in Range(seen.errors)
               PROVE  /\ Hides(scan) => Range(e.secret) \intersect Body = {}
                      /\ \A path \in Range(e.file) \union Range(e.names) : path.as # "absolute"
    OBVIOUS
  <2>2. PICK i \in DOMAIN scan.errors : e = ReportError(scan.errors[i])
    BY <2>1 DEF Range, ReportErrors
  <2>3. scan.errors[i] \in AnError
    BY ScanDomains
  <2>4. e.secret = scan.errors[i].secret
        /\ \A path \in Range(e.file) \union Range(e.names) : path.as # "absolute"
    BY <2>2, <2>3, ErrorIsReported
  <2> QED
    BY <2>4 DEF Hides
<1> QED
  BY <1>1, <1>2

(* The source line of a diagnostic is masked as the rest is.               *)
LEMMA SourceHides ==
  ASSUME NEW scan, scan.mask, scan.source \in Seq([at : APlace, secret : ASecret]), NEW f
  PROVE  \A secret \in Range(SourceLine(scan, f)) : Range(secret) \intersect Body = {}
<1> DEFINE len == Len(scan.source)
           ss == [i \in DOMAIN scan.source |->
                    IF scan.source[i].at = Place(f.file, f.line) THEN MaskedIf(scan, scan.source[i].secret) ELSE << >>]
           all == SecretsAt(scan, f)
<1>1. len \in Nat /\ DOMAIN scan.source = 1 .. len /\ \A i \in 1 .. len : scan.source[i] \in [at : APlace, secret : ASecret]
  BY ElementOfSeq, LenProperties
<1>2. all \in Hidden
  <2>1. << >> \in Hidden
    BY EmptySeq DEF Hidden
  <2>2. ASSUME NEW secret \in ASecret PROVE MaskedIf(scan, secret) \in Hidden
    <3>1. Mask(secret) \in Seq(Character) /\ Range(Mask(secret)) \intersect Body = {}
      BY <2>2, MaskHides DEF ASecret
    <3>2. \A i \in DOMAIN Mask(secret) : Mask(secret)[i] \in Range(Mask(secret))
      BY DEF Range
    <3> QED
      BY <3>1, <3>2 DEF MaskedIf, Hidden
  <2>3. \A i \in 1 .. len : scan.source[i].secret \in ASecret
    BY <1>1
  <2>4. ss \in [1 .. len -> Hidden]
    BY <1>1, <2>1, <2>2, <2>3
  <2>5. all = FlattenSeq(ss)
    BY DEF SecretsAt
  <2> HIDE DEF ss, all
  <2> QED
    BY <1>1, <2>4, <2>5, HiddenFlatten
<1>3. Range(all) \intersect Body = {}
  BY <1>2 DEF Hidden, Range
<1>4. SourceLine(scan, f) = << >> \/ SourceLine(scan, f) = <<all>>
  BY DEF SourceLine
<1> HIDE DEF all
<1>5. Range(<< >>) = {} /\ Range(<<all>>) = {all}
  BY DEF Range
<1> QED
  BY <1>3, <1>4, <1>5

(* With redaction on, no character of the body of a secret is in a report: *)
(* not in messages, reasons, errors, source lines or fingerprints.         *)
LEMMA SecretsHidden ==
  ASSUME Typed, IsWritten, ~Flags.noRedact, Run.source \in Seq([at : APlace, secret : ASecret])
  PROVE  \A secret \in Secrets(Flags.format, report[1]) : Range(secret) \intersect Body = {}
<1> DEFINE format == Flags.format
           r == report[1]
           scan == Masked
<1>1. /\ IsScan(Cfg, scan) /\ Hides(scan) /\ scan.mask /\ scan.source = Run.source
      /\ r = WriteMasked(format, Rules, scan) /\ format \in Formats
  BY ScanIs DEF IsWritten
<1>2. ReadsAs(format, scan, Shown)
  BY WrittenReads
<1> HIDE DEF r, format, scan
<1> DEFINE messages == {e.message.secret : e \in Range(Shown.shown \o Shown.marked)}
           failures == {e.secret : e \in Range(Shown.errors)}
           others == CASE format = "json" -> {s.reason : s \in Range(r.suppressed)}
                       [] format = "sarif" -> UNION {{s.justification : s \in Range(x.suppressions)} : x \in Range(r.results)}
                       [] format = "text" -> UNION {Range(e.source) : e \in Range(r.entries)}
                       [] OTHER -> {}
<1>3. Secrets(format, r) = messages \union failures \union others
  BY DEF Secrets
<1>4. ASSUME NEW secret \in messages PROVE Range(secret) \intersect Body = {}
  <2>1. PICK e \in Range(Shown.shown \o Shown.marked) : secret = e.message.secret
    OBVIOUS
  <2>2. e \in EntriesOf(format, scan)
    BY <1>1, <1>2, ReadEntries
  <2>3. \A f : Shows(format, f).message = f.message
    BY DEF Shows, Entry
  <2>4. \/ \E i \in DOMAIN scan.found : e = Shows(format, scan.found[i])
        \/ \E i \in DOMAIN scan.suppressed : e = Shows(format, scan.suppressed[i].finding)
    BY <2>2 DEF EntriesOf
  <2>5. CASE \E i \in DOMAIN scan.found : e = Shows(format, scan.found[i])
    <3>1. PICK i \in DOMAIN scan.found : e = Shows(format, scan.found[i])
      BY <2>5
    <3>2. e.message = scan.found[i].message
      BY <2>3, <3>1
    <3> QED
      BY <1>1, <2>1, <3>2 DEF Hides
  <2>6. CASE \E i \in DOMAIN scan.suppressed : e = Shows(format, scan.suppressed[i].finding)
    <3>1. PICK i \in DOMAIN scan.suppressed : e = Shows(format, scan.suppressed[i].finding)
      BY <2>6
    <3>2. e.message = scan.suppressed[i].finding.message
      BY <2>3, <3>1
    <3> QED
      BY <1>1, <2>1, <3>2 DEF Hides
  <2> QED
    BY <2>4, <2>5, <2>6
<1>5. ASSUME NEW secret \in failures PROVE Range(secret) \intersect Body = {}
  <2>1. PICK e \in Range(Shown.errors) : secret = e.secret
    OBVIOUS
  <2> QED
    BY <1>1, <1>2, <2>1, ReadErrors
<1>6. ASSUME NEW secret \in others PROVE Range(secret) \intersect Body = {}
  <2>1. CASE format = "json"
    <3>1. r.suppressed = [i \in DOMAIN scan.suppressed |-> JsonSuppressed(Rules, scan.suppressed[i])]
      BY <1>1, <2>1 DEF WriteMasked, WriteJSON
    <3>2. others = {s.reason : s \in Range(r.suppressed)}
      BY <2>1
    <3> HIDE DEF others
    <3>3. PICK i \in DOMAIN scan.suppressed : secret = JsonSuppressed(Rules, scan.suppressed[i]).reason
      BY <1>6, <3>1, <3>2 DEF Range
    <3>4. secret = scan.suppressed[i].reason
      BY <3>3 DEF JsonSuppressed
    <3> QED
      BY <1>1, <3>4 DEF Hides
  <2>2. CASE format = "sarif"
    <3>1. r.results = ResultsOf(scan) \o QuietResultsOf(scan) /\ SarifParted(scan)
      <4>1. r = WriteSARIF(Rules, scan)
        BY <1>1, <2>2 DEF WriteMasked
      <4> QED
        BY <1>1, <4>1, SarifParts DEF SarifParted
    <3>2. others = UNION {{s.justification : s \in Range(x.suppressions)} : x \in Range(r.results)}
      BY <2>2
    <3> HIDE DEF others
    <3>3. PICK x \in Range(r.results) : \E s \in Range(x.suppressions) : secret = s.justification
      BY <1>6, <3>2
    <3>4. PICK s \in Range(x.suppressions) : secret = s.justification
      BY <3>3
    <3> DEFINE a == ResultsOf(scan)
               b == QuietResultsOf(scan)
    <3>5. x \in Range(a) \union Range(b)
      <4>1. PICK S : a \in Seq(S) /\ b \in Seq(S)
        BY <3>1 DEF SarifParted, AreParts
      <4> HIDE DEF a, b
      <4>2. Range(a \o b) \subseteq Range(a) \union Range(b)
        BY <4>1, RangeJoins
      <4> QED
        BY <3>1, <4>2 DEF a, b
    <3>6. CASE x \in Range(a)
      <4>1. PICK i \in DOMAIN scan.found : x = SarifResultOf(scan.found[i], << >>)
        BY <3>6 DEF Range, ResultsOf
      <4>2. x.suppressions = << >>
        BY <4>1 DEF SarifResultOf
      <4>3. Range(<< >>) = {}
        BY DEF Range
      <4> QED
        BY <4>2, <4>3
    <3>7. CASE x \in Range(b)
      <4>1. PICK i \in DOMAIN scan.suppressed :
               x = SarifResultOf(scan.suppressed[i].finding, <<SarifSuppression(scan.suppressed[i])>>)
        BY <3>7 DEF Range, QuietResultsOf
      <4> DEFINE mark == SarifSuppression(scan.suppressed[i])
      <4>2. mark.justification = scan.suppressed[i].reason
        BY DEF SarifSuppression
      <4>3. x.suppressions = <<mark>>
        BY <4>1 DEF SarifResultOf
      <4> HIDE DEF mark
      <4>4. s = mark
        BY <4>3 DEF Range
      <4> QED
        BY <1>1, <3>4, <4>2, <4>4 DEF Hides
    <3> QED
      BY <3>5, <3>6, <3>7
  <2>3. CASE format = "text"
    <3>1. r.entries = [i \in DOMAIN scan.found |-> Diagnostic(scan, scan.found[i])]
      BY <1>1, <2>3 DEF WriteMasked, WriteText
    <3>2. others = UNION {Range(e.source) : e \in Range(r.entries)}
      BY <2>3
    <3> HIDE DEF others
    <3>3. PICK e \in Range(r.entries) : secret \in Range(e.source)
      BY <1>6, <3>2
    <3>4. PICK i \in DOMAIN scan.found : e = Diagnostic(scan, scan.found[i])
      BY <3>1 DEF Range
    <3>5. e.source = SourceLine(scan, scan.found[i])
      BY <3>4 DEF Diagnostic
    <3> QED
      BY <1>1, <3>3, <3>5, SourceHides
  <2>4. CASE format \notin {"json", "sarif", "text"}
    <3>1. others = {}
      BY <2>4
    <3> QED
      BY <1>6, <3>1
  <2> QED
    BY <2>1, <2>2, <2>3, <2>4
<1> HIDE DEF messages, failures, others
<1>7. \A secret \in Secrets(format, r) : Range(secret) \intersect Body = {}
  BY <1>3, <1>4, <1>5, <1>6
<1> QED
  BY <1>7 DEF format, r

(* No absolute path is in a report that is not for people.                 *)
LEMMA PathsHidden ==
  ASSUME Typed, IsWritten, ~ForPeople
  PROVE  \A path \in Paths : path.as # "absolute"
<1> DEFINE format == Flags.format
           scan == Masked
<1>1. IsScan(Cfg, scan) /\ format \notin People
  BY ScanIs DEF ForPeople, People
<1>2. ReadsAs(format, scan, Shown)
  BY WrittenReads
<1> HIDE DEF format, scan
<1>3. ASSUME NEW e \in Range(Shown.shown \o Shown.marked)
      PROVE  e.file.as # "absolute"
  <2>1. e \in EntriesOf(format, scan)
    BY <1>1, <1>2, ReadEntries
  <2>2. ASSUME NEW f PROVE Shows(format, f).file.as # "absolute"
    <3>1. Shows(format, f).file = ReportPath(f.file)
      BY <1>1 DEF Shows, Entry
    <3> DEFINE path == f.file
    <3> HIDE DEF path
    <3>2. ReportPath(path).as # "absolute"
      BY DEF ReportPath, Path
    <3> QED
      BY <3>1, <3>2 DEF path
  <2> QED
    BY <2>1, <2>2 DEF EntriesOf
<1>4. \A e \in Range(Shown.errors) : \A path \in Range(e.file) \union Range(e.names) : path.as # "absolute"
  BY <1>1, <1>2, ReadErrors
<1> QED
  BY <1>3, <1>4 DEF Paths

-----------------------------------------------------------------------------
(* What a run that is shielded writes, from what does not depend on the    *)
(* repository's configuration and comments.                                *)
ShieldedBy(run) == run.flags.noIgnores /\ ~run.flags.generate /\ (run.flags.noRepoConfig \/ run.flags.config # << >>)
PlainRepo(bare) ==
  [what |-> bare.what, tree |-> bare.tree, config |-> << >>, configLeadsOut |-> FALSE, ignoreLeadsOut |-> FALSE]
PlainCfg(bare) == Effective(bare.flags, PlainRepo(bare))
PlainScanned(bare) == Scanned(bare.flags, PlainRepo(bare))
PlainFoundIn(cfg, doc) ==
  Dedupe(Kept([i \in DOMAIN doc.items |-> ApplySeverity(cfg, Placed(doc.items[i]))],
              {i \in DOMAIN doc.items : Selected(cfg, Rules, <<doc.items[i].finding>>) # << >>}))
PlainFoundBy(cfg, said) ==
  DedupeMoved(Dedupe(IF said.failed # << >> THEN << >>
                     ELSE FlattenSeq([i \in DOMAIN said.docs |-> PlainFoundIn(cfg, said.docs[i])])))
PlainFound(bare) ==
  FlattenSeq([i \in DOMAIN PlainScanned(bare) |-> PlainFoundBy(PlainCfg(bare), bare.said[PlainScanned(bare)[i]])])
PlainErrors(bare) ==
  FlattenSeq([i \in DOMAIN PlainScanned(bare) |-> bare.said[PlainScanned(bare)[i]].failed])
  \o IF /\ PlainCfg(bare).strict /\ Targets(bare.flags, PlainRepo(bare)) # << >>
        /\ PlainScanned(bare) = << >>
       THEN <<ScanError(<< >>)>> ELSE << >>
PlainFiles(bare) ==
  UNION {{d.path : d \in Range(bare.said[t].docs)} : t \in Range(PlainScanned(bare))}
PlainScan(bare) ==
  [found |-> PlainFound(bare), suppressed |-> << >>, errors |-> PlainErrors(bare),
   files |-> Cardinality(PlainFiles(bare)), source |-> bare.source, lines |-> bare.lines,
   mask |-> ~bare.flags.noRedact, tty |-> bare.tty]
Outcome(bare) ==
  IF Refuses(bare.flags, PlainRepo(bare)) THEN [report |-> << >>, exit |-> 2]
  ELSE [report |-> <<WriteOutput(bare.flags.format, Rules, PlainScan(bare))>>,
        exit |-> ExitCode(PlainCfg(bare), PlainFound(bare), PlainErrors(bare))]

(* The targets follow from the arguments and the tree.                     *)
TargetsOf(flags, what, tree) ==
  DedupeStrings(FlattenSeq(
    IF flags.recursive THEN [i \in DOMAIN flags.args |-> WalkForCIFiles(tree[flags.args[i]], flags.names)]
    ELSE [i \in DOMAIN flags.args |-> Expanded(what[flags.args[i]])]))
NotExcluded(targets, patterns) == SelectSeq(targets, LAMBDA t : ~MatchesExclude(t, patterns))

(* With --no-ignores and without a configuration of the repository, the    *)
(* settings, the targets and the refusal follow from the flags, the        *)
(* arguments and the tree (config.Load, resolveTargets).                   *)
LEMMA ShieldSettings ==
  ASSUME NEW flags, flags.noIgnores, ~flags.generate, flags.noRepoConfig \/ flags.config # << >>,
         NEW repo, NEW other, repo.what = other.what, repo.tree = other.tree
  PROVE  /\ Effective(flags, repo) = Effective(flags, other)
         /\ Targets(flags, repo) = Targets(flags, other)
         /\ Scanned(flags, repo) = Scanned(flags, other)
         /\ Refuses(flags, repo) <=> Refuses(flags, other)
<1>1. Reads(flags, repo) = Reads(flags, other)
  BY DEF Reads
<1>2. Taken(flags, repo) = Taken(flags, other)
  BY <1>1 DEF Taken
<1>3. ShellCheckPath(flags, repo) = ShellCheckPath(flags, other)
  BY <1>2 DEF ShellCheckPath
<1>4. VersionText(flags, repo) = VersionText(flags, other)
  BY <1>2 DEF VersionText
<1>5. Effective(flags, repo) = Effective(flags, other)
  BY <1>2, <1>3, <1>4 DEF Effective
<1>6. ASSUME NEW any PROVE Targets(flags, any) = TargetsOf(flags, any.what, any.tree)
  BY DEF Targets, TargetsOf
<1>7. Targets(flags, repo) = Targets(flags, other)
  BY <1>6
<1>8. ASSUME NEW any PROVE Scanned(flags, any) = NotExcluded(Targets(flags, any), Effective(flags, any).exclude)
  BY DEF Scanned, NotExcluded
<1>9. Scanned(flags, repo) = Scanned(flags, other)
  BY <1>5, <1>7, <1>8
<1>10. ConfigFails(flags, repo) <=> ConfigFails(flags, other)
  BY <1>1 DEF ConfigFails
<1>11. ~IgnoreFileFails(flags, repo) /\ ~IgnoreFileFails(flags, other)
  BY DEF IgnoreFileFails
<1>12. TargetsFail(flags, repo) <=> TargetsFail(flags, other)
  BY <1>7 DEF TargetsFail
<1>13. Refuses(flags, repo) <=> Refuses(flags, other)
  BY <1>4, <1>10, <1>11, <1>12 DEF Refuses
<1> QED
  BY <1>5, <1>7, <1>9, <1>13

(* The bare form of an item and a document.                                *)
LEMMA BareItemIs ==
  ASSUME NEW item \in AnItem
  PROVE  Bare(item).finding = item.finding /\ Bare(item).at = item.at /\ Placed(Bare(item)) = Placed(item)
<1>1. Bare(item).finding = item.finding /\ Bare(item).at = item.at
  BY DEF Bare, AnItem
<1> QED
  BY <1>1 DEF Placed

(* With --no-ignores a document gives what its bare form gives: comments   *)
(* neither suppress nor fail the run.                                      *)
LEMMA ShieldDoc ==
  ASSUME NEW doc \in ADoc, Flags.noIgnores
  PROVE  /\ FoundIn(doc) = PlainFoundIn(Cfg, BareDoc(doc))
         /\ QuietIn(doc) = << >> /\ PolicyErrors(doc) = << >>
<1> DEFINE items == doc.items
           plain == BareDoc(doc).items
<1>1. items \in Seq(AnItem) /\ DOMAIN items = 1 .. Len(items) /\ Len(items) \in Nat
      /\ \A i \in DOMAIN items : items[i] \in AnItem
  <2>1. items \in Seq(AnItem)
    BY DEF ADoc
  <2> QED
    BY <2>1, ElementOfSeq, LenProperties
<1>2. plain = [i \in DOMAIN items |-> Bare(items[i])]
  BY DEF BareDoc, Entries
<1>3. SkipSuppress /\ \A item : Covered(item) = FALSE
  BY DEF SkipSuppress, Covered
<1>4. DOMAIN plain = DOMAIN items
  BY <1>2
<1>5. \A i \in DOMAIN items : plain[i].finding = items[i].finding /\ Placed(plain[i]) = Placed(items[i])
  BY <1>1, <1>2, BareItemIs
<1> HIDE DEF plain
<1>6. FoundIn(doc) = PlainFoundIn(Cfg, BareDoc(doc))
  <2>1. [i \in DOMAIN items |-> Finding(items[i])] = [i \in DOMAIN plain |-> ApplySeverity(Cfg, Placed(plain[i]))]
    BY <1>4, <1>5 DEF Finding
  <2>2. ItemsOf(doc, FALSE) = {i \in DOMAIN plain : Selected(Cfg, Rules, <<plain[i].finding>>) # << >>}
    BY <1>3, <1>4, <1>5 DEF ItemsOf, Counts
  <2>3. FoundIn(doc) = Dedupe(Kept([i \in DOMAIN items |-> Finding(items[i])], ItemsOf(doc, FALSE)))
    BY DEF FoundIn
  <2>4. PlainFoundIn(Cfg, BareDoc(doc))
          = Dedupe(Kept([i \in DOMAIN plain |-> ApplySeverity(Cfg, Placed(plain[i]))],
                        {i \in DOMAIN plain : Selected(Cfg, Rules, <<plain[i].finding>>) # << >>}))
    BY DEF PlainFoundIn, plain
  <2> QED
    BY <2>1, <2>2, <2>3, <2>4
<1>7. QuietIn(doc) = << >>
  <2> DEFINE ss == [i \in DOMAIN items |-> Suppressed(items[i])]
             S == Range(ss)
             places == ItemsOf(doc, TRUE)
  <2>1. ss \in Seq(S)
    <3>1. ss \in [1 .. Len(items) -> S]
      BY <1>1 DEF Range
    <3> HIDE DEF ss, S
    <3> QED
      BY <1>1, <3>1, FunctionAsSeq
  <2>2. places = {}
    BY <1>3 DEF ItemsOf
  <2>3. QuietIn(doc) = DedupeSuppressed(Kept(ss, places))
    BY DEF QuietIn
  <2> HIDE DEF ss, S, places
  <2>4. Kept(ss, places) = << >>
    <3>1. places \intersect DOMAIN ss = {}
      BY <2>2
    <3> QED
      BY <2>1, <3>1, KeptNone
  <2>5. DedupeSuppressed(<< >>) \in Seq({})
    <3>1. BlendsSuppressed({}) /\ << >> \in Seq({})
      BY EmptySeq DEF BlendsSuppressed
    <3> QED
      BY <3>1, DedupeSuppressedType
  <2>6. \A s \in Seq({}) : s = << >>
    BY ElementOfSeq, EmptySeq, LenProperties
  <2> QED
    BY <2>3, <2>4, <2>5, <2>6
<1>8. PolicyErrors(doc) = << >>
  BY <1>3 DEF PolicyErrors
<1> QED
  BY <1>6, <1>7, <1>8

(* Empty sequences joined are empty.                                       *)
LEMMA EmptyJoined ==
  ASSUME NEW len \in Nat, NEW ss \in [1 .. len -> {<< >>}]
  PROVE  FlattenSeq(ss) = << >>
<1>1. << >> \in Seq({})
  BY EmptySeq
<1>2. ss \in [1 .. len -> Seq({})]
  BY <1>1
<1>3. FlattenSeq(ss) \in Seq({})
  BY <1>2, FlattenType
<1> QED
  BY <1>3, ElementOfSeq, EmptySeq, LenProperties

(* With --no-ignores a target gives what its bare form gives.              *)
LEMMA ShieldTarget ==
  ASSUME IsRun(Run), Flags.noIgnores, NEW t \in DOMAIN Run.said
  PROVE  /\ FoundBy(t) = PlainFoundBy(Cfg, BareRun(Run).said[t])
         /\ QuietBy(t) = << >>
         /\ ErrorsBy(t) = BareRun(Run).said[t].failed
         /\ {d.path : d \in Range(BareRun(Run).said[t].docs)} = {d.path : d \in Range(Run.said[t].docs)}
<1> DEFINE said == Run.said[t]
           docs == said.docs
           bare == BareRun(Run).said[t]
           len == Len(docs)
<1>1. said.failed \in Seq(AnError) /\ docs \in Seq(ADoc)
  <2>1. said \in Saying
    BY DEF IsRun
  <2> QED
    BY <2>1 DEF Saying
<1>2. len \in Nat /\ DOMAIN docs = 1 .. len /\ \A i \in 1 .. len : docs[i] \in ADoc
  BY <1>1, ElementOfSeq, LenProperties
<1>3. bare.failed = said.failed /\ bare.docs = [i \in DOMAIN docs |-> BareDoc(docs[i])]
  BY DEF BareRun, Entries
<1> HIDE DEF bare
<1>4. FoundBy(t) = PlainFoundBy(Cfg, bare)
  <2>1. [i \in DOMAIN docs |-> FoundIn(docs[i])] = [i \in DOMAIN bare.docs |-> PlainFoundIn(Cfg, bare.docs[i])]
    BY <1>2, <1>3, ShieldDoc
  <2> DEFINE a == FlattenSeq([i \in DOMAIN docs |-> FoundIn(docs[i])])
             b == FlattenSeq([i \in DOMAIN bare.docs |-> PlainFoundIn(Cfg, bare.docs[i])])
  <2>2. a = b
    BY <2>1
  <2>3. FoundBy(t) = DedupeMoved(Dedupe(IF said.failed # << >> THEN << >> ELSE a))
    BY DEF FoundBy, InDocs
  <2>4. PlainFoundBy(Cfg, bare) = DedupeMoved(Dedupe(IF bare.failed # << >> THEN << >> ELSE b))
    BY DEF PlainFoundBy
  <2> HIDE DEF a, b
  <2> QED
    BY <1>3, <2>2, <2>3, <2>4
<1>5. QuietBy(t) = << >>
  <2> DEFINE ss == [i \in DOMAIN docs |-> QuietIn(docs[i])]
  <2>1. ss \in [1 .. len -> {<< >>}]
    BY <1>2, ShieldDoc
  <2>2. QuietBy(t) = DedupeSuppressed(IF said.failed # << >> THEN << >> ELSE FlattenSeq(ss))
    BY DEF QuietBy, InDocs
  <2> HIDE DEF ss
  <2>3. QuietBy(t) = DedupeSuppressed(<< >>)
    BY <1>2, <2>1, <2>2, EmptyJoined
  <2>4. DedupeSuppressed(<< >>) \in Seq({})
    <3>1. BlendsSuppressed({}) /\ << >> \in Seq({})
      BY EmptySeq DEF BlendsSuppressed
    <3> QED
      BY <3>1, DedupeSuppressedType
  <2>5. \A s \in Seq({}) : s = << >>
    BY ElementOfSeq, EmptySeq, LenProperties
  <2> QED
    BY <2>3, <2>4, <2>5
<1>6. ErrorsBy(t) = bare.failed
  <2> DEFINE ss == [i \in DOMAIN docs |-> PolicyErrors(docs[i])]
  <2>1. ss \in [1 .. len -> {<< >>}]
    BY <1>2, ShieldDoc
  <2>2. ErrorsBy(t) = (IF said.failed # << >> THEN << >> ELSE FlattenSeq(ss)) \o said.failed
    BY DEF ErrorsBy, InDocs
  <2> HIDE DEF ss
  <2>3. ErrorsBy(t) = << >> \o said.failed
    BY <1>2, <2>1, <2>2, EmptyJoined
  <2> QED
    BY <1>1, <1>3, <2>3, ConcatEmptySeq
<1>7. {d.path : d \in Range(bare.docs)} = {d.path : d \in Range(docs)}
  <2>1. \A i \in DOMAIN docs : bare.docs[i].path = docs[i].path
    BY <1>3 DEF BareDoc
  <2>2. DOMAIN bare.docs = DOMAIN docs
    BY <1>3
  <2> QED
    BY <2>1, <2>2 DEF Range
<1> QED
  BY <1>4, <1>5, <1>6, <1>7 DEF bare

(* A shielded run collects and counts as its bare form does.               *)
LEMMA ShieldCollects ==
  ASSUME IsRun(Run), Shielded
  PROVE  LET bare == BareRun(Run)
         IN  /\ Cfg = PlainCfg(bare) /\ Flags = bare.flags
             /\ Refuses(Flags, Run.repo) <=> Refuses(bare.flags, PlainRepo(bare))
             /\ ~Refuses(Flags, Run.repo) =>
                  /\ OverTargets(FoundBy) = PlainFound(bare)
                  /\ OverTargets(QuietBy) = << >>
                  /\ OverTargets(ErrorsBy) \o NothingScanned = PlainErrors(bare)
                  /\ FilesScanned = PlainFiles(bare)
<1> DEFINE bare == BareRun(Run)
           plain == PlainRepo(bare)
<1>1. /\ bare.flags = Flags /\ bare.what = Run.repo.what /\ bare.tree = Run.repo.tree
  BY DEF BareRun, Flags
<1>2. plain.what = Run.repo.what /\ plain.tree = Run.repo.tree
  BY <1>1 DEF PlainRepo
<1>3. Flags.noIgnores /\ ~Flags.generate /\ (Flags.noRepoConfig \/ Flags.config # << >>)
  BY DEF Shielded
<1> HIDE DEF bare, plain
<1>4. /\ Effective(Flags, Run.repo) = Effective(Flags, plain)
      /\ Targets(Flags, Run.repo) = Targets(Flags, plain)
      /\ Scanned(Flags, Run.repo) = Scanned(Flags, plain)
      /\ Refuses(Flags, Run.repo) <=> Refuses(Flags, plain)
  BY <1>2, <1>3, ShieldSettings
<1>5. Cfg = PlainCfg(bare) /\ Scanned(Flags, Run.repo) = PlainScanned(bare)
  BY <1>1, <1>4 DEF Cfg, PlainCfg, PlainScanned, plain
<1>6. ASSUME ~Refuses(Flags, Run.repo)
      PROVE  /\ OverTargets(FoundBy) = PlainFound(bare)
             /\ OverTargets(QuietBy) = << >>
             /\ OverTargets(ErrorsBy) \o NothingScanned = PlainErrors(bare)
             /\ FilesScanned = PlainFiles(bare)
  <2> DEFINE scanned == Scanned(Flags, Run.repo)
             len == Len(scanned)
  <2>1. scanned \in Seq(DOMAIN Run.said)
    BY <1>6 DEF IsRun, Flags
  <2>2. len \in Nat /\ DOMAIN scanned = 1 .. len /\ \A i \in 1 .. len : scanned[i] \in DOMAIN Run.said
    <3> HIDE DEF scanned
    <3> QED
      BY <2>1, ElementOfSeq, LenProperties
  <2> HIDE DEF scanned
  <2>3. ASSUME NEW t \in DOMAIN Run.said
        PROVE  /\ FoundBy(t) = PlainFoundBy(Cfg, bare.said[t])
               /\ QuietBy(t) = << >>
               /\ ErrorsBy(t) = bare.said[t].failed
               /\ {d.path : d \in Range(bare.said[t].docs)} = {d.path : d \in Range(Run.said[t].docs)}
    BY <1>3, ShieldTarget DEF bare
  <2>4. OverTargets(FoundBy) = PlainFound(bare)
    <3>1. [i \in DOMAIN scanned |-> FoundBy(scanned[i])]
            = [i \in DOMAIN PlainScanned(bare) |-> PlainFoundBy(PlainCfg(bare), bare.said[PlainScanned(bare)[i]])]
      BY <1>5, <2>2, <2>3 DEF scanned
    <3>2. OverTargets(FoundBy) = FlattenSeq([i \in DOMAIN scanned |-> FoundBy(scanned[i])])
      BY DEF OverTargets, scanned
    <3> QED
      BY <3>1, <3>2 DEF PlainFound
  <2>5. OverTargets(QuietBy) = << >>
    <3> DEFINE ss == [i \in DOMAIN scanned |-> QuietBy(scanned[i])]
    <3>1. ss \in [1 .. len -> {<< >>}]
      BY <2>2, <2>3
    <3>2. OverTargets(QuietBy) = FlattenSeq(ss)
      BY DEF OverTargets, scanned
    <3> HIDE DEF ss
    <3> QED
      BY <2>2, <3>1, <3>2, EmptyJoined
  <2>6. OverTargets(ErrorsBy) = FlattenSeq([i \in DOMAIN PlainScanned(bare) |-> bare.said[PlainScanned(bare)[i]].failed])
    <3>1. [i \in DOMAIN scanned |-> ErrorsBy(scanned[i])]
            = [i \in DOMAIN PlainScanned(bare) |-> bare.said[PlainScanned(bare)[i]].failed]
      BY <1>5, <2>2, <2>3 DEF scanned
    <3>2. OverTargets(ErrorsBy) = FlattenSeq([i \in DOMAIN scanned |-> ErrorsBy(scanned[i])])
      BY DEF OverTargets, scanned
    <3> QED
      BY <3>1, <3>2
  <2>7. NothingScanned =
          IF /\ PlainCfg(bare).strict /\ Targets(bare.flags, PlainRepo(bare)) # << >> /\ PlainScanned(bare) = << >>
            THEN <<ScanError(<< >>)>> ELSE << >>
    BY <1>1, <1>4, <1>5 DEF NothingScanned, plain
  <2>8. FilesScanned = PlainFiles(bare)
    <3>1. \A t \in Range(scanned) : t \in DOMAIN Run.said
      BY <2>2 DEF Range
    <3>2. FilesScanned = UNION {{d.path : d \in Range(Run.said[t].docs)} : t \in Range(scanned)}
      BY DEF FilesScanned, scanned
    <3>3. PlainFiles(bare) = UNION {{d.path : d \in Range(bare.said[t].docs)} : t \in Range(scanned)}
      BY <1>5 DEF PlainFiles, scanned
    <3>4. \A t \in Range(scanned) :
             {d.path : d \in Range(bare.said[t].docs)} = {d.path : d \in Range(Run.said[t].docs)}
      BY <2>3, <3>1
    <3> QED
      BY <3>2, <3>3, <3>4
  <2> QED
    BY <2>4, <2>5, <2>6, <2>7, <2>8 DEF PlainErrors
<1> QED
  BY <1>1, <1>4, <1>5, <1>6 DEF bare, plain

-----------------------------------------------------------------------------
(* The invariant.                                                          *)
RunsOK == runs \in Seq(Range(runs)) /\ \A run \in Range(runs) : IsRun(run)
PlaceOK == n \in 1 .. Len(runs) /\ at \in {"start", "generate", "collected", "compared", "done"}
Going ==
  at \in {"generate", "collected", "compared"} =>
    /\ ~Refuses(Flags, Run.repo) /\ Typed /\ report = << >>
    /\ Flags.generate <=> at = "generate"
AsCollected ==
  at \in {"collected", "compared"} =>
    /\ quiet = OverTargets(QuietBy) /\ errors = OverTargets(ErrorsBy) \o NothingScanned
    /\ ~NewOnlyMode(Flags) => found = OverTargets(FoundBy)
AsReported ==
  /\ ~Refuses(Flags, Run.repo) /\ Typed
  /\ report = <<WriteOutput(Flags.format, Rules, Scan)>>
  /\ exit = ExitCode(Cfg, found, errors)
Ended ==
  at = "done" =>
    /\ report = << >> => exit = 2 \/ Flags.generate
    /\ report # << >> => AsReported
    /\ Shielded => [report |-> report, exit |-> exit] = Outcome(BareRun(Run))
Remembered ==
  n >= 2 /\ ShieldedBy(runs[n - 1]) =>
    [report |-> before[1].report, exit |-> before[1].exit] = Outcome(BareRun(runs[n - 1]))
Started == at = "start" => report = << >>
ReportsInvariant == RunsOK /\ PlaceOK /\ Started /\ Going /\ AsCollected /\ Ended /\ Remembered

(* The run that is under way is one of the runs assumed.                   *)
LEMMA RunNow ==
  ASSUME RunsOK, PlaceOK
  PROVE  IsRun(Run)
<1>1. Run \in Range(runs)
  <2>1. DOMAIN runs = 1 .. Len(runs)
    BY LenProperties DEF RunsOK
  <2> QED
    BY <2>1 DEF Run, PlaceOK, Range
<1> QED
  BY <1>1 DEF RunsOK

(* The invariant holds before the first run.                               *)
LEMMA ReportsInit == Init => ReportsInvariant
<1> SUFFICES ASSUME Init PROVE ReportsInvariant
  OBVIOUS
<1>1. PICK family \in Families : runs \in family
  BY DEF Init
<1>2. runs \in Seq(Range(runs)) /\ runs # << >> /\ \A run \in Range(runs) : IsRun(run)
  BY <1>1, RunsAssumption DEF RunsAssumption, IsRun
<1>3. n \in 1 .. Len(runs)
  <2>1. Len(runs) \in Nat /\ Len(runs) # 0
    BY <1>2, EmptySeq, LenProperties
  <2> QED
    BY <2>1 DEF Init
<1> QED
  BY <1>2, <1>3 DEF Init, ReportsInvariant, RunsOK, PlaceOK, Started, Going, AsCollected, Ended, Remembered

(* What of the state stays, stays so.                                      *)
Stays == runs' = runs /\ n' = n

(* A step within a run leaves what depends on the run only.                *)
LEMMA StaysSo ==
  ASSUME Stays, RunsOK, PlaceOK, Remembered
  PROVE  /\ RunsOK' /\ Run' = Run /\ Flags' = Flags /\ Cfg' = Cfg
         /\ (Shielded <=> Shielded')
         /\ (before' = before => Remembered')
<1>1. Run' = Run
  BY DEF Run, Stays
<1>2. Flags' = Flags /\ Cfg' = Cfg
  BY <1>1 DEF Flags, Cfg
<1>3. RunsOK'
  BY DEF RunsOK, Stays
<1>4. Shielded <=> Shielded'
  BY <1>2 DEF Shielded
<1>5. before' = before => Remembered'
  BY DEF Remembered, Stays
<1> QED
  BY <1>1, <1>2, <1>3, <1>4, <1>5

(* A run that is refused ends as its bare form does: exit code 2 and no    *)
(* report.                                                                 *)
LEMMA ReportsRefuse ==
  ASSUME ReportsInvariant, Refuse
  PROVE  ReportsInvariant'
<1> USE DEF ReportsInvariant
<1>1. Stays /\ before' = before /\ report' = report /\ at' = "done" /\ exit' = 2 /\ at = "start"
  BY DEF Refuse, Stays
<1>2. RunsOK' /\ Run' = Run /\ Flags' = Flags /\ Remembered' /\ (Shielded <=> Shielded')
  BY <1>1, StaysSo
<1>3. report' = << >>
  BY <1>1 DEF Started
<1>4. Shielded => Outcome(BareRun(Run)) = [report |-> << >>, exit |-> 2]
  <2>1. Shielded => Refuses(BareRun(Run).flags, PlainRepo(BareRun(Run)))
    BY RunNow, ShieldCollects DEF Refuse
  <2> QED
    BY <2>1 DEF Outcome
<1>5. PlaceOK' /\ Started' /\ Going' /\ AsCollected'
  BY <1>1 DEF PlaceOK, Stays, Started, Going, AsCollected
<1>6. Ended'
  BY <1>1, <1>2, <1>3, <1>4 DEF Ended
<1> QED
  BY <1>2, <1>5, <1>6

(* The scan of the targets keeps the invariant.                            *)
LEMMA ReportsCollect ==
  ASSUME ReportsInvariant, Collect
  PROVE  ReportsInvariant'
<1> USE DEF ReportsInvariant
<1>1. /\ Stays /\ before' = before /\ report' = report /\ at = "start" /\ ~Refuses(Flags, Run.repo)
      /\ at' = IF Flags.generate THEN "generate" ELSE "collected"
      /\ found' = OverTargets(FoundBy) /\ quiet' = OverTargets(QuietBy)
      /\ errors' = OverTargets(ErrorsBy) \o NothingScanned
  BY DEF Collect, Stays
<1>2. RunsOK' /\ Run' = Run /\ Flags' = Flags /\ Cfg' = Cfg /\ Remembered'
  BY <1>1, StaysSo
<1>3. Typed'
  <2>1. IsRun(Run)
    BY RunNow
  <2>2. /\ OverTargets(FoundBy) \in Seq(Told(Cfg)) /\ OverTargets(QuietBy) \in Seq(Marked(Cfg))
        /\ OverTargets(ErrorsBy) \o NothingScanned \in Seq(AnError)
    BY <1>1, <2>1, CollectTypes
  <2> QED
    BY <1>1, <1>2, <2>2 DEF Typed
<1>4. PlaceOK' /\ Started' /\ Ended'
  BY <1>1 DEF PlaceOK, Stays, Started, Ended
<1>5. Going'
  BY <1>1, <1>2, <1>3 DEF Going, Started
<1>6. AsCollected'
  <2>1. /\ OverTargets(QuietBy)' = OverTargets(QuietBy) /\ OverTargets(FoundBy)' = OverTargets(FoundBy)
        /\ (OverTargets(ErrorsBy) \o NothingScanned)' = OverTargets(ErrorsBy) \o NothingScanned
    BY <1>2 DEF OverTargets, FoundBy, QuietBy, ErrorsBy, InDocs, FoundIn, QuietIn, PolicyErrors, ItemsOf, Finding,
                Suppressed, Counts, Covered, SkipSuppress, NothingScanned
  <2> QED
    BY <1>1, <2>1 DEF AsCollected
<1> QED
  BY <1>2, <1>4, <1>5, <1>6

(* Writing an ignore file in place of a report keeps the invariant.        *)
LEMMA ReportsGenerate ==
  ASSUME ReportsInvariant, Generate
  PROVE  ReportsInvariant'
<1> USE DEF ReportsInvariant
<1>1. Stays /\ before' = before /\ report' = report /\ at = "generate" /\ at' = "done"
  BY DEF Generate, Stays
<1>2. RunsOK' /\ Flags' = Flags /\ Remembered' /\ (Shielded <=> Shielded')
  BY <1>1, StaysSo
<1>3. report' = << >> /\ Flags.generate
  BY <1>1 DEF Going
<1>4. ~Shielded
  BY <1>3 DEF Shielded
<1>5. PlaceOK' /\ Started' /\ Going' /\ AsCollected' /\ Ended'
  BY <1>1, <1>2, <1>3, <1>4 DEF PlaceOK, Stays, Started, Going, AsCollected, Ended
<1> QED
  BY <1>2, <1>5

(* What a run collects, depends on the run only.                           *)
LEMMA CollectsSo ==
  ASSUME Run' = Run
  PROVE  /\ OverTargets(QuietBy)' = OverTargets(QuietBy) /\ OverTargets(FoundBy)' = OverTargets(FoundBy)
         /\ (OverTargets(ErrorsBy) \o NothingScanned)' = OverTargets(ErrorsBy) \o NothingScanned
<1>1. Flags' = Flags /\ Cfg' = Cfg
  BY DEF Flags, Cfg
<1> QED
  BY <1>1 DEF OverTargets, FoundBy, QuietBy, ErrorsBy, InDocs, FoundIn, QuietIn, PolicyErrors, ItemsOf, Finding,
              Suppressed, Counts, Covered, SkipSuppress, NothingScanned

(* A shielded run compares with no snapshot.                               *)
LEMMA ShieldNeedsNone ==
  ASSUME Shielded, ~Refuses(Flags, Run.repo)
  PROVE  ~NewOnlyMode(Flags) /\ Flags.baseline = << >>
<1>1. Flags.noIgnores
  BY DEF Shielded
<1>2. ~FlagsContradict(Flags)
  BY DEF Refuses
<1> QED
  BY <1>1, <1>2 DEF FlagsContradict, NewOnlyMode

(* The comparison with a snapshot (filterNewOnly) keeps the invariant:     *)
(* what it leaves was found.                                               *)
LEMMA ReportsCompare ==
  ASSUME ReportsInvariant, Compare
  PROVE  ReportsInvariant'
<1> USE DEF ReportsInvariant
<1>1. /\ Stays /\ before' = before /\ report' = report /\ quiet' = quiet /\ errors' = errors /\ at = "collected"
      /\ \/ Flags.baseline = <<"missing">> /\ at' = "done" /\ exit' = 2 /\ found' = found
         \/ at' = "compared" /\ found' = IF NewOnlyMode(Flags) THEN FilterNewOnly(Snapshot, found) ELSE found
  BY DEF Compare, Stays
<1>2. RunsOK' /\ Run' = Run /\ Flags' = Flags /\ Cfg' = Cfg /\ Remembered' /\ (Shielded <=> Shielded')
  BY <1>1, StaysSo
<1>3. ~Refuses(Flags, Run.repo) /\ Typed /\ report = << >> /\ ~Flags.generate
  BY <1>1 DEF Going
<1>4. PlaceOK' /\ Started'
  BY <1>1 DEF PlaceOK, Stays, Started
<1>5. CASE Flags.baseline = <<"missing">> /\ at' = "done" /\ exit' = 2 /\ found' = found
  <2>1. Flags.baseline # << >>
    BY <1>5
  <2>2. ~Shielded
    BY <1>3, <2>1, ShieldNeedsNone
  <2> QED
    BY <1>1, <1>2, <1>3, <1>4, <1>5, <2>2 DEF Going, AsCollected, Ended
<1>6. CASE at' = "compared" /\ found' = IF NewOnlyMode(Flags) THEN FilterNewOnly(Snapshot, found) ELSE found
  <2>1. Typed'
    <3>1. FilterNewOnly(Snapshot, found) \in Seq(Told(Cfg))
      BY <1>3, KeptType DEF FilterNewOnly, Typed
    <3> QED
      BY <1>1, <1>2, <1>3, <1>6, <3>1 DEF Typed
  <2>2. Going'
    BY <1>1, <1>2, <1>3, <1>6, <2>1 DEF Going
  <2>3. AsCollected'
    BY <1>1, <1>2, <1>6, CollectsSo DEF AsCollected
  <2>4. Ended'
    BY <1>6 DEF Ended
  <2> QED
    BY <1>2, <1>4, <2>2, <2>3, <2>4
<1> QED
  BY <1>1, <1>5, <1>6

(* What a shielded run writes and its exit code follow from its bare form. *)
LEMMA ShieldWrites ==
  ASSUME RunsOK, PlaceOK, Going, AsCollected, at = "compared", Shielded
  PROVE  [report |-> <<WriteOutput(Flags.format, Rules, Scan)>>, exit |-> ExitCode(Cfg, found, errors)]
           = Outcome(BareRun(Run))
<1> DEFINE bare == BareRun(Run)
<1>1. ~Refuses(Flags, Run.repo) /\ IsRun(Run)
  BY RunNow DEF Going
<1>2. ~NewOnlyMode(Flags)
  BY <1>1, ShieldNeedsNone
<1>3. quiet = OverTargets(QuietBy) /\ errors = OverTargets(ErrorsBy) \o NothingScanned /\ found = OverTargets(FoundBy)
  BY <1>2 DEF AsCollected
<1>4. /\ Cfg = PlainCfg(bare) /\ Flags = bare.flags /\ ~Refuses(bare.flags, PlainRepo(bare))
      /\ found = PlainFound(bare) /\ quiet = << >> /\ errors = PlainErrors(bare) /\ FilesScanned = PlainFiles(bare)
  BY <1>1, <1>3, ShieldCollects
<1>5. bare.source = Run.source /\ bare.lines = Run.lines /\ bare.tty = Run.tty
  BY DEF BareRun
<1> HIDE DEF bare
<1>6. Scan = PlainScan(bare)
  BY <1>4, <1>5 DEF Scan, PlainScan
<1>7. Outcome(bare) = [report |-> <<WriteOutput(bare.flags.format, Rules, PlainScan(bare))>>,
                       exit |-> ExitCode(PlainCfg(bare), PlainFound(bare), PlainErrors(bare))]
  BY <1>4 DEF Outcome
<1>8. [report |-> <<WriteOutput(Flags.format, Rules, Scan)>>, exit |-> ExitCode(Cfg, found, errors)] = Outcome(bare)
  BY <1>4, <1>6, <1>7
<1> QED
  BY <1>8 DEF bare

(* Writing the report keeps the invariant.                                 *)
LEMMA ReportsWrite ==
  ASSUME ReportsInvariant, Write
  PROVE  ReportsInvariant'
<1> USE DEF ReportsInvariant
<1>1. /\ Stays /\ before' = before /\ found' = found /\ quiet' = quiet /\ errors' = errors
      /\ at = "compared" /\ at' = "done"
      /\ report' = <<WriteOutput(Flags.format, Rules, Scan)>> /\ exit' = ExitCode(Cfg, found, errors)
  BY DEF Write, Stays
<1>2. RunsOK' /\ Run' = Run /\ Flags' = Flags /\ Cfg' = Cfg /\ Remembered' /\ (Shielded <=> Shielded')
  BY <1>1, StaysSo
<1>3. ~Refuses(Flags, Run.repo) /\ Typed
  BY <1>1 DEF Going
<1>4. PlaceOK' /\ Started' /\ Going' /\ AsCollected'
  BY <1>1 DEF PlaceOK, Stays, Started, Going, AsCollected
<1>5. Scan' = Scan
  BY <1>1, <1>2 DEF Scan, FilesScanned
<1>6. AsReported'
  BY <1>1, <1>2, <1>3, <1>5 DEF AsReported, Typed
<1>7. report' # << >>
  <2> DEFINE r == WriteOutput(Flags.format, Rules, Scan)
  <2>1. report' = <<r>>
    BY <1>1
  <2> HIDE DEF r
  <2>2. <<r>> # << >>
    OBVIOUS
  <2> QED
    BY <2>1, <2>2
<1>8. Shielded => [report |-> report', exit |-> exit'] = Outcome(BareRun(Run))
  BY <1>1, ShieldWrites
<1>9. Ended'
  BY <1>1, <1>2, <1>6, <1>7, <1>8 DEF Ended
<1> QED
  BY <1>2, <1>4, <1>9

(* The next run keeps the invariant: of the run before the report and the  *)
(* exit code are remembered.                                               *)
LEMMA ReportsNextRun ==
  ASSUME ReportsInvariant, NextRun
  PROVE  ReportsInvariant'
<1> USE DEF ReportsInvariant
<1>1. /\ runs' = runs /\ n' = n + 1 /\ at = "done" /\ at' = "start" /\ report' = << >> /\ n < Len(runs)
      /\ before'[1].report = report /\ before'[1].exit = exit
  BY DEF NextRun
<1>2. RunsOK'
  BY <1>1 DEF RunsOK
<1>3. PlaceOK'
  <2>1. Len(runs) \in Nat
    BY LenProperties DEF RunsOK
  <2> QED
    BY <1>1, <2>1 DEF PlaceOK
<1>4. Started' /\ Going' /\ AsCollected' /\ Ended'
  BY <1>1 DEF Started, Going, AsCollected, Ended
<1>5. Remembered'
  <2>1. n' - 1 = n /\ runs'[n' - 1] = Run
    BY <1>1 DEF PlaceOK, Run
  <2>2. ShieldedBy(Run) => Shielded
    BY DEF ShieldedBy, Shielded, Flags
  <2>3. Shielded => [report |-> report, exit |-> exit] = Outcome(BareRun(Run))
    BY <1>1 DEF Ended
  <2> QED
    BY <1>1, <2>1, <2>2, <2>3 DEF Remembered
<1> QED
  BY <1>2, <1>3, <1>4, <1>5

(* Every step keeps the invariant.                                         *)
LEMMA ReportsStep == ReportsInvariant /\ [Next]_vars => ReportsInvariant'
<1> SUFFICES ASSUME ReportsInvariant, [Next]_vars PROVE ReportsInvariant'
  OBVIOUS
<1>1. CASE Refuse
  BY <1>1, ReportsRefuse
<1>2. CASE Collect
  BY <1>2, ReportsCollect
<1>3. CASE Generate
  BY <1>3, ReportsGenerate
<1>4. CASE Compare
  BY <1>4, ReportsCompare
<1>5. CASE Write
  BY <1>5, ReportsWrite
<1>6. CASE NextRun
  BY <1>6, ReportsNextRun
<1>7. CASE UNCHANGED vars
  <2>1. /\ Stays /\ before' = before /\ found' = found /\ quiet' = quiet /\ errors' = errors /\ at' = at
        /\ report' = report /\ exit' = exit
    BY <1>7 DEF vars, Stays
  <2>2. RunsOK' /\ Run' = Run /\ Flags' = Flags /\ Cfg' = Cfg /\ Remembered' /\ (Shielded <=> Shielded')
    BY <2>1, StaysSo DEF ReportsInvariant
  <2>3. Scan' = Scan /\ (Typed <=> Typed')
    BY <2>1, <2>2 DEF Scan, FilesScanned, Typed
  <2>4. AsReported <=> AsReported'
    BY <2>1, <2>2, <2>3 DEF AsReported
  <2>5. PlaceOK' /\ Started' /\ Going'
    BY <2>1, <2>2, <2>3 DEF ReportsInvariant, PlaceOK, Stays, Started, Going
  <2>6. AsCollected'
    BY <2>1, <2>2, CollectsSo DEF ReportsInvariant, AsCollected
  <2>7. Ended'
    BY <2>1, <2>2, <2>4 DEF ReportsInvariant, Ended
  <2> QED
    BY <2>2, <2>5, <2>6, <2>7 DEF ReportsInvariant
<1> QED
  BY <1>1, <1>2, <1>3, <1>4, <1>5, <1>6, <1>7 DEF Next

(* The invariant holds in every state: whatever the runs, what is          *)
(* collected, written and remembered fits together.                        *)
THEOREM ReportsHold == Spec => []ReportsInvariant
BY ReportsInit, ReportsStep, PTL DEF Spec

(* When a report has been written, it is of what was collected.            *)
LEMMA WrittenIs ==
  ASSUME ReportsInvariant, Written
  PROVE  Typed /\ IsWritten /\ exit = ExitCode(Cfg, found, errors) /\ IsRun(Run)
<1>1. AsReported /\ IsRun(Run)
  BY RunNow DEF ReportsInvariant, Ended, Written
<1>2. Flags.format \in Formats
  BY <1>1 DEF AsReported, Refuses, FlagsContradict
<1> QED
  BY <1>1, <1>2 DEF AsReported, IsWritten, WriteOutput, Masked

(* ReportCloses: the exit code fits what the report shows and the errors   *)
(* it has, and what a report refers to or counts is in it. For any         *)
(* sequence of runs.                                                       *)
THEOREM ReportsClose == Spec => []ReportCloses
<1>1. ReportsInvariant => ReportCloses
  BY WrittenIs, ExitFits, ClosedAsWritten DEF ReportCloses
<1> QED
  BY <1>1, ReportsHold, PTL

(* NothingLeaks: with redaction on, no report holds the body of a secret,  *)
(* and none that is not for people an absolute path. For any sequence of   *)
(* runs.                                                                   *)
THEOREM ReportsLeakNothing == Spec => []NothingLeaks
<1>1. ReportsInvariant => NothingLeaks
  <2> SUFFICES ASSUME ReportsInvariant, Written
               PROVE  /\ ~Flags.noRedact => \A secret \in Secrets(Flags.format, report[1]) : Range(secret) \intersect Body = {}
                      /\ ~ForPeople => \A path \in Paths : path.as # "absolute"
    BY DEF NothingLeaks
  <2>1. Typed /\ IsWritten /\ IsRun(Run)
    BY WrittenIs
  <2>2. Run.source \in Seq([at : APlace, secret : ASecret])
    BY <2>1 DEF IsRun
  <2> QED
    BY <2>1, <2>2, SecretsHidden, PathsHidden
<1> QED
  BY <1>1, ReportsHold, PTL

(* No entry of a report is of a rule that --skip names or that --only      *)
(* leaves out.                                                             *)
LEMMA SelectionHolds ==
  ASSUME Typed, IsWritten
  PROVE  \A e \in Range(Shown.shown \o Shown.marked) :
           e.rule \notin Flags.skip /\ (Flags.only # {} => e.rule \in Flags.only)
<1> SUFFICES ASSUME NEW e \in Range(Shown.shown \o Shown.marked)
             PROVE  e.rule \notin Flags.skip /\ (Flags.only # {} => e.rule \in Flags.only)
  OBVIOUS
<1>1. IsScan(Cfg, Masked) /\ ReadsAs(Flags.format, Masked, Shown)
  BY ScanIs, WrittenReads
<1>2. e \in EntriesOf(Flags.format, Masked)
  BY <1>1, ReadEntries
<1>3. \A f : Shows(Flags.format, f).rule = f.rule
  BY DEF Shows, Entry
<1>4. /\ \A i \in DOMAIN Masked.found : Masked.found[i] \in Told(Cfg)
      /\ \A i \in DOMAIN Masked.suppressed : Masked.suppressed[i].finding \in Told(Cfg)
  BY <1>1, ScanDomains DEF Marked
<1>5. PICK f \in Told(Cfg) : e.rule = f.rule
  <2>1. CASE \E i \in DOMAIN Masked.found : e = Shows(Flags.format, Masked.found[i])
    BY <1>3, <1>4, <2>1
  <2>2. CASE \E i \in DOMAIN Masked.suppressed : e = Shows(Flags.format, Masked.suppressed[i].finding)
    BY <1>3, <1>4, <2>2
  <2> QED
    BY <1>2, <2>1, <2>2 DEF EntriesOf
<1>6. RuleEnabled(Cfg, e.rule)
  BY <1>5 DEF Told
<1>7. Cfg.only = Flags.only /\ Cfg.skip = Flags.skip
  BY DEF Cfg, Effective
<1> QED
  BY <1>6, <1>7 DEF RuleEnabled

(* The configuration of the repository does not choose the ShellCheck      *)
(* binary.                                                                 *)
LEMMA BinaryKept ==
  ASSUME NEW file
  PROVE  ShellCheckPath(Flags, [Run.repo EXCEPT !.config = <<file>>])
           = ShellCheckPath(Flags, [Run.repo EXCEPT !.config = << >>])
<1> DEFINE one == [Run.repo EXCEPT !.config = <<file>>]
           none == [Run.repo EXCEPT !.config = << >>]
<1> HIDE DEF one, none
<1>1. Flags.config # << >> => Taken(Flags, one) = Taken(Flags, none)
  BY DEF Taken, Reads
<1>2. ShellCheckPath(Flags, one) = ShellCheckPath(Flags, none)
  BY <1>1 DEF ShellCheckPath
<1> QED
  BY <1>2 DEF one, none

(* SettingsHold: the flags decide over the configuration, and a run that   *)
(* is shielded from the repository (no configuration of its own, no        *)
(* ignores) gives the same report and exit code whatever the repository's  *)
(* configuration and comments say. For any sequence of runs.               *)
THEOREM ReportsKeepSettings == Spec => []SettingsHold
<1>1. ReportsInvariant => SettingsHold
  <2> SUFFICES ASSUME ReportsInvariant, at = "done" PROVE SettingsHold
    BY DEF SettingsHold
  <2>1. report = << >> => exit = 2 \/ Flags.generate
    BY DEF ReportsInvariant, Ended
  <2>2. report # << >> => \A e \in Range(Shown.shown \o Shown.marked) :
                            e.rule \notin Flags.skip /\ (Flags.only # {} => e.rule \in Flags.only)
    BY WrittenIs, SelectionHolds DEF Written
  <2>3. ASSUME n = 2, Shielded, BareRun(runs[1]) = BareRun(runs[2])
        PROVE  before[1].exit = exit /\ before[1].report = report
    <3>1. Run = runs[2] /\ runs[n - 1] = runs[1] /\ n >= 2
      BY <2>3 DEF Run
    <3>2. runs[1].flags = Flags
      <4>1. BareRun(runs[1]).flags = runs[1].flags /\ BareRun(runs[2]).flags = runs[2].flags
        BY DEF BareRun
      <4> QED
        BY <2>3, <3>1, <4>1 DEF Flags
    <3>3. ShieldedBy(runs[1])
      BY <2>3, <3>2 DEF Shielded, ShieldedBy
    <3>4. [report |-> before[1].report, exit |-> before[1].exit] = Outcome(BareRun(runs[1]))
      BY <3>1, <3>3 DEF ReportsInvariant, Remembered
    <3>5. [report |-> report, exit |-> exit] = Outcome(BareRun(runs[2]))
      BY <2>3, <3>1 DEF ReportsInvariant, Ended
    <3>6. [report |-> before[1].report, exit |-> before[1].exit] = [report |-> report, exit |-> exit]
      BY <2>3, <3>4, <3>5
    <3> QED
      BY <3>6
  <2> QED
    BY <2>1, <2>2, <2>3, BinaryKept DEF SettingsHold
<1> QED
  BY <1>1, ReportsHold, PTL

(* Whom a finding is told apart by, its severity does not say.             *)
LEMMA KeyKept ==
  ASSUME NEW f \in AFinding, NEW s
  PROVE  LET g == [f EXCEPT !.severity = s] IN KeyOf(g) = KeyOf(f) /\ g.severity = s
<1> DEFINE g == [f EXCEPT !.severity = s]
<1>1. /\ g.rule = f.rule /\ g.file = f.file /\ g.line = f.line /\ g.col = f.col /\ g.job = f.job
      /\ g.message = f.message /\ g.severity = s
  BY DEF AFinding
<1> HIDE DEF g
<1>2. Wording(g) = Wording(f)
  BY <1>1 DEF Wording
<1>3. KeyOf(g) = KeyOf(f)
  BY <1>1, <1>2 DEF KeyOf
<1> QED
  BY <1>1, <1>3 DEF g

(* A finding stays one whatever severity it takes.                         *)
LEMMA FindingsBlend == Blends(AFinding)
<1> SUFFICES ASSUME NEW f \in AFinding, NEW g \in AFinding PROVE [f EXCEPT !.severity = g.severity] \in AFinding
  BY DEF Blends
<1>1. g.severity \in Severity
  BY DEF AFinding
<1> QED
  BY <1>1 DEF AFinding

(* What Dedupe makes of the first m findings.                              *)
OneEach(out) == \A i, j \in DOMAIN out : i # j => KeyOf(out[i]) # KeyOf(out[j])
AllIn(said, m, out) ==
  \A k \in 1 .. m : \E i \in DOMAIN out :
     KeyOf(out[i]) = KeyOf(said[k]) /\ Rank(out[i].severity) >= Rank(said[k].severity)
SevereAs(said, m, out) ==
  \A i \in DOMAIN out : \E k \in 1 .. m : KeyOf(said[k]) = KeyOf(out[i]) /\ said[k].severity = out[i].severity
FirstOf(said, m, out) ==
  \A i \in DOMAIN out : \E k \in 1 .. m :
     /\ out[i] = [said[k] EXCEPT !.severity = out[i].severity]
     /\ \A l \in 1 .. k - 1 : KeyOf(said[l]) # KeyOf(said[k])
Deduped(said, m, out) == OneEach(out) /\ AllIn(said, m, out) /\ SevereAs(said, m, out) /\ FirstOf(said, m, out)

(* The rank of a finding's severity is a number.                           *)
LEMMA SevereIn ==
  ASSUME NEW f \in AFinding
  PROVE  Rank(f.severity) \in Nat
<1>1. f.severity = "info" \/ f.severity = "warn" \/ f.severity = "error"
  BY SeverityIs DEF AFinding
<1> QED
  BY <1>1, RankIs

(* Merging the next finding keeps what Dedupe has made of those before.    *)
LEMMA DedupedNext ==
  ASSUME NEW said \in Seq(AFinding), NEW m \in 1 .. Len(said), NEW out \in Seq(AFinding), Deduped(said, m - 1, out)
  PROVE  Deduped(said, m, Merge(out, said[m]))
<1> DEFINE f == said[m]
           new == Merge(out, f)
           len == Len(out)
<1>1. /\ f \in AFinding /\ Len(said) \in Nat /\ DOMAIN said = 1 .. Len(said)
      /\ \A k \in 1 .. Len(said) : said[k] \in AFinding
      /\ len \in Nat /\ DOMAIN out = 1 .. len /\ \A i \in 1 .. len : out[i] \in AFinding
  BY ElementOfSeq, LenProperties
<1>2. MergesTo(out, f, new)
  BY MergeOne
<1>3. /\ m \in Nat /\ \A k \in 1 .. m : k \in 1 .. Len(said) /\ (k = m \/ k \in 1 .. m - 1)
      /\ \A k \in 1 .. m - 1 : k \in 1 .. m
      /\ m \in 1 .. m
  BY <1>1
<1>4. OneEach(out) /\ AllIn(said, m - 1, out) /\ SevereAs(said, m - 1, out) /\ FirstOf(said, m - 1, out)
  BY DEF Deduped
<1> HIDE DEF f, new, len
<1>5. CASE (\A i \in 1 .. len : KeyOf(out[i]) # KeyOf(f)) /\ new = Append(out, f)
  <2>1. /\ DOMAIN new = 1 .. len + 1 /\ new[len + 1] = f
        /\ \A i \in 1 .. len : new[i] = out[i]
    <3>1. new \in Seq(AFinding) /\ Len(new) = len + 1
      BY <1>1, <1>5, AppendProperties DEF len
    <3> QED
      BY <1>1, <1>5, <3>1, AppendProperties, LenProperties DEF len
  <2>2. /\ \A i \in 1 .. len + 1 : i \in 1 .. len \/ i = len + 1
        /\ \A i \in 1 .. len : i \in 1 .. len + 1
        /\ len + 1 \in 1 .. len + 1
    BY <1>1
  <2>3. OneEach(new)
    <3> SUFFICES ASSUME NEW i \in DOMAIN new, NEW j \in DOMAIN new, i # j PROVE KeyOf(new[i]) # KeyOf(new[j])
      BY DEF OneEach
    <3>1. (i \in 1 .. len \/ i = len + 1) /\ (j \in 1 .. len \/ j = len + 1)
      BY <2>1, <2>2
    <3> QED
      BY <1>1, <1>4, <1>5, <2>1, <3>1 DEF OneEach
  <2>4. AllIn(said, m, new)
    <3> SUFFICES ASSUME NEW k \in 1 .. m
                 PROVE  \E i \in DOMAIN new :
                          KeyOf(new[i]) = KeyOf(said[k]) /\ Rank(new[i].severity) >= Rank(said[k].severity)
      BY DEF AllIn
    <3>1. CASE k = m
      <4>1. KeyOf(new[len + 1]) = KeyOf(said[k]) /\ Rank(new[len + 1].severity) >= Rank(said[k].severity)
        BY <1>1, <2>1, <3>1, SevereIn DEF f
      <4> QED
        BY <2>1, <2>2, <4>1
    <3>2. CASE k \in 1 .. m - 1
      <4>1. PICK i \in DOMAIN out : KeyOf(out[i]) = KeyOf(said[k]) /\ Rank(out[i].severity) >= Rank(said[k].severity)
        BY <1>4, <3>2 DEF AllIn
      <4>2. i \in DOMAIN new /\ new[i] = out[i]
        BY <1>1, <2>1, <2>2
      <4> QED
        BY <4>1, <4>2
    <3> QED
      BY <1>3, <3>1, <3>2
  <2>5. SevereAs(said, m, new)
    <3> SUFFICES ASSUME NEW i \in DOMAIN new
                 PROVE  \E k \in 1 .. m : KeyOf(said[k]) = KeyOf(new[i]) /\ said[k].severity = new[i].severity
      BY DEF SevereAs
    <3>1. CASE i = len + 1
      BY <1>3, <2>1, <3>1 DEF f
    <3>2. CASE i \in 1 .. len
      <4>1. PICK k \in 1 .. m - 1 : KeyOf(said[k]) = KeyOf(out[i]) /\ said[k].severity = out[i].severity
        BY <1>1, <1>4, <3>2 DEF SevereAs
      <4> QED
        BY <1>3, <2>1, <3>2, <4>1
    <3> QED
      BY <2>1, <2>2, <3>1, <3>2
  <2>6. FirstOf(said, m, new)
    <3> SUFFICES ASSUME NEW i \in DOMAIN new
                 PROVE  \E k \in 1 .. m : /\ new[i] = [said[k] EXCEPT !.severity = new[i].severity]
                                          /\ \A l \in 1 .. k - 1 : KeyOf(said[l]) # KeyOf(said[k])
      BY DEF FirstOf
    <3>1. CASE i = len + 1
      <4>1. f = [f EXCEPT !.severity = f.severity]
        BY <1>1 DEF AFinding
      <4>2. \A l \in 1 .. m - 1 : KeyOf(said[l]) # KeyOf(f)
        BY <1>1, <1>4, <1>5 DEF AllIn
      <4> QED
        BY <1>3, <2>1, <3>1, <4>1, <4>2 DEF f
    <3>2. CASE i \in 1 .. len
      <4>1. PICK k \in 1 .. m - 1 : /\ out[i] = [said[k] EXCEPT !.severity = out[i].severity]
                                    /\ \A l \in 1 .. k - 1 : KeyOf(said[l]) # KeyOf(said[k])
        BY <1>1, <1>4, <3>2 DEF FirstOf
      <4> QED
        BY <1>3, <2>1, <3>2, <4>1
    <3> QED
      BY <2>1, <2>2, <3>1, <3>2
  <2> QED
    BY <2>3, <2>4, <2>5, <2>6 DEF Deduped, new, f
<1>6. CASE \E i \in 1 .. len : KeyOf(out[i]) = KeyOf(f) /\ new = Raised(out, i, f)
  <2>1. PICK p \in 1 .. len : KeyOf(out[p]) = KeyOf(f) /\ new = Raised(out, p, f)
    BY <1>6
  <2> DEFINE s == IF Rank(f.severity) > Rank(out[p].severity) THEN f.severity ELSE out[p].severity
             to == [out[p] EXCEPT !.severity = s]
  <2>2. new = [out EXCEPT ![p] = to]
    BY <2>1 DEF Raised
  <2>3. out[p] \in AFinding
    BY <1>1
  <2>4. KeyOf(to) = KeyOf(out[p]) /\ to.severity = s
    BY <2>3, KeyKept
  <2>5. Rank(s) >= Rank(f.severity) /\ Rank(s) >= Rank(out[p].severity) /\ (s = f.severity \/ s = out[p].severity)
    BY <1>1, <2>3, SevereIn
  <2> HIDE DEF s, to
  <2>6. DOMAIN new = DOMAIN out /\ new[p] = to /\ \A i \in DOMAIN out : i # p => new[i] = out[i]
    BY <1>1, <2>2
  <2>7. \A i \in DOMAIN out : KeyOf(new[i]) = KeyOf(out[i])
    BY <2>4, <2>6
  <2>8. OneEach(new)
    BY <1>4, <2>6, <2>7 DEF OneEach
  <2>9. AllIn(said, m, new)
    <3> SUFFICES ASSUME NEW k \in 1 .. m
                 PROVE  \E i \in DOMAIN new :
                          KeyOf(new[i]) = KeyOf(said[k]) /\ Rank(new[i].severity) >= Rank(said[k].severity)
      BY DEF AllIn
    <3>1. CASE k = m
      <4>1. KeyOf(new[p]) = KeyOf(said[k]) /\ Rank(new[p].severity) >= Rank(said[k].severity)
        BY <2>1, <2>4, <2>5, <2>6, <3>1 DEF f
      <4> QED
        BY <1>1, <2>6, <4>1
    <3>2. CASE k \in 1 .. m - 1
      <4>1. PICK i \in DOMAIN out : KeyOf(out[i]) = KeyOf(said[k]) /\ Rank(out[i].severity) >= Rank(said[k].severity)
        BY <1>4, <3>2 DEF AllIn
      <4>2. Rank(new[i].severity) >= Rank(out[i].severity)
        <5>1. CASE i = p
          BY <2>4, <2>5, <2>6, <5>1
        <5>2. CASE i # p
          <6>1. out[i] \in AFinding
            BY <1>1
          <6> QED
            BY <2>6, <5>2, <6>1, SevereIn
        <5> QED
          BY <5>1, <5>2
      <4>3. Rank(said[k].severity) \in Nat /\ Rank(out[i].severity) \in Nat /\ Rank(new[i].severity) \in Nat
        <5>1. said[k] \in AFinding /\ out[i] \in AFinding
          BY <1>1, <1>3
        <5>2. new[i].severity = out[i].severity \/ new[i].severity = f.severity
          BY <2>4, <2>5, <2>6
        <5> QED
          BY <1>1, <5>1, <5>2, SevereIn
      <4>4. Rank(new[i].severity) >= Rank(said[k].severity)
        BY <4>1, <4>2, <4>3
      <4> QED
        BY <2>6, <2>7, <4>1, <4>4
    <3> QED
      BY <1>3, <3>1, <3>2
  <2>10. SevereAs(said, m, new)
    <3> SUFFICES ASSUME NEW i \in DOMAIN out
                 PROVE  \E k \in 1 .. m : KeyOf(said[k]) = KeyOf(new[i]) /\ said[k].severity = new[i].severity
      BY <2>6 DEF SevereAs
    <3>1. CASE new[i].severity = out[i].severity
      <4>1. PICK k \in 1 .. m - 1 : KeyOf(said[k]) = KeyOf(out[i]) /\ said[k].severity = out[i].severity
        BY <1>4 DEF SevereAs
      <4> QED
        BY <1>3, <2>7, <3>1, <4>1
    <3>2. CASE new[i].severity # out[i].severity
      <4>1. i = p /\ new[i].severity = f.severity
        BY <2>4, <2>5, <2>6, <3>2
      <4> QED
        BY <1>3, <2>1, <2>7, <4>1 DEF f
    <3> QED
      BY <3>1, <3>2
  <2>11. FirstOf(said, m, new)
    <3> SUFFICES ASSUME NEW i \in DOMAIN out
                 PROVE  \E k \in 1 .. m : /\ new[i] = [said[k] EXCEPT !.severity = new[i].severity]
                                          /\ \A l \in 1 .. k - 1 : KeyOf(said[l]) # KeyOf(said[k])
      BY <2>6 DEF FirstOf
    <3>1. PICK k \in 1 .. m - 1 : /\ out[i] = [said[k] EXCEPT !.severity = out[i].severity]
                                  /\ \A l \in 1 .. k - 1 : KeyOf(said[l]) # KeyOf(said[k])
      BY <1>4 DEF FirstOf
    <3>2. new[i] = [said[k] EXCEPT !.severity = new[i].severity]
      <4>1. CASE i = p
        <5>1. new[i] = [out[i] EXCEPT !.severity = s] /\ new[i].severity = s
          BY <2>4, <2>6, <4>1 DEF to
        <5>2. \A t : [[said[k] EXCEPT !.severity = t] EXCEPT !.severity = s] = [said[k] EXCEPT !.severity = s]
          OBVIOUS
        <5> QED
          BY <3>1, <5>1, <5>2
      <4>2. CASE i # p
        BY <2>6, <3>1, <4>2
      <4> QED
        BY <4>1, <4>2
    <3> QED
      BY <1>3, <3>1, <3>2
  <2> QED
    BY <2>8, <2>9, <2>10, <2>11 DEF Deduped, new, f
<1> QED
  BY <1>2, <1>5, <1>6 DEF MergesTo, len

(* Dedupe (internal/finding/dedupe.go) leaves no two findings that say the *)
(* same, drops none that says something else, gives each the highest       *)
(* severity it was found with, and keeps the rest of the finding that came *)
(* first. For any findings.                                                *)
THEOREM DedupeSaysOnce ==
  ASSUME NEW said \in Seq(AFinding)
  PROVE  Deduped(said, Len(said), Dedupe(said))
<1> DEFINE len == Len(said)
<1>1. len \in Nat
  BY LenProperties
<1>2. PICK g \in [0 .. len -> Seq(AFinding)] : Dedupes(said, g)
  BY FindingsBlend, DedupeSteps
<1> DEFINE T == {k \in 0 .. len : Deduped(said, k, g[k])}
<1>3. 0 \in T
  <2>1. g[0] = << >> /\ 0 \in 0 .. len
    BY <1>1, <1>2 DEF Dedupes
  <2>2. DOMAIN << >> = {} /\ 1 .. 0 = {}
    OBVIOUS
  <2>3. Deduped(said, 0, << >>)
    BY <2>2 DEF Deduped, OneEach, AllIn, SevereAs, FirstOf
  <2> QED
    BY <2>1, <2>3
<1>4. ASSUME NEW k \in 1 .. len, k - 1 \in T
      PROVE  k \in T
  <2>1. k - 1 \in 0 .. len /\ k \in 0 .. len
    BY <1>1
  <2>2. g[k - 1] \in Seq(AFinding) /\ Deduped(said, k - 1, g[k - 1])
    BY <1>2, <1>4, <2>1
  <2>3. g[k] = Merge(g[k - 1], said[k])
    BY <1>2 DEF Dedupes
  <2> QED
    BY <2>1, <2>2, <2>3, DedupedNext
<1>5. \A k \in 0 .. len : k \in T
  <2> HIDE DEF T
  <2> QED
    BY <1>1, <1>3, <1>4, SetInduction
<1>6. len \in 0 .. len /\ g[len] = Dedupe(said)
  BY <1>1, <1>2 DEF Dedupes
<1>7. len \in T
  <2> HIDE DEF T
  <2> QED
    BY <1>5, <1>6
<1> QED
  BY <1>6, <1>7

-----------------------------------------------------------------------------
(* How often an entry is in a sequence that gets longer.                   *)
LEMMA TimesNext ==
  ASSUME NEW S, NEW s \in Seq(S), NEW f, NEW k
  PROVE  /\ Times(s, k) \in Nat
         /\ Times(Append(s, f), k) = IF SnapshotKey(f.rule, f.file, f.message) = k THEN Times(s, k) + 1 ELSE Times(s, k)
<1> DEFINE len == Len(s)
           t == Append(s, f)
           earlier == {i \in DOMAIN s : KeyIn(s, i) = k}
           after == {i \in DOMAIN t : KeyIn(t, i) = k}
<1>1. len \in Nat /\ DOMAIN s = 1 .. len
  BY LenProperties
<1>2. DOMAIN t = 1 .. len + 1 /\ t[len + 1] = f /\ \A i \in 1 .. len : t[i] = s[i]
  <2> DEFINE U == S \union {f}
  <2>1. s \in Seq(U) /\ f \in U
    BY SeqMonotonic
  <2> HIDE DEF U
  <2>2. t \in Seq(U) /\ Len(t) = len + 1
    BY <2>1, AppendProperties
  <2> QED
    BY <1>1, <2>1, <2>2, AppendProperties, LenProperties
<1> HIDE DEF t, len
<1>3. \A i \in 1 .. len : KeyIn(t, i) = KeyIn(s, i)
  BY <1>2 DEF KeyIn
<1>4. KeyIn(t, len + 1) = SnapshotKey(f.rule, f.file, f.message)
  BY <1>2 DEF KeyIn
<1>5. /\ \A i \in 1 .. len + 1 : i \in 1 .. len \/ i = len + 1
      /\ \A i \in 1 .. len : i \in 1 .. len + 1
      /\ len + 1 \in 1 .. len + 1 /\ len + 1 \notin 1 .. len
  BY <1>1
<1>6. after = IF SnapshotKey(f.rule, f.file, f.message) = k THEN earlier \union {len + 1} ELSE earlier
  BY <1>1, <1>2, <1>3, <1>4, <1>5
<1>7. IsFiniteSet(earlier) /\ len + 1 \notin earlier
  <2>1. IsFiniteSet(1 .. len)
    BY <1>1, FS_Interval
  <2> QED
    BY <1>1, <1>5, <2>1, FS_Subset
<1> HIDE DEF earlier, after
<1>8. Cardinality(earlier) \in Nat /\ Cardinality(earlier \union {len + 1}) = Cardinality(earlier) + 1
  BY <1>7, FS_CardinalityType, FS_AddElement
<1> QED
  BY <1>6, <1>8 DEF Times, earlier, after, t

More(a, b) == IF a > b THEN a - b ELSE 0

(* With a snapshot (--new-only, filterNewOnly), of the findings that say   *)
(* the same in a file as many are reported as there are more of than the   *)
(* snapshot has. For any findings and any snapshot.                        *)
THEOREM NewOnlyCounts ==
  ASSUME NEW S, NEW list \in Seq(S), NEW snapshot \in Seq(S), NEW k
  PROVE  Times(FilterNewOnly(snapshot, list), k) = More(Times(list, k), Times(snapshot, k))
<1> DEFINE len == Len(list)
           places == {i \in DOMAIN list :
                        Times(SubSeq(list, 1, i), KeyIn(list, i)) > Times(snapshot, KeyIn(list, i))}
           known == Times(snapshot, k)
<1>1. len \in Nat /\ DOMAIN list = 1 .. len /\ known \in Nat /\ \A i \in 1 .. len : list[i] \in S
  <2>1. len \in Nat /\ DOMAIN list = 1 .. len /\ \A i \in 1 .. len : list[i] \in S
    BY ElementOfSeq, LenProperties
  <2> QED
    BY <2>1, TimesNext
<1>2. FilterNewOnly(snapshot, list) = Kept(list, places)
  BY DEF FilterNewOnly
<1> HIDE DEF known
<1>3. PICK g \in [0 .. len -> Seq(S)] : Keeps(list, places, g)
  <2> HIDE DEF places
  <2> QED
    BY KeptSteps
<1>4. /\ g[0] = << >> /\ Kept(list, places) = g[len]
      /\ \A i \in 1 .. len : g[i] = IF i \in places THEN Append(g[i - 1], list[i]) ELSE g[i - 1]
  BY <1>3 DEF Keeps
<1> DEFINE So(i) == Times(SubSeq(list, 1, i), k)
           T == {i \in 0 .. len : Times(g[i], k) = More(So(i), known)}
<1>5. ASSUME NEW i \in 1 .. len
      PROVE  /\ SubSeq(list, 1, i) = Append(SubSeq(list, 1, i - 1), list[i])
             /\ SubSeq(list, 1, i - 1) \in Seq(S)
  <2> DEFINE u == SubSeq(list, 1, i - 1)
             v == SubSeq(list, 1, i)
  <2>1. i - 1 \in 0 .. len /\ i \in Nat /\ i - 1 \in Nat
    BY <1>1
  <2>2. u \in Seq(S) /\ Len(u) = i - 1 /\ v \in Seq(S) /\ Len(v) = i
        /\ (\A j \in 1 .. i - 1 : u[j] = list[j]) /\ (\A j \in 1 .. i : v[j] = list[j])
    <3>1. /\ i \in Int /\ i - 1 \in Int /\ 1 \in Int
          /\ \A j \in 1 .. i : list[j] \in S /\ 1 + j - 1 = j
          /\ \A j \in 1 .. i - 1 : list[j] \in S /\ 1 + j - 1 = j
      BY <1>1, <2>1
    <3>2. v \in Seq(S) /\ Len(v) = (IF 1 <= i THEN i - 1 + 1 ELSE 0) /\ \A j \in 1 .. i - 1 + 1 : v[j] = list[1 + j - 1]
      BY <3>1, SubSeqProperties
    <3>3. u \in Seq(S) /\ Len(u) = (IF 1 <= i - 1 THEN i - 1 - 1 + 1 ELSE 0)
          /\ \A j \in 1 .. i - 1 - 1 + 1 : u[j] = list[1 + j - 1]
      BY <3>1, SubSeqProperties
    <3> HIDE DEF u, v
    <3>4. i - 1 + 1 = i /\ i - 1 - 1 + 1 = i - 1
      BY <2>1
    <3> QED
      BY <2>1, <3>1, <3>2, <3>3, <3>4
  <2> HIDE DEF u, v
  <2> DEFINE w == Append(u, list[i])
  <2>3. w \in Seq(S) /\ Len(w) = i /\ w[i] = list[i] /\ \A j \in 1 .. i - 1 : w[j] = u[j]
    <3>1. list[i] \in S /\ i - 1 + 1 = i
      BY <1>1, <2>1
    <3> QED
      BY <2>2, <3>1, AppendProperties
  <2> HIDE DEF w
  <2>4. ASSUME NEW j \in 1 .. i PROVE v[j] = w[j]
    <3>1. CASE j = i
      BY <2>2, <2>3, <3>1
    <3>2. CASE j # i
      <4>1. j \in 1 .. i - 1
        BY <2>1, <3>2
      <4> QED
        BY <2>2, <2>3, <4>1
    <3> QED
      BY <3>1, <3>2
  <2>5. v = w
    BY <2>2, <2>3, <2>4, SeqEqual
  <2> QED
    BY <2>2, <2>5 DEF u, v, w
<1>6. ASSUME NEW i \in 0 .. len PROVE g[i] \in Seq(S) /\ Times(g[i], k) \in Nat /\ So(i) \in Nat
  <2>1. g[i] \in Seq(S)
    BY <1>3
  <2>2. SubSeq(list, 1, i) \in Seq(S)
    <3>1. i \in Int /\ 1 \in Int /\ \A j \in 1 .. i : list[j] \in S
      BY <1>1
    <3> QED
      BY <3>1, SubSeqProperties
  <2> QED
    BY <2>1, <2>2, TimesNext
<1>7. 0 \in T
  <2>1. 0 \in 0 .. len /\ g[0] = << >>
    BY <1>1, <1>4
  <2>2. SubSeq(list, 1, 0) = << >>
    BY SubSeqEmpty
  <2>3. Times(<< >>, k) = 0
    <3>1. {i \in DOMAIN << >> : KeyIn(<< >>, i) = k} = {}
      OBVIOUS
    <3> QED
      BY <3>1, FS_EmptySet DEF Times
  <2>4. So(0) = 0 /\ Times(g[0], k) = 0
    BY <2>1, <2>2, <2>3
  <2>5. More(0, known) = 0
    BY <1>1 DEF More
  <2> QED
    BY <2>1, <2>4, <2>5
<1>8. ASSUME NEW i \in 1 .. len, i - 1 \in T
      PROVE  i \in T
  <2> DEFINE key == SnapshotKey(list[i].rule, list[i].file, list[i].message)
  <2>1. i - 1 \in 0 .. len /\ i \in 0 .. len /\ KeyIn(list, i) = key
    BY <1>1 DEF KeyIn
  <2>2. So(i) = IF key = k THEN So(i - 1) + 1 ELSE So(i - 1)
    <3> DEFINE u == SubSeq(list, 1, i - 1)
               v == SubSeq(list, 1, i)
               f == list[i]
    <3>1. u \in Seq(S) /\ v = Append(u, f)
      BY <1>5
    <3> HIDE DEF u, v, f
    <3>2. Times(Append(u, f), k) = IF SnapshotKey(f.rule, f.file, f.message) = k THEN Times(u, k) + 1 ELSE Times(u, k)
      BY <3>1, TimesNext
    <3> QED
      BY <3>1, <3>2 DEF u, v, f
  <2>3. Times(g[i - 1], k) = More(So(i - 1), known)
    BY <1>8
  <2>4. Times(g[i], k) = IF key = k /\ So(i) > known THEN Times(g[i - 1], k) + 1 ELSE Times(g[i - 1], k)
    <3>1. i \in places <=> Times(SubSeq(list, 1, i), key) > Times(snapshot, key)
      BY <1>1, <2>1
    <3>2. Times(Append(g[i - 1], list[i]), k) = IF key = k THEN Times(g[i - 1], k) + 1 ELSE Times(g[i - 1], k)
      BY <1>6, <2>1, TimesNext
    <3> HIDE DEF key, places
    <3>3. key = k => (i \in places <=> So(i) > known)
      BY <3>1 DEF known
    <3> QED
      BY <1>4, <3>2, <3>3
  <2>5. So(i - 1) \in Nat /\ So(i) \in Nat /\ Times(g[i - 1], k) \in Nat
    BY <1>6, <2>1
  <2> HIDE DEF So, key
  <2>6. Times(g[i], k) = More(So(i), known)
    BY <1>1, <2>2, <2>3, <2>4, <2>5 DEF More
  <2> QED
    BY <2>1, <2>6 DEF So
<1>9. \A i \in 0 .. len : i \in T
  <2> HIDE DEF T
  <2> QED
    BY <1>1, <1>7, <1>8, SetInduction
<1>10. SubSeq(list, 1, len) = list
  BY SubSeqFull
<1>11. len \in 0 .. len
  BY <1>1
<1>12. Times(g[len], k) = More(So(len), known)
  <2> HIDE DEF So
  <2> QED
    BY <1>9, <1>11
<1> QED
  BY <1>2, <1>4, <1>10, <1>12 DEF known
=============================================================================
