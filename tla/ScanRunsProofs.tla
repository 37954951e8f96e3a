---------------------------- MODULE ScanRunsProofs ----------------------------
(***************************************************************************)
(* The inductive invariant of ScanRuns, for every number of runs, files,   *)
(* rules, problems and targets: where each run is in its loops, what it    *)
(* has found by then and why, and what the last baseline accepts.  After   *)
(* it what the invariant says of the properties: what a comment, an entry  *)
(* and an exit code of 0 mean, what --generate-ignore keeps and accepts,   *)
(* and what --new-only reports.                                            *)
(***************************************************************************)
EXTENDS ScanRuns, SequenceFacts, FiniteSetTheorems, TLAPS

-----------------------------------------------------------------------------
(* The inductive invariant. *)

(* The targets a run has done with. *)
Passed(r) == Len(r.targets) - Len(r.left)

(* The documents of the pipeline a run is at that it has checked.          *)
Now(r) == Pipeline[Head(r.left)]
Checked(r) == {Now(r)[i] : i \in 1 .. Len(Now(r)) - Len(r.docs)}

(* Where a run is in its loops, and what its step and exit code say.       *)
Progress(r) ==
  /\ r.included \subseteq r.scanned
  /\ \A i, j \in DOMAIN r.targets : r.targets[i] = r.targets[j] => i = j
  /\ Len(r.left) <= Len(r.targets)
  /\ \A i \in 1 .. Len(r.left) : r.left[i] = r.targets[Passed(r) + i]
  /\ r.at = "document" =>
       /\ r.left # << >>
       /\ Len(r.docs) <= Len(Now(r))
       /\ \A i \in 1 .. Len(r.docs) : r.docs[i] = Now(r)[Len(Now(r)) - Len(r.docs) + i]
  /\ r.at \in {"write", "torn"} => r.mode = "generate" /\ r.left = << >> /\ ~r.errors
  /\ r.at = "done" /\ r.exit # 2 => r.left = << >> /\ ~r.errors
  /\ r.at = "done" /\ r.exit = 0 /\ r.mode \in {"scan", "audit"} =>
       \A pair \in r.all : pair[2].rule \notin Failing

(* A finding of the rules on a document of target t.                       *)
SeenAt(t, f, r) ==
  /\ f.rule \in r.rules /\ f.file \in r.scanned
  /\ \E d \in ToSet(Pipeline[t]) : d.file = f.file /\ (f.rule \in RootRule => ~d.included)

Scope(r) ==
  /\ IsFiniteSet(r.all)
  /\ \A pair \in r.all :
       /\ SeenAt(pair[1], pair[2], r)
       /\ \E i \in 1 .. Passed(r) :
            /\ r.targets[i] = pair[1]
            /\ pair[1] \in r.included =>
                 \E j \in i .. Len(r.targets) : pair[1] \in Included(Pipeline[r.targets[j]])
  /\ r.at = "document" =>
       /\ IsFiniteSet(r.found)
       /\ \A f \in r.found : SeenAt(Head(r.left), f, r)
       /\ Files(Now(r)) \subseteq r.scanned /\ Included(Now(r)) \subseteq r.included
       /\ Head(r.left) \in r.included => Head(r.left) \in Included(Now(r))

(* No comment and no entry that is in force covers the finding: now, and   *)
(* since a run for which the number of changes of .glsec-ignore was n.     *)
Uncovered(f) ==
  /\ ~AtItsTemplate(f)
  /\ IF Matching(f) = {} THEN ~Commented(f.rule, f.file, f.line, today)
     ELSE Expired(ignore[Max(Matching(f))])

UncoveredSince(f, n) ==
  /\ ~AtItsTemplate(f)
  /\ Commented(f.rule, f.file, f.line, today) =>
       \E e \in HeldSince(n) : e.rule = f.rule /\ e.file = f.file /\ e.line = f.line /\ Expired(e)

Unanswered(f, r) == UncoveredSince(f, r.writes) /\ (r.writes = writes => Uncovered(f))

Reasoned(r) ==
  r.mode = "scan" /\ r.edits = edits =>
    /\ r.at = "document" => \A f \in r.found : Unanswered(f, r)
    /\ \A pair \in r.all : Unanswered(pair[2], r)

(* What the rules find on the documents of a target. *)
AllFound(d, rules) == OwnFindings(d, rules) \cup MovedFindings(d, rules)
FoundAt(docs, rules) == UNION {AllFound(d, rules) : d \in docs}

(* A comment or an entry can have kept the finding from being reported.    *)
Silent(f, r) ==
  /\ r.mode \in {"scan", "newonly"}
  /\ \/ f.origin # None /\ Commented(f.rule, f.origin.file, f.origin.line, r.day)
     \/ Commented(f.rule, f.file, f.line, r.day)
     \/ r.mode = "scan" /\ Excused(f.rule, f.file, f.line, r)

Judged(r, docs, found) ==
  /\ found \subseteq FoundAt(docs, r.rules)
  /\ \A f \in FoundAt(docs, r.rules) : f \in found \/ Silent(f, r)

(* The targets, by number, that are scanned if none fails: those that no   *)
(* scanned one before includes.                                            *)
Consistent(targets, n, scanned) ==
  /\ scanned \subseteq 1 .. n
  /\ \A i \in 1 .. n :
       i \in scanned <=> \A j \in scanned : j < i => targets[i] \notin Included(Pipeline[targets[j]])

Done(r, i) ==
  \E found \in SUBSET FoundAt(ToSet(Pipeline[r.targets[i]]), r.rules) :
    /\ Judged(r, ToSet(Pipeline[r.targets[i]]), found)
    /\ {r.targets[i]} \X Deduped(Pipeline[r.targets[i]], found) \subseteq r.all

FromTarget(r, i, pair) ==
  /\ pair[1] = r.targets[i]
  /\ \E found \in SUBSET FoundAt(ToSet(Pipeline[r.targets[i]]), r.rules) :
       /\ Judged(r, ToSet(Pipeline[r.targets[i]]), found)
       /\ pair[2] \in Deduped(Pipeline[r.targets[i]], found)

(* --new-only has taken the old findings away. *)
Filtered(r) == r.mode = "newonly" /\ r.at = "done"

(* The targets that a run without errors has scanned so far.               *)
Walk(r, scanned) ==
  /\ Consistent(r.targets, Passed(r), scanned)
  /\ \A i \in scanned : /\ Included(Pipeline[r.targets[i]]) \subseteq r.included
                        /\ Files(Pipeline[r.targets[i]]) \subseteq r.scanned
  /\ \A f \in r.included :
       \/ \E i \in scanned : f \in Included(Pipeline[r.targets[i]])
       \/ r.at = "document" /\ f \in Included(Now(r))
  /\ \A f \in r.scanned :
       \/ \E i \in scanned : f \in Files(Pipeline[r.targets[i]])
       \/ r.at = "document" /\ f \in Files(Now(r))
  /\ r.at = "document" => \A i \in scanned : Head(r.left) \notin Included(Pipeline[r.targets[i]])

(* As long as nobody changes the files it has found everything there.      *)
Finds(r, scanned) ==
  /\ ~Filtered(r) => \A i \in scanned : Done(r, i)
  /\ \A pair \in r.all : \E i \in scanned : FromTarget(r, i, pair)

Thorough(r) ==
  r.at # "idle" /\ ~r.errors =>
    /\ \E scanned \in SUBSET (1 .. Passed(r)) :
         Walk(r, scanned) /\ (r.edits = edits => Finds(r, scanned))
    /\ r.at = "document" /\ r.edits = edits => Judged(r, Checked(r), r.found)

(* No two lines that can be read back are for the same place and rule.     *)
Apart(entries) ==
  \A i, j \in DOMAIN entries :
    /\ Legible(entries[i])
    /\ entries[i].file = entries[j].file /\ entries[i].line = entries[j].line
    /\ entries[i].rule = entries[j].rule
    => i = j

Counted(r) == r.edits <= edits /\ r.writes <= writes /\ r.day <= today

(* The baseline accepts what a run without errors found. *)
BasisRight ==
  basis # None =>
    /\ basis.edits <= edits /\ basis.writes <= writes
    /\ basis.edits = edits /\ basis.writes = writes =>
         \E scanned \in SUBSET (1 .. Len(basis.targets)) :
           /\ Consistent(basis.targets, Len(basis.targets), scanned)
           /\ \A i \in scanned :
                \A f \in Deduped(Pipeline[basis.targets[i]],
                                FoundAt(ToSet(Pipeline[basis.targets[i]]), basis.rules)) :
                  AcceptedAt(f.rule, f.file, f.line)

RunInv(r) == Progress(r) /\ Scope(r) /\ Apart(r.old) /\ Counted(r) /\ Reasoned(r) /\ Thorough(r)

(* The entries are among those that are remembered for a scan. *)
Scanning == \E p \in Proc : run[p].mode \in {"scan", "audit"}
Remembering == Scanning => {writes} \X ToSet(ignore) \subseteq held

IInv ==
  /\ TypeOK
  /\ \A p \in Proc : RunInv(run[p])
  /\ Remembering
  /\ Apart(ignore)
  /\ BasisRight

-----------------------------------------------------------------------------
(* Numbers, sets and the lines that are written. *)

(* Max of a finite set of numbers is its last element. *)
LEMMA MaxOf ==
  ASSUME NEW n \in Nat, NEW S \in SUBSET (1 .. n), S # {}
  PROVE  Max(S) \in S
<1> DEFINE T == {n - x : x \in S}
<1>0. S \subseteq Nat /\ T \subseteq Nat /\ T # {}
  <2>1. \A x \in S : x \in 1 .. n
    OBVIOUS
  <2>2. \A x \in S : x \in Nat /\ n - x \in Nat
    BY <2>1
  <2> QED
    BY <2>2
<1>1. PICK m \in T : \A k \in T : m <= k
  BY <1>0, LeastNat
<1>2. PICK x \in S : m = n - x
  BY <1>1
<1>3. \A y \in S : n - x <= n - y
  BY <1>1, <1>2
<1>4. \A y \in S : x >= y
  BY <1>0, <1>3
<1> QED
  BY <1>4 DEF Max

(* SetToSeq lists each element of a finite set once. *)
LEMMA SetToSeqOf ==
  ASSUME NEW S, IsFiniteSet(S)
  PROVE  /\ SetToSeq(S) \in [1 .. Cardinality(S) -> S]
         /\ Cardinality(S) \in Nat
         /\ \A x \in S : \E i \in 1 .. Cardinality(S) : SetToSeq(S)[i] = x
         /\ \A i, j \in 1 .. Cardinality(S) : SetToSeq(S)[i] = SetToSeq(S)[j] => i = j
<1> DEFINE n == Cardinality(S)
<1>1. n \in Nat /\ ExistsBijection(1 .. n, S)
  BY FS_CardinalityType
<1>2. PICK g \in Bijection(1 .. n, S) : TRUE
  BY <1>1 DEF ExistsBijection
<1>3. g \in [1 .. n -> S] /\ IsInjective(g)
  BY <1>2 DEF Bijection, Injection, IsInjective
<1>4. SetToSeq(S) \in [1 .. n -> S] /\ IsInjective(SetToSeq(S))
  BY <1>3 DEF SetToSeq
<1>5. SetToSeq(S) \in Injection(1 .. n, S)
  BY <1>4 DEF Injection, IsInjective
<1>6. Cardinality(1 .. n) = n
  BY <1>1, FS_Interval
<1>7. SetToSeq(S) \in Surjection(1 .. n, S)
  BY <1>5, <1>6, FS_Injection
<1>8. \A x \in S : \E i \in 1 .. n : SetToSeq(S)[i] = x
  BY <1>7 DEF Surjection
<1>9. \A i, j \in 1 .. n : SetToSeq(S)[i] = SetToSeq(S)[j] => i = j
  BY <1>4 DEF IsInjective
<1> QED
  BY <1>1, <1>4, <1>8, <1>9

(* Counting the numbers of a set up to each of them counts the set.        *)
LEMMA RankOf ==
  ASSUME NEW m \in Nat, NEW S \in SUBSET (1 .. m)
  PROVE  /\ IsFiniteSet(S) /\ Cardinality(S) \in Nat
         /\ \A i \in S : Rank(i, S) \in 1 .. Cardinality(S)
         /\ \A i, j \in S : Rank(i, S) = Rank(j, S) => i = j
         /\ \A n \in 1 .. Cardinality(S) : \E i \in S : Rank(i, S) = n
<1> DEFINE c == Cardinality(S)
           upto(i) == {j \in S : j <= i}
<1>0. S \subseteq Nat /\ S \in SUBSET (1 .. m) /\ IsFiniteSet(1 .. m)
  BY FS_Interval
<1>1. IsFiniteSet(S) /\ c \in Nat
  BY <1>0, FS_Subset, FS_CardinalityType
<1>2. ASSUME NEW i \in S
      PROVE  IsFiniteSet(upto(i)) /\ Rank(i, S) \in 1 .. c
  <2>1. IsFiniteSet(upto(i)) /\ Cardinality(upto(i)) <= c
    BY <1>1, FS_Subset
  <2>2. Cardinality(upto(i)) \in Nat /\ upto(i) # {}
    BY <2>1, FS_CardinalityType
  <2>3. Cardinality(upto(i)) # 0
    BY <2>1, <2>2, FS_EmptySet
  <2> QED
    BY <1>1, <2>1, <2>2, <2>3 DEF Rank
<1>3. ASSUME NEW i \in S, NEW j \in S, Rank(i, S) = Rank(j, S), i < j
      PROVE  FALSE
  <2>0. i \in Nat /\ j \in Nat
    BY <1>0
  <2>1. upto(i) \in SUBSET upto(j) /\ j \in upto(j) /\ j \notin upto(i)
    <3>1. \A k \in S : k \in Nat /\ (k <= i => k <= j)
      BY <1>0, <1>3, <2>0
    <3>4. j <= j
      BY <2>0
    <3>2. upto(i) \subseteq upto(j) /\ j \in upto(j)
      BY <3>1, <3>4, Zenon
    <3>3. j \notin upto(i)
      BY <1>3, <2>0
    <3> QED
      BY <3>2, <3>3
  <2>2. upto(i) = upto(j)
    BY <1>2, <1>3, <2>1, FS_Subset DEF Rank
  <2> QED
    BY <2>1, <2>2
<1>4. \A i, j \in S : Rank(i, S) = Rank(j, S) => i = j
  BY <1>0, <1>3
<1> DEFINE f == [i \in S |-> Rank(i, S)]
<1>5. f \in Injection(S, 1 .. c)
  BY <1>2, <1>4 DEF Injection, IsInjective
<1>6. IsFiniteSet(1 .. c) /\ Cardinality(1 .. c) = c
  BY <1>1, FS_Interval
<1>7. f \in Surjection(S, 1 .. c)
  BY <1>5, <1>6, FS_Injection
<1> HIDE DEF c
<1>8. \A n \in 1 .. c : \E i \in S : f[i] = n
  BY <1>7 DEF Surjection
<1> QED
  BY <1>1, <1>2, <1>4, <1>8 DEF c

(* The lines that stay are those that are not covered, each once. *)
LEMMA KeptOf ==
  ASSUME NEW r, r.old \in Seq(Entry)
  PROVE  /\ Kept(r) \in Seq(Entry)
         /\ \A i \in Rest(r) : \E n \in DOMAIN Kept(r) : Kept(r)[n] = r.old[i]
         /\ \A n \in DOMAIN Kept(r) : \E i \in Rest(r) : Kept(r)[n] = r.old[i] /\ Rank(i, Rest(r)) = n
<1> DEFINE S == Rest(r)
           c == Cardinality(S)
           nth(n) == CHOOSE i \in S : Rank(i, S) = n
<1>0. \A i \in S : r.old[i] \in Entry
  BY DEF Rest
<1>1. Len(r.old) \in Nat /\ S \in SUBSET (1 .. Len(r.old)) /\ DOMAIN r.old = 1 .. Len(r.old)
  BY DEF Rest
<1>2. /\ c \in Nat
      /\ \A i \in S : Rank(i, S) \in 1 .. c
      /\ \A i, j \in S : Rank(i, S) = Rank(j, S) => i = j
      /\ \A n \in 1 .. c : \E i \in S : Rank(i, S) = n
  BY <1>1, RankOf
<1>3. \A n \in 1 .. c : nth(n) \in S /\ Rank(nth(n), S) = n
  BY <1>2
<1>4. \A i \in S : nth(Rank(i, S)) = i
  BY <1>2, <1>3
<1>5. Kept(r) = [n \in 1 .. c |-> r.old[nth(n)]]
  BY DEF Kept
<1> HIDE DEF S, nth
<1>6. \A n \in 1 .. c : r.old[nth(n)] \in Entry
  BY <1>0, <1>3
<1>7. Kept(r) \in Seq(Entry) /\ DOMAIN Kept(r) = 1 .. c
  BY <1>2, <1>5, <1>6 DEF c
<1>8. \A i \in S : \E n \in DOMAIN Kept(r) : Kept(r)[n] = r.old[i]
  BY <1>2, <1>4, <1>5, <1>7
<1>9. \A n \in 1 .. c : Kept(r)[n] = r.old[nth(n)]
  BY <1>5
<1>10. \A n \in DOMAIN Kept(r) : \E i \in S : Kept(r)[n] = r.old[i] /\ Rank(i, S) = n
  BY <1>3, <1>7, <1>9
<1> QED
  BY <1>7, <1>8, <1>10 DEF S
-----------------------------------------------------------------------------
(* What --generate-ignore writes. *)

LEMMA PlacesFinite ==
  ASSUME NEW r, IsFiniteSet(r.all)
  PROVE  IsFiniteSet({Lines(r, place) : place \in FoundPlaces(r)})
<1> DEFINE at(pair) == [file |-> pair[2].file, line |-> pair[2].line, rule |-> pair[2].rule]
           S == {Lines(r, place) : place \in FoundPlaces(r)}
           f == [pair \in r.all |-> Lines(r, at(pair))]
<1>1. FoundPlaces(r) = {at(pair) : pair \in r.all}
  BY DEF FoundPlaces
<1> HIDE DEF at
<1>2. S = {Lines(r, at(pair)) : pair \in r.all}
  BY <1>1
<1>3. f \in Surjection(r.all, S)
  BY <1>2 DEF Surjection
<1> QED
  BY <1>3, FS_Surjection

(* The line that is written for a finding is an entry for its place. *)
LEMMA LinesOf ==
  ASSUME NEW r, r.old \in Seq(Entry), r.all \subseteq File \X Finding, NEW place \in FoundPlaces(r)
  PROVE  LET e == Lines(r, place)
         IN  e \in Entry /\ e.file = place.file /\ e.line = place.line /\ e.rule = place.rule
<1> DEFINE before == {i \in DOMAIN r.old :
                        /\ Covered(r, r.old[i])
                        /\ r.old[i].file = place.file /\ r.old[i].line = place.line
                        /\ r.old[i].rule = place.rule}
<1>1. CASE before = {}
  <2>1. Lines(r, place) = [file |-> place.file, line |-> place.line, rule |-> place.rule, until |-> Never]
    BY <1>1 DEF Lines
  <2>2. PICK pair \in r.all :
          place = [file |-> pair[2].file, line |-> pair[2].line, rule |-> pair[2].rule]
    BY DEF FoundPlaces
  <2>3. pair[2] \in Finding
    BY <2>2
  <2>4. place.file \in File /\ place.line \in Nat /\ place.rule \in Rule
    BY <2>2, <2>3 DEF Finding
  <2> QED
    BY <2>1, <2>4 DEF Entry
<1>2. CASE before # {}
  <2>1. Len(r.old) \in Nat /\ before \in SUBSET (1 .. Len(r.old))
    OBVIOUS
  <2>2. Max(before) \in before
    BY <1>2, <2>1, MaxOf
  <2>3. Lines(r, place) = r.old[Max(before)]
    BY <1>2 DEF Lines
  <2>4. \A i \in before : r.old[i] \in Entry
    BY <2>1
  <2> HIDE DEF before
  <2>5. Lines(r, place) \in Entry
    BY <2>2, <2>3, <2>4
  <2> QED
    BY <2>2, <2>3, <2>5 DEF before
<1> QED
  BY <1>1, <1>2

(* What is written: the lines that stay and one for each place found, and  *)
(* never two that stand for the same place and rule.                       *)
LEMMA NewIgnoreOf ==
  ASSUME NEW r, r.old \in Seq(Entry), r.all \subseteq File \X Finding, IsFiniteSet(r.all),
         Apart(r.old), \A pair \in r.all : pair[2].rule \in r.rules /\ pair[2].file \in r.scanned
  PROVE  /\ NewIgnore(r) \in Seq(Entry)
         /\ Apart(NewIgnore(r))
         /\ \A i \in Rest(r) : r.old[i] \in ToSet(NewIgnore(r))
         /\ \A place \in FoundPlaces(r) : Lines(r, place) \in ToSet(NewIgnore(r))
         /\ \A i \in DOMAIN NewIgnore(r) : Covered(r, NewIgnore(r)[i]) =>
              \E place \in FoundPlaces(r) : NewIgnore(r)[i] = Lines(r, place)
<1> DEFINE S == {Lines(r, place) : place \in FoundPlaces(r)}
           k == Kept(r)
           n == SetToSeq(S)
<1>1. /\ n \in [1 .. Cardinality(S) -> S] /\ Cardinality(S) \in Nat
      /\ \A x \in S : \E i \in 1 .. Cardinality(S) : n[i] = x
      /\ \A i, j \in 1 .. Cardinality(S) : n[i] = n[j] => i = j
  <2>1. IsFiniteSet(S)
    BY PlacesFinite
  <2> HIDE DEF S
  <2> QED
    BY <2>1, SetToSeqOf
<1>2. S \subseteq Entry
  BY LinesOf
<1>3. n \in Seq(Entry) /\ Len(n) = Cardinality(S)
  <2>1. n \in Seq(S)
    BY <1>1
  <2> QED
    BY <1>1, <1>2, <2>1
<1>4. k \in Seq(Entry)
  BY KeptOf
<1>5. NewIgnore(r) = k \o n
  BY DEF NewIgnore
<1>6. /\ NewIgnore(r) \in Seq(Entry)
      /\ Len(NewIgnore(r)) = Len(k) + Len(n)
      /\ \A i \in 1 .. Len(k) : NewIgnore(r)[i] = k[i]
      /\ \A i \in 1 .. Len(n) : NewIgnore(r)[Len(k) + i] = n[i]
  BY <1>3, <1>4, <1>5
<1>7. Len(k) \in Nat /\ DOMAIN k = 1 .. Len(k) /\ Len(n) \in Nat
  BY <1>3, <1>4
<1>8. \A e \in S : Legible(e) => Covered(r, e)
  <2> SUFFICES ASSUME NEW place \in FoundPlaces(r), Legible(Lines(r, place))
               PROVE  Covered(r, Lines(r, place))
    OBVIOUS
  <2>1. Lines(r, place).file = place.file /\ Lines(r, place).rule = place.rule
    BY LinesOf
  <2>2. place.file \in r.scanned /\ place.rule \in r.rules
    BY DEF FoundPlaces
  <2> QED
    BY <2>1, <2>2 DEF Covered
<1>9. ASSUME NEW e \in S, NEW g \in S, e.file = g.file, e.line = g.line, e.rule = g.rule
      PROVE  e = g
  <2>1. PICK x \in FoundPlaces(r) : e = Lines(r, x)
    OBVIOUS
  <2>2. PICK y \in FoundPlaces(r) : g = Lines(r, y)
    OBVIOUS
  <2>3. x.file = y.file /\ x.line = y.line /\ x.rule = y.rule
    BY <1>9, <2>1, <2>2, LinesOf
  <2>4. x = y
    BY <2>3 DEF FoundPlaces
  <2> QED
    BY <2>1, <2>2, <2>4
<1>10. /\ \A i \in Rest(r) : \E j \in DOMAIN k : k[j] = r.old[i]
       /\ \A j \in DOMAIN k : \E i \in Rest(r) : k[j] = r.old[i] /\ Rank(i, Rest(r)) = j
  BY KeptOf
<1>11. \A j \in DOMAIN k : ~Covered(r, k[j])
  BY <1>10 DEF Rest
<1>12. ASSUME NEW i \in DOMAIN k, NEW j \in DOMAIN k, Legible(k[i]),
              k[i].file = k[j].file, k[i].line = k[j].line, k[i].rule = k[j].rule
       PROVE  i = j
  <2>1. PICK x \in Rest(r) : k[i] = r.old[x] /\ Rank(x, Rest(r)) = i
    BY <1>10
  <2>2. PICK y \in Rest(r) : k[j] = r.old[y] /\ Rank(y, Rest(r)) = j
    BY <1>10
  <2>3. x = y
    BY <1>12, <2>1, <2>2 DEF Apart, Rest
  <2> QED
    BY <2>1, <2>2, <2>3
<1> HIDE DEF S, k, n
<1>13. \A i \in DOMAIN NewIgnore(r) :
         \/ i \in DOMAIN k /\ NewIgnore(r)[i] = k[i]
         \/ i - Len(k) \in 1 .. Len(n) /\ NewIgnore(r)[i] = n[i - Len(k)] /\ n[i - Len(k)] \in S
  <2> SUFFICES ASSUME NEW i \in DOMAIN NewIgnore(r), i \notin DOMAIN k
               PROVE  i - Len(k) \in 1 .. Len(n) /\ NewIgnore(r)[i] = n[i - Len(k)] /\ n[i - Len(k)] \in S
    BY <1>6, <1>7
  <2>1. i \in 1 .. Len(k) + Len(n)
    BY <1>6
  <2>2. i - Len(k) \in 1 .. Len(n) /\ Len(k) + (i - Len(k)) = i
    BY <1>7, <2>1
  <2>3. NewIgnore(r)[Len(k) + (i - Len(k))] = n[i - Len(k)]
    BY <1>6, <2>2
  <2> QED
    BY <1>1, <1>3, <2>2, <2>3
<1>14. Apart(NewIgnore(r))
  <2> SUFFICES ASSUME NEW i \in DOMAIN NewIgnore(r), NEW j \in DOMAIN NewIgnore(r),
                      Legible(NewIgnore(r)[i]),
                      NewIgnore(r)[i].file = NewIgnore(r)[j].file,
                      NewIgnore(r)[i].line = NewIgnore(r)[j].line,
                      NewIgnore(r)[i].rule = NewIgnore(r)[j].rule
               PROVE  i = j
    BY DEF Apart
  <2>1. i \in Int /\ j \in Int
    BY <1>6
  <2>2. Legible(NewIgnore(r)[j])
    BY DEF Legible
  <2>3. CASE i \in DOMAIN k /\ NewIgnore(r)[i] = k[i]
    <3>1. j \in DOMAIN k /\ NewIgnore(r)[j] = k[j]
      BY <1>8, <1>11, <1>13, <2>2, <2>3 DEF Covered
    <3> QED
      BY <1>12, <2>3, <3>1
  <2>4. CASE i - Len(k) \in 1 .. Len(n) /\ NewIgnore(r)[i] = n[i - Len(k)] /\ n[i - Len(k)] \in S
    <3>1. j - Len(k) \in 1 .. Len(n) /\ NewIgnore(r)[j] = n[j - Len(k)] /\ n[j - Len(k)] \in S
      BY <1>8, <1>11, <1>13, <2>2, <2>4 DEF Covered
    <3>2. n[i - Len(k)] = n[j - Len(k)]
      BY <1>9, <2>4, <3>1
    <3>3. i - Len(k) = j - Len(k)
      BY <1>1, <1>3, <2>4, <3>1, <3>2
    <3> QED
      BY <1>7, <2>1, <3>3
  <2> QED
    BY <1>13, <2>3, <2>4
<1>15. \A i \in Rest(r) : r.old[i] \in ToSet(NewIgnore(r))
  <2> SUFFICES ASSUME NEW i \in Rest(r)
               PROVE  \E m \in DOMAIN NewIgnore(r) : NewIgnore(r)[m] = r.old[i]
    BY DEF ToSet
  <2>1. PICK j \in DOMAIN k : k[j] = r.old[i]
    BY <1>10
  <2>2. j \in DOMAIN NewIgnore(r) /\ NewIgnore(r)[j] = k[j]
    BY <1>6, <1>7
  <2> QED
    BY <2>1, <2>2
<1>16. \A e \in S : e \in ToSet(NewIgnore(r))
  <2> SUFFICES ASSUME NEW e \in S
               PROVE  \E m \in DOMAIN NewIgnore(r) : NewIgnore(r)[m] = e
    BY DEF ToSet
  <2>1. PICK i \in 1 .. Len(n) : n[i] = e
    BY <1>1, <1>3
  <2>2. Len(k) + i \in DOMAIN NewIgnore(r) /\ NewIgnore(r)[Len(k) + i] = e
    BY <1>6, <1>7, <2>1
  <2> QED
    BY <2>2
<1>17. \A i \in DOMAIN NewIgnore(r) : Covered(r, NewIgnore(r)[i]) => NewIgnore(r)[i] \in S
  BY <1>11, <1>13
<1> QED
  BY <1>6, <1>14, <1>15, <1>16, <1>17 DEF S

-----------------------------------------------------------------------------
(* What every step leaves of a run's facts. *)

(* The entries are as they were, but for dates that were given.            *)
SameEntries ==
  /\ DOMAIN ignore' = DOMAIN ignore
  /\ \A i \in DOMAIN ignore :
       /\ ignore'[i].file = ignore[i].file /\ ignore'[i].line = ignore[i].line
       /\ ignore'[i].rule = ignore[i].rule
       /\ ignore'[i].until = ignore[i].until \/ ignore[i].until = Never

Forward ==
  /\ edits <= edits' /\ writes <= writes' /\ today <= today'
  /\ edits' = edits => UNCHANGED <<present, shift>>
  /\ writes' = writes => SameEntries

(* Counters and dates only grow, and the counters tell of every change.    *)
LEMMA StepForward ==
  ASSUME TypeOK, [Next]_vars
  PROVE  Forward
<1>1. edits \in Nat /\ writes \in Nat /\ today \in Int
  BY RunsAssumption DEF TypeOK, Day
<1>2. CASE \E p \in Proc : \/ Start(p) \/ SkipTarget(p) \/ TargetFails(p) \/ Collect(p)
                           \/ CheckDocument(p) \/ DocumentFails(p) \/ EndTarget(p)
                           \/ EndScan(p) \/ EndNewOnly(p) \/ NoBaseline(p)
                           \/ RefuseToWrite(p) \/ ReadIgnore(p) \/ Quit(p)
  <2>1. UNCHANGED <<present, shift, today, edits, ignore, writes>>
    BY ZenonT(40), <1>2 DEF Start, SkipTarget, TargetFails, Collect, CheckDocument, DocumentFails, EndTarget,
                EndScan, EndNewOnly, NoBaseline, RefuseToWrite, ReadIgnore, Quit, World
  <2> QED
    BY <1>1, <2>1 DEF Forward, SameEntries
<1>3. CASE \E p \in Proc : Truncate(p) \/ Write(p) \/ WriteFails(p)
  <2>1. UNCHANGED <<present, shift, today, edits>> /\ writes' = writes + 1
    BY <1>3 DEF Truncate, Write, WriteFails, World
  <2> QED
    BY <1>1, <2>1 DEF Forward
<1>4. CASE \/ \E q \in Problem : Introduce(q) \/ Fix(q)
           \/ \E f \in File : MoveDown(f)
  <2>1. UNCHANGED <<today, ignore, writes>> /\ edits' = edits + 1
    BY <1>4 DEF Introduce, Fix, MoveDown
  <2> QED
    BY <1>1, <2>1 DEF Forward, SameEntries
<1>5. ASSUME NEW i \in DOMAIN ignore, NEW day \in 0 .. MaxDay - 1, SetExpiry(i, day)
      PROVE  Forward
  <2>1. UNCHANGED <<present, shift, today, edits, writes>>
    BY <1>5 DEF SetExpiry, World
  <2>2. ignore' = [ignore EXCEPT ![i].until = day] /\ ignore[i].until = Never
    BY <1>5 DEF SetExpiry
  <2>3. ignore \in Seq(Entry)
    BY DEF TypeOK
  <2>4. ASSUME NEW j \in DOMAIN ignore
        PROVE  /\ ignore'[j].file = ignore[j].file /\ ignore'[j].line = ignore[j].line
               /\ ignore'[j].rule = ignore[j].rule
               /\ ignore'[j].until = ignore[j].until \/ ignore[j].until = Never
    <3>1. ignore[j] \in Entry
      BY <2>3
    <3> QED
      BY <2>2, <3>1 DEF Entry
  <2>5. DOMAIN ignore' = DOMAIN ignore
    BY <2>2
  <2> QED
    BY <1>1, <2>1, <2>4, <2>5 DEF Forward, SameEntries
<1>6. CASE Midnight
  BY <1>1, <1>6 DEF Midnight, Forward, SameEntries
<1>7. CASE UNCHANGED vars
  BY <1>1, <1>7 DEF vars, Forward, SameEntries
<1> QED
  BY <1>2, <1>3, <1>4, <1>5, <1>6, <1>7 DEF Next

LEMMA SameMatching ==
  ASSUME SameEntries, NEW f
  PROVE  Matching(f)' = Matching(f)
BY DEF SameEntries, Matching, Legible

(* A date that is past stays past. *)
LEMMA StaysExpired ==
  ASSUME TypeOK, TypeOK', today <= today', NEW e \in Entry, Expired(e)
  PROVE  Expired(e)'
<1>1. today \in Int /\ today' \in Int /\ e.until \in Int
  BY RunsAssumption DEF TypeOK, Day, Never, Entry
<1> QED
  BY <1>1 DEF Expired, InForce

(* A comment that is in force has been so before. *)
LEMMA CommentedBefore ==
  ASSUME NEW m \in Int, NEW n \in Int, m <= n, NEW rule, NEW file, NEW line,
         Commented(rule, file, line, n)
  PROVE  Commented(rule, file, line, m)
<1>1. PICK c \in Comment : c.rule = rule /\ c.file = file /\ Line(c) = line /\ InForce(c, n)
  BY DEF Commented
<1>2. c.until \in Int
  BY RunsAssumption DEF CommentType, Day, Never, Lapsed
<1>3. InForce(c, m)
  BY <1>1, <1>2 DEF InForce
<1> QED
  BY <1>1, <1>3 DEF Commented

LEMMA SameCommented ==
  ASSUME UNCHANGED shift, NEW rule, NEW file, NEW line, NEW day
  PROVE  Commented(rule, file, line, day)' = Commented(rule, file, line, day)
BY DEF Commented, Line

LEMMA StaysUncommented ==
  ASSUME TypeOK, TypeOK', today <= today', UNCHANGED shift, NEW rule, NEW file, NEW line,
         ~Commented(rule, file, line, today)
  PROVE  ~Commented(rule, file, line, today)'
<1>1. PICK day \in Int : day = today'
  BY RunsAssumption DEF TypeOK, Day
<1>2. today \in Int /\ today <= day
  BY <1>1, RunsAssumption DEF TypeOK, Day
<1>3. ~Commented(rule, file, line, day)
  BY <1>2, CommentedBefore
<1> QED
  BY <1>1, <1>3 DEF Commented, Line

(* Someone writes the file, or what was uncovered stays so. *)
LEMMA StaysUncovered ==
  ASSUME TypeOK, TypeOK', Forward, writes' = writes, edits' = edits, NEW f, Uncovered(f)
  PROVE  Uncovered(f)'
<1>1. SameEntries /\ Matching(f)' = Matching(f) /\ today <= today' /\ UNCHANGED shift
  BY SameMatching DEF Forward
<1>2. ~AtItsTemplate(f)'
  BY <1>1, StaysUncommented DEF Uncovered, AtItsTemplate
<1>3. CASE Matching(f) = {}
  BY <1>1, <1>2, <1>3, StaysUncommented DEF Uncovered
<1>4. CASE Matching(f) # {}
  <2>1. Len(ignore) \in Nat /\ Matching(f) \in SUBSET (1 .. Len(ignore))
    BY DEF TypeOK, Matching
  <2>2. PICK k \in DOMAIN ignore : k = Max(Matching(f))
    BY <1>4, <2>1, MaxOf DEF Matching
  <2>3. Expired(ignore[k]) /\ ignore[k] \in Entry
    BY <1>4, <2>2 DEF Uncovered, TypeOK
  <2>4. ignore'[k].until = ignore[k].until
    BY <1>1, <2>2, <2>3 DEF SameEntries, Expired, InForce
  <2>5. PICK e \in Entry : e = ignore[k]
    BY <2>3
  <2>6. Expired(e)'
    BY <1>1, <2>3, <2>5, StaysExpired
  <2>7. Expired(ignore[k])'
    BY <2>4, <2>5, <2>6 DEF Expired, InForce
  <2>8. Max(Matching(f))' = k
    <3>1. Max(Matching(f)') = k
      BY <1>1, <2>2
    <3> QED
      BY <3>1 DEF Max
  <2>9. Matching(f)' # {}
    BY <1>1, <1>4
  <2> QED
    BY <1>2, <2>7, <2>8, <2>9 DEF Uncovered
<1> QED
  BY <1>3, <1>4

LEMMA StaysUncoveredSince ==
  ASSUME TypeOK, TypeOK', Forward, edits' = edits, held \subseteq held', NEW f, NEW n,
         UncoveredSince(f, n)
  PROVE  UncoveredSince(f, n)'
<1>1. today <= today' /\ UNCHANGED shift
  BY DEF Forward
<1>2. ~AtItsTemplate(f)'
  BY <1>1, StaysUncommented DEF UncoveredSince, AtItsTemplate
<1>3. CASE ~Commented(f.rule, f.file, f.line, today)
  BY <1>1, <1>2, <1>3, StaysUncommented DEF UncoveredSince
<1>4. CASE Commented(f.rule, f.file, f.line, today)
  <2>1. PICK e \in HeldSince(n) : e.rule = f.rule /\ e.file = f.file /\ e.line = f.line /\ Expired(e)
    BY <1>4 DEF UncoveredSince
  <2>2. PICK h \in held : h[2] = e /\ n <= h[1]
    BY <2>1 DEF HeldSince
  <2>3. h \in Nat \X Entry /\ h \in held'
    BY <2>2 DEF TypeOK
  <2>4. e \in Entry
    BY <2>2, <2>3
  <2>5. e \in HeldSince(n)'
    BY <2>2, <2>3 DEF HeldSince
  <2>6. Expired(e)'
    BY <1>1, <2>1, <2>4, StaysExpired
  <2> QED
    BY <1>2, <2>1, <2>5, <2>6 DEF UncoveredSince
<1> QED
  BY <1>3, <1>4

(* What is remembered for a scan is not forgotten while it goes on.        *)
LEMMA HeldGrows ==
  ASSUME [Next]_vars, Scanning'
  PROVE  held \subseteq held'
<1>1. CASE \E p \in Proc : \/ Start(p) \/ Write(p) \/ WriteFails(p) \/ Quit(p)
  <2>1. Hold
    BY <1>1 DEF Start, Write, WriteFails, Quit
  <2> QED
    BY <2>1 DEF Hold, Scanning
<1>2. CASE \E i \in DOMAIN ignore, day \in 0 .. MaxDay - 1 : SetExpiry(i, day)
  <2>1. Hold
    BY <1>2 DEF SetExpiry
  <2> QED
    BY <2>1 DEF Hold, Scanning
<1>3. CASE \E p \in Proc : \/ SkipTarget(p) \/ TargetFails(p) \/ Collect(p)
                           \/ CheckDocument(p) \/ DocumentFails(p) \/ EndTarget(p)
                           \/ EndScan(p) \/ EndNewOnly(p) \/ NoBaseline(p)
                           \/ RefuseToWrite(p) \/ ReadIgnore(p) \/ Truncate(p)
  <2>1. UNCHANGED held
    BY ZenonT(40), <1>3 DEF SkipTarget, TargetFails, Collect, CheckDocument, DocumentFails, EndTarget,
                EndScan, EndNewOnly, NoBaseline, RefuseToWrite, ReadIgnore, Truncate
  <2> QED
    BY <2>1
<1>4. CASE \/ \E q \in Problem : Introduce(q) \/ Fix(q)
           \/ \E f \in File : MoveDown(f)
           \/ Midnight \/ UNCHANGED vars
  BY <1>4 DEF Introduce, Fix, MoveDown, Midnight, vars
<1> QED
  BY <1>1, <1>2, <1>3, <1>4 DEF Next

LEMMA SameFindings ==
  ASSUME UNCHANGED <<present, shift>>, NEW docs, NEW rules
  PROVE  FoundAt(docs, rules)' = FoundAt(docs, rules)
<1>1. ASSUME NEW d
      PROVE  OwnFindings(d, rules)' = OwnFindings(d, rules)
  BY DEF OwnFindings, ShownInFile, Line
<1>2. ASSUME NEW d
      PROVE  MovedFindings(d, rules)' = MovedFindings(d, rules)
  BY DEF MovedFindings, ShownAtJob, Line, JobLine
<1>3. ASSUME NEW d
      PROVE  AllFound(d, rules)' = AllFound(d, rules)
  BY <1>1, <1>2 DEF AllFound
<1> QED
  BY <1>3 DEF FoundAt

(* What is said of a run's findings depends on its task only. *)
SameTask(x, r) ==
  /\ x.mode = r.mode /\ x.rules = r.rules /\ x.targets = r.targets
  /\ x.day = r.day /\ x.writes = r.writes

LEMMA SameView ==
  ASSUME NEW r, NEW x, SameTask(x, r)
  PROVE  /\ \A docs, found : Judged(r, docs, found) => Judged(x, docs, found)
         /\ \A i, pair : FromTarget(r, i, pair) => FromTarget(x, i, pair)
         /\ r.all \subseteq x.all => \A i : Done(r, i) => Done(x, i)
<1>1. \A docs, found : Judged(r, docs, found) => Judged(x, docs, found)
  BY DEF SameTask, Judged, Silent, Excused
<1>2. \A i, pair : FromTarget(r, i, pair) => FromTarget(x, i, pair)
  BY <1>1 DEF SameTask, FromTarget
<1>3. ASSUME r.all \subseteq x.all, NEW i, Done(r, i)
      PROVE  Done(x, i)
  <2>1. PICK found \in SUBSET FoundAt(ToSet(Pipeline[r.targets[i]]), r.rules) :
          /\ Judged(r, ToSet(Pipeline[r.targets[i]]), found)
          /\ {r.targets[i]} \X Deduped(Pipeline[r.targets[i]], found) \subseteq r.all
    BY <1>3 DEF Done
  <2>2. {r.targets[i]} \X Deduped(Pipeline[r.targets[i]], found) \subseteq x.all
    BY <1>3, <2>1
  <2> QED
    BY <1>1, <2>1, <2>2 DEF Done, SameTask
<1> QED
  BY <1>1, <1>2, <1>3

(* What is said of a run stays true while others take steps. *)
LEMMA Keep ==
  ASSUME TypeOK, TypeOK', [Next]_vars, NEW r \in Run, Counted(r), Reasoned(r), Thorough(r),
         r.mode = "scan" => held \subseteq held'
  PROVE  Counted(r)' /\ Reasoned(r)' /\ Thorough(r)'
<1>1. Forward
  BY StepForward
<1>2. /\ edits \in Nat /\ edits' \in Nat /\ writes \in Nat /\ writes' \in Nat
      /\ r.edits \in Nat /\ r.writes \in Nat /\ r.edits <= edits /\ r.writes <= writes
      /\ edits <= edits' /\ writes <= writes'
      /\ today \in Int /\ today' \in Int /\ r.day \in Int /\ r.day <= today /\ today <= today'
  BY <1>1, RunsAssumption DEF TypeOK, Run, Counted, Forward, Day
<1>3. r.edits = edits' => edits' = edits /\ UNCHANGED <<present, shift>>
  BY <1>1, <1>2 DEF Forward
<1>4. r.writes = writes' => writes' = writes
  BY <1>2
<1>5. Counted(r)'
  BY <1>2 DEF Counted
<1>6. ASSUME r.edits = edits', r.mode = "scan", NEW f, Unanswered(f, r)
      PROVE  Unanswered(f, r)'
  <2>1. UncoveredSince(f, r.writes)'
    BY <1>1, <1>3, <1>6, StaysUncoveredSince DEF Unanswered
  <2>2. r.writes = writes' => Uncovered(f)'
    BY <1>1, <1>3, <1>4, <1>6, StaysUncovered DEF Unanswered
  <2> QED
    BY <2>1, <2>2 DEF Unanswered
<1>7. Reasoned(r)'
  BY <1>3, <1>6 DEF Reasoned
<1>8. ASSUME r.edits = edits', NEW f, Silent(f, r)
      PROVE  Silent(f, r)'
  <2>1. \A rule, file, line : Commented(rule, file, line, r.day)' = Commented(rule, file, line, r.day)
    BY <1>3, <1>8, SameCommented
  <2>2. r.mode = "scan" /\ Excused(f.rule, f.file, f.line, r) => Excused(f.rule, f.file, f.line, r)'
    BY <2>1 DEF Excused, HeldSince
  <2> QED
    BY <1>8, <2>1, <2>2 DEF Silent
<1>9. ASSUME r.edits = edits', NEW docs, NEW found, Judged(r, docs, found)
      PROVE  Judged(r, docs, found)'
  <2>1. FoundAt(docs, r.rules)' = FoundAt(docs, r.rules)
    BY <1>3, <1>9, SameFindings
  <2> QED
    BY <1>8, <1>9, <2>1 DEF Judged
<1>10. ASSUME r.edits = edits', NEW scanned, Finds(r, scanned)
       PROVE  Finds(r, scanned)'
  <2>1. \A docs : FoundAt(docs, r.rules)' = FoundAt(docs, r.rules)
    BY <1>3, <1>10, SameFindings
  <2>2. ASSUME NEW i, Done(r, i)
        PROVE  Done(r, i)'
    BY <1>9, <1>10, <2>1, <2>2 DEF Done
  <2>3. ASSUME NEW i, NEW pair, FromTarget(r, i, pair)
        PROVE  FromTarget(r, i, pair)'
    BY <1>9, <1>10, <2>1, <2>3 DEF FromTarget
  <2> QED
    BY <1>10, <2>2, <2>3 DEF Finds, Filtered
<1>11. Thorough(r)'
  <2> SUFFICES ASSUME r.at # "idle", ~r.errors
               PROVE  Thorough(r)'
    BY DEF Thorough
  <2>1. PICK scanned \in SUBSET (1 .. Passed(r)) :
          Walk(r, scanned) /\ (r.edits = edits => Finds(r, scanned))
    BY DEF Thorough
  <2>2. r.edits = edits' => Finds(r, scanned)'
    BY <1>3, <1>10, <2>1
  <2>3. r.at = "document" /\ r.edits = edits' => Judged(r, Checked(r), r.found)'
    BY <1>3, <1>9 DEF Thorough
  <2> QED
    BY <2>1, <2>2, <2>3 DEF Thorough, Checked, Walk
<1> QED
  BY <1>5, <1>7, <1>11

LEMMA KeepApart ==
  ASSUME SameEntries, Apart(ignore)
  PROVE  Apart(ignore)'
BY DEF SameEntries, Apart, Legible

LEMMA KeepBasis ==
  ASSUME TypeOK, TypeOK', Forward, BasisRight, UNCHANGED basis
  PROVE  BasisRight'
<1> SUFFICES ASSUME basis # None
             PROVE  BasisRight'
  BY DEF BasisRight
<1>1. basis.edits \in Nat /\ basis.writes \in Nat /\ basis.edits <= edits /\ basis.writes <= writes
  BY DEF TypeOK, Baseline, BasisRight
<1>2. edits \in Nat /\ edits' \in Nat /\ writes \in Nat /\ writes' \in Nat
      /\ edits <= edits' /\ writes <= writes'
  BY DEF TypeOK, Forward
<1>3. basis.edits <= edits' /\ basis.writes <= writes'
  BY <1>1, <1>2
<1>4. CASE ~(basis.edits = edits' /\ basis.writes = writes')
  BY <1>3, <1>4 DEF BasisRight
<1>5. CASE basis.edits = edits' /\ basis.writes = writes'
  <2>1. basis.edits = edits /\ basis.writes = writes /\ edits' = edits /\ writes' = writes
    BY <1>1, <1>2, <1>5
  <2>2. SameEntries /\ UNCHANGED <<present, shift>>
    BY <2>1 DEF Forward
  <2>3. \A rule, file, line : AcceptedAt(rule, file, line) => AcceptedAt(rule, file, line)'
    BY <2>2 DEF AcceptedAt, SameEntries
  <2>4. \A docs, rules : FoundAt(docs, rules)' = FoundAt(docs, rules)
    BY <2>2, SameFindings
  <2> QED
    BY <1>3, <2>1, <2>3, <2>4 DEF BasisRight
<1> QED
  BY <1>4, <1>5

LEMMA HeldTyped ==
  ASSUME TypeOK, ignore' \in Seq(Entry), writes' \in Nat, Hold
  PROVE  held' \subseteq Nat \X Entry
<1>1. ToSet(ignore') \subseteq Entry
  BY DEF ToSet
<1>2. {writes'} \X ToSet(ignore') \subseteq Nat \X Entry
  BY <1>1
<1> QED
  BY <1>2 DEF Hold, TypeOK

(* The entries are remembered, whatever step is taken. *)
LEMMA KeepRemembering ==
  ASSUME TypeOK, Remembering, \/ Hold
                             \/ (UNCHANGED held /\ ToSet(ignore') = {})
                             \/ (UNCHANGED <<held, ignore, writes>> /\ (Scanning' => Scanning))
  PROVE  Remembering'
BY DEF Remembering, Scanning, Hold

(* A step of run p that leads to a right state of it keeps the invariant.  *)
LEMMA OneRun ==
  ASSUME IInv, TypeOK', [Next]_vars, NEW p \in Proc, NEW x \in Run,
         run' = [run EXCEPT ![p] = x], RunInv(x), Apart(ignore'), BasisRight', Remembering'
  PROVE  IInv'
<1>1. TypeOK /\ run \in [Proc -> Run]
  BY DEF IInv, TypeOK
<1>2. ASSUME NEW q \in Proc
      PROVE  RunInv(run[q])'
  <2>1. PICK y \in Run : y = run'[q] /\ RunInv(y)
    BY <1>1 DEF IInv
  <2>2. y.mode = "scan" => held \subseteq held'
    BY <2>1, HeldGrows DEF Scanning
  <2>3. Counted(y)' /\ Reasoned(y)' /\ Thorough(y)'
    BY <1>1, <2>1, <2>2, Keep DEF RunInv
  <2>4. Progress(y) /\ Scope(y) /\ Apart(y.old)
    BY <2>1 DEF RunInv
  <2>5. RunInv(y)'
    BY <2>3, <2>4 DEF RunInv
  <2> QED
    BY <2>1, <2>5
<1> QED
  BY <1>2 DEF IInv

(* A step of run p that leaves everything else as it is.                   *)
LEMMA QuietRun ==
  ASSUME IInv, [Next]_vars, NEW p \in Proc, NEW x \in Run,
         run' = [run EXCEPT ![p] = x], RunInv(x),
         UNCHANGED <<World, ignore, writes, basis>>, started' \in Nat,
         Hold \/ (UNCHANGED held /\ x.mode = run[p].mode)
  PROVE  IInv'
<1>1. TypeOK /\ UNCHANGED <<present, shift, today, edits, ignore, writes, basis>>
  BY DEF IInv, World
<1>2. \A q \in Proc : run'[q].included \subseteq run'[q].scanned
  BY <1>1 DEF TypeOK, RunInv, Progress
<1>3. run' \in [Proc -> Run]
  BY <1>1 DEF TypeOK
<1>4. held' \subseteq Nat \X Entry
  BY <1>1, HeldTyped DEF TypeOK
<1>5. TypeOK'
  BY <1>1, <1>2, <1>3, <1>4 DEF TypeOK
<1>6. Forward
  BY <1>1, StepForward
<1>7. BasisRight'
  BY <1>1, <1>5, <1>6, KeepBasis DEF IInv
<1>8. Apart(ignore')
  BY <1>1 DEF IInv
<1>9. Remembering'
  <2>1. CASE Hold
    BY <1>1, <2>1, KeepRemembering DEF IInv
  <2>2. CASE UNCHANGED held /\ x.mode = run[p].mode
    <3>1. \A q \in Proc : run'[q].mode = run[q].mode
      BY <1>1, <2>2 DEF TypeOK
    <3>2. Scanning' => Scanning
      BY <3>1 DEF Scanning
    <3> QED
      BY <1>1, <2>2, <3>2, KeepRemembering DEF IInv
  <2> QED
    BY <2>1, <2>2
<1> QED
  BY <1>5, <1>7, <1>8, <1>9, OneRun

(* People and the clock. *)
LEMMA WorldStep ==
  ASSUME IInv, [Next]_vars, UNCHANGED <<run, writes, basis>>, TypeOK',
         Hold \/ UNCHANGED <<ignore, held>>
  PROVE  IInv'
<1>1. TypeOK /\ Forward
  BY StepForward DEF IInv
<1>2. Apart(ignore)' /\ BasisRight'
  BY <1>1, KeepApart, KeepBasis DEF IInv, Forward
<1>3. ASSUME NEW q \in Proc
      PROVE  RunInv(run[q])'
  <2>1. PICK y \in Run : y = run[q] /\ RunInv(y)
    BY <1>1 DEF IInv, TypeOK
  <2>2. y = run'[q]
    BY <2>1
  <2>3. y.mode = "scan" => held \subseteq held'
    BY <2>2, HeldGrows DEF Scanning
  <2>4. Counted(y)' /\ Reasoned(y)' /\ Thorough(y)'
    BY <1>1, <2>1, <2>3, Keep DEF RunInv
  <2>5. RunInv(y)'
    BY <2>1, <2>4 DEF RunInv
  <2> QED
    BY <2>2, <2>5
<1>4. Remembering'
  BY <1>1, KeepRemembering DEF IInv, Scanning
<1> QED
  BY <1>2, <1>3, <1>4 DEF IInv

-----------------------------------------------------------------------------
(* Which targets are skipped. *)

LEMMA ConsistentSkip ==
  ASSUME NEW t, NEW n \in Nat, NEW S, Consistent(t, n, S),
         \E j \in S : t[n + 1] \in Included(Pipeline[t[j]])
  PROVE  Consistent(t, n + 1, S)
<1>1. S \subseteq 1 .. n /\ S \subseteq 1 .. n + 1 /\ n + 1 \notin S
  BY DEF Consistent
<1>2. \A j \in S : j < n + 1
  <2>1. \A j \in 1 .. n : j < n + 1
    OBVIOUS
  <2> QED
    BY <1>1, <2>1
<1>3. \A i \in 1 .. n + 1 : i \in 1 .. n \/ i = n + 1
  OBVIOUS
<1> QED
  BY <1>1, <1>2, <1>3 DEF Consistent

LEMMA ConsistentTake ==
  ASSUME NEW t, NEW n \in Nat, NEW S, Consistent(t, n, S),
         \A j \in S : t[n + 1] \notin Included(Pipeline[t[j]])
  PROVE  Consistent(t, n + 1, S \cup {n + 1})
<1>1. S \subseteq 1 .. n /\ S \cup {n + 1} \subseteq 1 .. n + 1
  BY DEF Consistent
<1>2. \A i \in 1 .. n : ~(n + 1 < i) /\ i # n + 1
  OBVIOUS
<1>3. \A i \in 1 .. n + 1 : i \in 1 .. n \/ i = n + 1
  OBVIOUS
<1>4. ASSUME NEW i \in 1 .. n
      PROVE  i \in S \cup {n + 1} <=>
               \A j \in S \cup {n + 1} : j < i => t[i] \notin Included(Pipeline[t[j]])
  BY <1>2 DEF Consistent
<1>5. n + 1 \in S \cup {n + 1} <=>
        \A j \in S \cup {n + 1} : j < n + 1 => t[n + 1] \notin Included(Pipeline[t[j]])
  <2>1. ~(n + 1 < n + 1)
    OBVIOUS
  <2> QED
    BY <2>1
<1> QED
  BY <1>1, <1>3, <1>4, <1>5 DEF Consistent

(* Only one set of targets is scanned if none fails.                       *)
LEMMA ConsistentOne ==
  ASSUME NEW t, NEW n \in Nat, NEW S, NEW T, Consistent(t, n, S), Consistent(t, n, T)
  PROVE  S = T
<1> DEFINE D == {i \in 1 .. n : ~(i \in S <=> i \in T)}
<1>1. S \subseteq 1 .. n /\ T \subseteq 1 .. n
  BY DEF Consistent
<1>2. SUFFICES ASSUME D # {}
               PROVE  FALSE
  BY <1>1
<1>3. PICK i \in D : \A j \in D : i <= j
  <2>1. D \subseteq Nat
    OBVIOUS
  <2> HIDE DEF D
  <2> QED
    BY <1>2, <2>1, LeastNat
<1>4. ASSUME NEW j \in 1 .. n, j < i
      PROVE  j \in S <=> j \in T
  BY <1>3, <1>4
<1>5. i \in S <=> \A j \in S : j < i => t[i] \notin Included(Pipeline[t[j]])
  BY <1>3 DEF Consistent
<1>6. i \in T <=> \A j \in T : j < i => t[i] \notin Included(Pipeline[t[j]])
  BY <1>3 DEF Consistent
<1>7. (\A j \in S : j < i => t[i] \notin Included(Pipeline[t[j]])) <=>
      (\A j \in T : j < i => t[i] \notin Included(Pipeline[t[j]]))
  BY <1>1, <1>4
<1> QED
  BY <1>3, <1>5, <1>6, <1>7

-----------------------------------------------------------------------------
(* The steps of a run. *)

LEMMA TailOfTargets ==
  ASSUME NEW r \in Run, Progress(r), r.left # << >>,
         NEW x \in Run, x.left = Tail(r.left), x.targets = r.targets
  PROVE  /\ Len(x.left) <= Len(x.targets)
         /\ \A i \in 1 .. Len(x.left) : x.left[i] = x.targets[Passed(x) + i]
         /\ Passed(r) \in Nat /\ Passed(x) = Passed(r) + 1
         /\ Passed(x) \in 1 .. Len(r.targets)
         /\ r.targets[Passed(r) + 1] = Head(r.left) /\ Head(r.left) \in File
<1>1. r.left \in Seq(File) /\ r.targets \in Seq(File)
  BY DEF Run
<1>2. /\ Len(x.left) = Len(r.left) - 1
      /\ \A i \in 1 .. Len(x.left) : x.left[i] = r.left[i + 1]
  BY <1>1, HeadTailProperties
<1>3. Len(r.left) \in Nat \ {0} /\ Len(r.targets) \in Nat /\ Len(r.left) <= Len(r.targets)
  BY <1>1 DEF Progress
<1>4. Passed(r) \in Nat /\ Passed(x) = Passed(r) + 1
  <2>1. Passed(r) = Len(r.targets) - Len(r.left) /\ Passed(x) = Len(r.targets) - Len(x.left)
    BY DEF Passed
  <2> QED
    BY <1>2, <1>3, <2>1
<1>5. \A i \in 1 .. Len(r.left) : r.left[i] = r.targets[Passed(r) + i]
  BY DEF Progress
<1>6. \A i \in 1 .. Len(x.left) : i + 1 \in 1 .. Len(r.left) /\ Passed(r) + (i + 1) = Passed(x) + i
  BY <1>2, <1>3, <1>4
<1>7. \A i \in 1 .. Len(x.left) : x.left[i] = r.targets[Passed(x) + i]
  BY <1>2, <1>5, <1>6
<1>8. Head(r.left) = r.left[1] /\ Head(r.left) \in File
  BY <1>1, <1>3
<1>9. 1 \in 1 .. Len(r.left)
  BY <1>3
<1>10. r.targets[Passed(r) + 1] = Head(r.left)
  BY <1>5, <1>8, <1>9
<1>11. Len(x.left) <= Len(x.targets) /\ Passed(x) \in 1 .. Len(r.targets)
  <2>1. Passed(x) = Len(r.targets) - Len(x.left)
    BY DEF Passed
  <2>2. Len(x.left) <= Len(r.targets)
    BY <1>2, <1>3
  <2>3. Passed(x) \in 1 .. Len(r.targets)
    <3>1. Len(r.left) >= 1 /\ Passed(r) = Len(r.targets) - Len(r.left)
      BY <1>3 DEF Passed
    <3>2. Passed(r) + 1 <= Len(r.targets)
      BY <1>3, <3>1
    <3> QED
      BY <1>3, <1>4, <3>2
  <2> QED
    BY <2>2, <2>3
<1> QED
  BY <1>4, <1>7, <1>8, <1>10, <1>11

LEMMA IdleTyped == Idle \in Run
BY RunsAssumption DEF Run, Idle, Steps, Day

LEMMA PassedTyped ==
  ASSUME NEW r \in Run, Progress(r)
  PROVE  Passed(r) \in 0 .. Len(r.targets) /\ Len(r.targets) \in Nat
<1>1. Len(r.targets) \in Nat /\ Len(r.left) \in Nat /\ Len(r.left) <= Len(r.targets)
  BY DEF Run, Progress
<1>2. Passed(r) = Len(r.targets) - Len(r.left)
  BY DEF Passed
<1>3. \A m, n \in Nat : n <= m => m - n \in 0 .. m
  OBVIOUS
<1> QED
  BY <1>1, <1>2, <1>3

LEMMA StartIInv ==
  ASSUME IInv, [Next]_vars, NEW p \in Proc, Start(p)
  PROVE  IInv'
<1>1. PICK mode \in Modes, rules \in RuleSets, targets \in TargetLists :
        run' = [run EXCEPT ![p] = [Idle EXCEPT !.at = "target", !.mode = mode, !.rules = rules,
                  !.targets = targets, !.left = targets, !.day = today, !.edits = edits,
                   !.writes = writes]]
  BY DEF Start
<1> DEFINE x == [Idle EXCEPT !.at = "target", !.mode = mode, !.rules = rules,
                   !.targets = targets, !.left = targets, !.day = today, !.edits = edits,
                   !.writes = writes]
<1>2. /\ targets \in Seq(File) /\ rules \subseteq Rule /\ edits \in Nat /\ writes \in Nat
      /\ today \in Day /\ today \in Int
      /\ \A i, j \in DOMAIN targets : targets[i] = targets[j] => i = j
  BY RunsAssumption DEF IInv, TypeOK, Day
<1>3. x \in Run
  BY <1>2, IdleTyped DEF Run, Steps
<1>4. /\ x.at = "target" /\ x.targets = targets /\ x.left = targets /\ x.found = {} /\ x.all = {}
      /\ x.scanned = {} /\ x.included = {} /\ x.old = << >> /\ x.edits = edits /\ x.writes = writes
      /\ x.mode = mode /\ ~x.errors /\ x.day = today
  BY DEF Idle
<1>5. run' = [run EXCEPT ![p] = x]
  BY <1>1
<1> HIDE DEF x
<1>6. Len(targets) \in Nat /\ Passed(x) = 0
  BY <1>2, <1>4 DEF Passed
<1>7. Progress(x)
  <2>1. \A i \in 1 .. Len(targets) : 0 + i = i
    OBVIOUS
  <2> QED
    BY <1>2, <1>4, <1>6, <2>1 DEF Progress
<1>8. Scope(x)
  BY <1>4, FS_EmptySet DEF Scope
<1>9. Apart(x.old) /\ Counted(x) /\ Reasoned(x)
  BY <1>2, <1>4 DEF Apart, Counted, Reasoned
<1>10. Thorough(x)
  <2>1. Consistent(x.targets, Passed(x), {})
    BY <1>6 DEF Consistent
  <2>2. Walk(x, {}) /\ Finds(x, {})
    BY <1>4, <2>1 DEF Walk, Finds
  <2> QED
    BY <1>4, <2>2 DEF Thorough
<1>11. UNCHANGED <<World, ignore, writes, basis>> /\ started' \in Nat /\ Hold
  BY DEF Start, IInv, TypeOK
<1> QED
  BY <1>3, <1>5, <1>7, <1>8, <1>9, <1>10, <1>11, QuietRun DEF RunInv

(* The run goes on with the next target, or ends, and has lost nothing of  *)
(* what it keeps for the end.                                              *)
SameSummary(x, r) ==
  /\ x.mode = r.mode /\ x.rules = r.rules /\ x.targets = r.targets
  /\ x.scanned = r.scanned /\ x.included = r.included
  /\ x.day = r.day /\ x.edits = r.edits /\ x.writes = r.writes

LEMMA SameScope ==
  ASSUME NEW r, NEW x, Scope(r), Counted(r), Reasoned(r),
         SameSummary(x, r), x.all \subseteq r.all, x.at # "document",
         1 .. Passed(r) \subseteq 1 .. Passed(x)
  PROVE  Scope(x) /\ Counted(x) /\ Reasoned(x)
<1>1. IsFiniteSet(x.all)
  BY FS_Subset DEF Scope
<1>2. Scope(x)
  BY <1>1 DEF Scope, SameSummary, SeenAt
<1> QED
  BY <1>2 DEF SameSummary, Counted, Reasoned, Unanswered

LEMMA SkipTargetIInv ==
  ASSUME IInv, [Next]_vars, NEW p \in Proc, SkipTarget(p)
  PROVE  IInv'
<1> DEFINE r == run[p]
           x == [r EXCEPT !.left = Tail(r.left)]
<1>1. r \in Run /\ RunInv(r) /\ run \in [Proc -> Run]
  BY DEF IInv, TypeOK
<1>2. r.at = "target" /\ r.left # << >> /\ Head(r.left) \in r.included
  BY DEF SkipTarget, HasTarget, At, NextTarget
<1>3. x \in Run
  BY <1>1, <1>2, HeadTailProperties DEF Run
<1>4. /\ x.left = Tail(r.left) /\ x.at = "target" /\ x.errors = r.errors
      /\ SameSummary(x, r) /\ x.all = r.all /\ x.old = r.old
  BY <1>1, <1>2 DEF Run, SameSummary
<1>5. run' = [run EXCEPT ![p] = x]
  BY <1>1 DEF SkipTarget
<1>6. UNCHANGED <<World, ignore, held, writes, basis>> /\ started' \in Nat
  BY DEF SkipTarget, IInv, TypeOK
<1> HIDE DEF x, r
<1>7. /\ Len(x.left) <= Len(x.targets)
      /\ \A i \in 1 .. Len(x.left) : x.left[i] = x.targets[Passed(x) + i]
      /\ Passed(r) \in Nat /\ Passed(x) = Passed(r) + 1
      /\ r.targets[Passed(r) + 1] = Head(r.left)
  BY <1>1, <1>2, <1>3, <1>4, TailOfTargets DEF RunInv, SameSummary
<1>8. Progress(x)
  BY <1>1, <1>4, <1>7 DEF RunInv, Progress, SameSummary
<1>9. Scope(x) /\ Apart(x.old) /\ Counted(x) /\ Reasoned(x)
  <2>1. 1 .. Passed(r) \subseteq 1 .. Passed(x)
    BY <1>7
  <2> QED
    BY <1>1, <1>4, <2>1, SameScope DEF RunInv
<1>10. Thorough(x)
  <2> SUFFICES ASSUME ~r.errors
               PROVE  Thorough(x)
    BY <1>4 DEF Thorough, SameSummary
  <2>1. PICK S \in SUBSET (1 .. Passed(r)) : Walk(r, S) /\ (r.edits = edits => Finds(r, S))
    BY <1>1, <1>2 DEF RunInv, Thorough
  <2>2. Consistent(x.targets, Passed(x), S)
    BY <1>2, <1>4, <1>7, <2>1, ConsistentSkip DEF SameSummary, Walk
  <2>3. S \in SUBSET (1 .. Passed(x))
    BY <2>2 DEF Consistent
  <2>4. Walk(x, S)
    BY <1>2, <1>4, <2>1, <2>2 DEF SameSummary, Walk
  <2>5. /\ \A i : Done(r, i) => Done(x, i)
        /\ \A i, pair : FromTarget(r, i, pair) => FromTarget(x, i, pair)
    BY <1>4, SameView DEF SameSummary, SameTask
  <2>6. r.edits = edits => Finds(x, S)
    BY <1>2, <1>4, <2>1, <2>5 DEF SameSummary, Finds, Filtered
  <2> QED
    BY <1>4, <2>3, <2>4, <2>6 DEF Thorough, SameSummary
<1> QED
  BY <1>3, <1>4, <1>5, <1>6, <1>8, <1>9, <1>10, QuietRun DEF RunInv, SameSummary, r

LEMMA AfterFailure ==
  ASSUME NEW r \in Run, RunInv(r), r.left # << >>, NEW x \in Run, x.left = Tail(r.left),
         x.at = "target", x.errors, SameSummary(x, r), x.all = r.all, x.old = r.old
  PROVE  RunInv(x)
<1>1. /\ Len(x.left) <= Len(x.targets)
      /\ \A i \in 1 .. Len(x.left) : x.left[i] = x.targets[Passed(x) + i]
      /\ Passed(r) \in Nat /\ Passed(x) = Passed(r) + 1
  BY TailOfTargets DEF RunInv, SameSummary
<1>2. Progress(x)
  BY <1>1 DEF RunInv, Progress, SameSummary
<1>3. Scope(x) /\ Apart(x.old) /\ Counted(x) /\ Reasoned(x)
  <2>1. 1 .. Passed(r) \subseteq 1 .. Passed(x)
    BY <1>1
  <2> QED
    BY <2>1, SameScope DEF RunInv
<1>4. Thorough(x)
  BY DEF Thorough
<1> QED
  BY <1>2, <1>3, <1>4 DEF RunInv

LEMMA FailureIInv ==
  ASSUME IInv, [Next]_vars, NEW p \in Proc, TargetFails(p) \/ DocumentFails(p)
  PROVE  IInv'
<1> DEFINE r == run[p]
<1>1. r \in Run /\ RunInv(r) /\ run \in [Proc -> Run]
  BY DEF IInv, TypeOK
<1>2. UNCHANGED <<World, ignore, held, writes, basis>> /\ started' \in Nat
  BY DEF TargetFails, DocumentFails, IInv, TypeOK
<1>3. r.left # << >>
  BY <1>1 DEF TargetFails, HasTarget, DocumentFails, At, RunInv, Progress
<1>4. CASE TargetFails(p)
  <2> DEFINE x == [r EXCEPT !.left = Tail(r.left), !.errors = TRUE]
  <2>1. x \in Run
    BY <1>1, <1>3, HeadTailProperties DEF Run
  <2>2. /\ x.left = Tail(r.left) /\ x.at = "target" /\ x.errors
        /\ SameSummary(x, r) /\ x.all = r.all /\ x.old = r.old
    BY <1>1, <1>4 DEF Run, SameSummary, TargetFails, HasTarget, At
  <2>3. run' = [run EXCEPT ![p] = x]
    BY <1>1, <1>4 DEF TargetFails
  <2> HIDE DEF x, r
  <2> QED
    BY <1>1, <1>2, <1>3, <2>1, <2>2, <2>3, AfterFailure, QuietRun DEF SameSummary, r
<1>5. CASE DocumentFails(p)
  <2> DEFINE x == [r EXCEPT !.at = "target", !.left = Tail(r.left), !.docs = << >>, !.found = {},
                            !.errors = TRUE]
  <2>1. x \in Run
    <3>1. Tail(r.left) \in Seq(File)
      BY <1>1, <1>3, HeadTailProperties DEF Run
    <3>2. << >> \in Seq(Document) /\ {} \in SUBSET Finding /\ TRUE \in BOOLEAN
      OBVIOUS
    <3>3. "target" \in Steps
      BY DEF Steps
    <3> QED
      BY <1>1, <3>1, <3>2, <3>3 DEF Run
  <2>2. /\ x.left = Tail(r.left) /\ x.at = "target" /\ x.errors
        /\ SameSummary(x, r) /\ x.all = r.all /\ x.old = r.old
    BY <1>1, <1>5 DEF Run, SameSummary
  <2>3. run' = [run EXCEPT ![p] = x]
    BY <1>1, <1>5 DEF DocumentFails
  <2> HIDE DEF x, r
  <2> QED
    BY <1>1, <1>2, <1>3, <2>1, <2>2, <2>3, AfterFailure, QuietRun DEF SameSummary, r
<1> QED
  BY <1>4, <1>5

LEMMA AfterTargets ==
  ASSUME NEW r \in Run, RunInv(r), r.at = "target", r.left = << >>,
         NEW x \in Run, x.left = r.left, x.errors = r.errors, SameSummary(x, r),
         x.all \subseteq r.all, x.mode # "newonly" => x.all = r.all, Apart(x.old),
         \/ /\ x.at = "done" /\ (x.exit # 2 => ~x.errors)
            /\ x.exit = 0 /\ x.mode \in {"scan", "audit"} =>
                 \A pair \in x.all : pair[2].rule \notin Failing
         \/ x.at = "write" /\ x.mode = "generate" /\ ~x.errors
  PROVE  RunInv(x)
<1>1. Passed(x) = Passed(r)
  BY DEF Passed, SameSummary
<1>2. Progress(x)
  BY <1>1 DEF RunInv, Progress, SameSummary
<1>3. Scope(x) /\ Counted(x) /\ Reasoned(x)
  BY <1>1, SameScope DEF RunInv
<1>4. Thorough(x)
  <2> SUFFICES ASSUME ~r.errors
               PROVE  Thorough(x)
    BY DEF Thorough, SameSummary
  <2>1. PICK S \in SUBSET (1 .. Passed(r)) : Walk(r, S) /\ (r.edits = edits => Finds(r, S))
    BY DEF RunInv, Thorough
  <2>2. Walk(x, S)
    BY <1>1, <2>1 DEF SameSummary, Walk
  <2>3. /\ x.mode # "newonly" => \A i : Done(r, i) => Done(x, i)
        /\ \A i, pair : FromTarget(r, i, pair) => FromTarget(x, i, pair)
    BY SameView DEF SameSummary, SameTask
  <2>4. r.edits = edits => Finds(x, S)
    BY <2>1, <2>3 DEF SameSummary, Finds, Filtered
  <2> QED
    BY <1>1, <2>1, <2>2, <2>4 DEF Thorough, SameSummary
<1> QED
  BY <1>2, <1>3, <1>4 DEF RunInv

LEMMA EndIInv ==
  ASSUME IInv, [Next]_vars, NEW p \in Proc,
         EndScan(p) \/ EndNewOnly(p) \/ NoBaseline(p) \/ RefuseToWrite(p)
  PROVE  IInv'
<1> DEFINE r == run[p]
<1>1. r \in Run /\ RunInv(r) /\ run \in [Proc -> Run]
  BY DEF IInv, TypeOK
<1>2. UNCHANGED <<World, ignore, held, writes, basis>> /\ started' \in Nat
  BY DEF EndScan, EndNewOnly, NoBaseline, RefuseToWrite, IInv, TypeOK
<1>3. r.at = "target" /\ r.left = << >>
  BY DEF EndScan, EndNewOnly, NoBaseline, RefuseToWrite, AllTargetsDone, At
<1>4. \A all : /\ ExitCode(r, all) \in 0 .. 2 /\ (ExitCode(r, all) # 2 => ~r.errors)
               /\ ExitCode(r, all) = 0 => \A pair \in all : pair[2].rule \notin Failing
  BY DEF ExitCode
<1>5. PICK all \in SUBSET r.all, exit \in 0 .. 2 :
        /\ run' = [run EXCEPT ![p] = [r EXCEPT !.at = "done", !.all = all, !.exit = exit]]
        /\ r.mode # "newonly" => all = r.all
        /\ exit # 2 => ~r.errors
        /\ exit = 0 /\ r.mode \in {"scan", "audit"} => \A pair \in all : pair[2].rule \notin Failing
  <2>1. CASE EndScan(p)
    <3>1. run' = [run EXCEPT ![p] = [r EXCEPT !.at = "done", !.all = r.all, !.exit = ExitCode(r, r.all)]]
      BY <1>1, <2>1 DEF EndScan, Run
    <3> QED
      BY <1>4, <3>1
  <2>2. CASE EndNewOnly(p)
    <3>1. PICK new \in SUBSET r.all :
            run' = [run EXCEPT ![p].at = "done", ![p].all = new, ![p].exit = ExitCode(r, new)]
      BY <2>2 DEF EndNewOnly
    <3>2. run' = [run EXCEPT ![p] = [r EXCEPT !.at = "done", !.all = new, !.exit = ExitCode(r, new)]]
      BY <1>1, <3>1
    <3> QED
      BY <1>4, <2>2, <3>2 DEF EndNewOnly
  <2>3. CASE NoBaseline(p) \/ RefuseToWrite(p)
    <3>1. run' = [run EXCEPT ![p] = [r EXCEPT !.at = "done", !.all = r.all, !.exit = 2]]
      BY <1>1, <2>3 DEF NoBaseline, RefuseToWrite, Run
    <3> DEFINE ends(all, exit) ==
                 run' = [run EXCEPT ![p] = [r EXCEPT !.at = "done", !.all = all, !.exit = exit]]
    <3>2. ends(r.all, 2)
      BY <3>1
    <3>3. 2 \in 0 .. 2 /\ r.all \in SUBSET r.all
      OBVIOUS
    <3> HIDE DEF ends
    <3>4. \E all \in SUBSET r.all, exit \in 0 .. 2 :
            /\ ends(all, exit) /\ (r.mode # "newonly" => all = r.all) /\ (exit # 2 => ~r.errors)
            /\ exit = 0 /\ r.mode \in {"scan", "audit"} => \A pair \in all : pair[2].rule \notin Failing
      BY <3>2, <3>3
    <3> QED
      BY <3>4 DEF ends
  <2> QED
    BY <2>1, <2>2, <2>3
<1> DEFINE x == [r EXCEPT !.at = "done", !.all = all, !.exit = exit]
<1>6. x \in Run
  BY <1>1 DEF Run, Steps
<1>7. /\ x.left = r.left /\ x.at = "done" /\ x.errors = r.errors /\ x.exit = exit
      /\ SameSummary(x, r) /\ x.all = all /\ x.old = r.old /\ x.mode = r.mode
  BY <1>1 DEF Run, SameSummary
<1>8. run' = [run EXCEPT ![p] = x]
  BY <1>5
<1> HIDE DEF x, r
<1>9. RunInv(x)
  BY <1>1, <1>3, <1>5, <1>6, <1>7, AfterTargets DEF RunInv
<1> QED
  BY <1>2, <1>6, <1>7, <1>8, <1>9, QuietRun DEF SameSummary, r

LEMMA ReadIgnoreIInv ==
  ASSUME IInv, [Next]_vars, NEW p \in Proc, ReadIgnore(p)
  PROVE  IInv'
<1> DEFINE r == run[p]
           x == [r EXCEPT !.at = "write", !.old = ignore]
<1>1. r \in Run /\ RunInv(r) /\ run \in [Proc -> Run] /\ ignore \in Seq(Entry) /\ Apart(ignore)
  BY DEF IInv, TypeOK
<1>2. UNCHANGED <<World, ignore, held, writes, basis>> /\ started' \in Nat
  BY DEF ReadIgnore, IInv, TypeOK
<1>3. r.at = "target" /\ r.left = << >> /\ r.mode = "generate" /\ ~r.errors
  BY DEF ReadIgnore, AllTargetsDone, At
<1>4. x \in Run
  BY <1>1 DEF Run, Steps
<1>5. /\ x.left = r.left /\ x.at = "write" /\ x.errors = r.errors
      /\ SameSummary(x, r) /\ x.all = r.all /\ x.old = ignore /\ x.mode = "generate"
  BY <1>1, <1>3 DEF Run, SameSummary
<1>6. run' = [run EXCEPT ![p] = x]
  BY <1>1 DEF ReadIgnore
<1> HIDE DEF x, r
<1>7. RunInv(x)
  BY <1>1, <1>3, <1>4, <1>5, AfterTargets
<1> QED
  BY <1>2, <1>4, <1>5, <1>6, <1>7, QuietRun DEF SameSummary, r

LEMMA QuitIInv ==
  ASSUME IInv, [Next]_vars, NEW p \in Proc, Quit(p)
  PROVE  IInv'
<1>1. run' = [run EXCEPT ![p] = Idle] /\ UNCHANGED <<World, ignore, writes, basis>> /\ started' \in Nat /\ Hold
  BY DEF Quit, IInv, TypeOK
<1>2. edits \in Nat /\ writes \in Nat /\ today \in Nat
  BY RunsAssumption DEF IInv, TypeOK, Day
<1>3. /\ Idle.at = "idle" /\ Idle.left = << >> /\ Idle.targets = << >> /\ Idle.all = {}
      /\ Idle.old = << >> /\ Idle.edits = 0 /\ Idle.writes = 0 /\ Idle.scanned = {} /\ Idle.included = {}
      /\ Idle.day = 0
  BY DEF Idle
<1>4. RunInv(Idle)
  BY <1>2, <1>3, FS_EmptySet DEF RunInv, Progress, Scope, Apart, Counted, Reasoned, Thorough
<1> QED
  BY <1>1, <1>4, IdleTyped, QuietRun

LEMMA PipelineTyped ==
  ASSUME NEW t \in File
  PROVE  /\ Pipeline[t] \in Seq(Document)
         /\ Files(Pipeline[t]) \subseteq File
         /\ Included(Pipeline[t]) \subseteq Files(Pipeline[t])
<1>1. Pipeline[t] \in Seq(Document)
  BY RunsAssumption
<1>2. \A d \in ToSet(Pipeline[t]) : d \in Document
  BY <1>1 DEF ToSet
<1> QED
  BY <1>1, <1>2 DEF Files, Included, Document

LEMMA CollectIInv ==
  ASSUME IInv, [Next]_vars, NEW p \in Proc, Collect(p)
  PROVE  IInv'
<1> DEFINE r == run[p]
           t == Head(r.left)
           P == Pipeline[t]
           x == [r EXCEPT !.at = "document", !.docs = P, !.found = {},
                   !.scanned = r.scanned \cup Files(P), !.included = r.included \cup Included(P)]
<1>1. r \in Run /\ RunInv(r) /\ run \in [Proc -> Run]
  BY DEF IInv, TypeOK
<1>2. r.at = "target" /\ r.left # << >> /\ t \notin r.included
  BY DEF Collect, HasTarget, At, NextTarget
<1>3. r.left \in Seq(File) /\ t \in File
  BY <1>1, <1>2, HeadTailProperties DEF Run
<1>4. P \in Seq(Document) /\ Files(P) \subseteq File /\ Included(P) \subseteq Files(P)
  BY <1>3, PipelineTyped
<1>5. x \in Run
  <2>1. "document" \in Steps /\ {} \in SUBSET Finding
    BY DEF Steps
  <2>2. Files(P) \in SUBSET File /\ Included(P) \in SUBSET File
    BY <1>4
  <2> HIDE DEF P
  <2>3. r.scanned \cup Files(P) \in SUBSET File /\ r.included \cup Included(P) \in SUBSET File
    BY <1>1, <2>2 DEF Run
  <2> QED
    BY <1>1, <1>4, <2>1, <2>3 DEF Run
<1>6. /\ x.at = "document" /\ x.docs = P /\ x.found = {} /\ x.all = r.all /\ x.old = r.old
      /\ x.scanned = r.scanned \cup Files(P) /\ x.included = r.included \cup Included(P)
      /\ x.left = r.left /\ x.targets = r.targets /\ x.rules = r.rules /\ x.mode = r.mode
      /\ x.errors = r.errors /\ x.day = r.day /\ x.edits = r.edits /\ x.writes = r.writes
  BY <1>1 DEF Run
<1>7. run' = [run EXCEPT ![p] = x]
  BY <1>1 DEF Collect, NextTarget, Run
<1>8. UNCHANGED <<World, ignore, held, writes, basis>> /\ started' \in Nat
  BY DEF Collect, IInv, TypeOK
<1> HIDE DEF x, r
<1>9. Now(x) = P /\ Head(x.left) = t /\ Passed(x) = Passed(r)
  BY <1>6 DEF Now, Passed
<1>10. /\ Passed(r) \in Nat /\ Passed(r) + 1 \in 1 .. Len(r.targets) /\ r.targets[Passed(r) + 1] = t
       /\ Len(r.targets) \in Nat
  <2>1. PICK y \in Run : y.left = Tail(r.left) /\ y.targets = r.targets
    <3>1. [r EXCEPT !.left = Tail(r.left)] \in Run
      BY <1>1, <1>2, HeadTailProperties DEF Run
    <3>2. [r EXCEPT !.left = Tail(r.left)].left = Tail(r.left)
      BY <1>1 DEF Run
    <3>3. [r EXCEPT !.left = Tail(r.left)].targets = r.targets
      BY <1>1 DEF Run
    <3> QED
      BY <3>1, <3>2, <3>3
  <2>2. Progress(r)
    BY <1>1 DEF RunInv
  <2> QED
    BY <1>1, <1>2, <2>1, <2>2, TailOfTargets, PassedTyped
<1>11. Progress(x)
  <2>1. x.included \subseteq x.scanned
    BY <1>1, <1>4, <1>6 DEF RunInv, Progress
  <2>2. Len(P) \in Nat /\ \A i \in 1 .. Len(P) : Len(P) - Len(P) + i = i
    BY <1>4
  <2> QED
    BY <1>1, <1>2, <1>6, <1>9, <2>1, <2>2 DEF RunInv, Progress
<1>12. Scope(x)
  <2>4. ASSUME NEW pair \in r.all
        PROVE  /\ SeenAt(pair[1], pair[2], x)
               /\ \E i \in 1 .. Passed(x) :
                    /\ x.targets[i] = pair[1]
                    /\ pair[1] \in x.included =>
                         \E j \in i .. Len(x.targets) : pair[1] \in Included(Pipeline[x.targets[j]])
    <3>1. SeenAt(pair[1], pair[2], r)
      BY <1>1 DEF RunInv, Scope
    <3>2. PICK i \in 1 .. Passed(r) :
            /\ r.targets[i] = pair[1]
            /\ pair[1] \in r.included =>
                 \E j \in i .. Len(r.targets) : pair[1] \in Included(Pipeline[r.targets[j]])
      BY <1>1 DEF RunInv, Scope
    <3>3. Passed(r) + 1 \in i .. Len(r.targets)
      BY <1>10
    <3>4. pair[1] \in x.included => pair[1] \in r.included \/ pair[1] \in Included(Pipeline[r.targets[Passed(r) + 1]])
      BY <1>6, <1>10
    <3>5. pair[1] \in x.included =>
            \E j \in i .. Len(x.targets) : pair[1] \in Included(Pipeline[x.targets[j]])
      BY <1>6, <3>2, <3>3, <3>4
    <3> QED
      BY <1>6, <1>9, <3>1, <3>2, <3>5 DEF SeenAt
  <2>5. IsFiniteSet(r.all) /\ IsFiniteSet({})
    BY <1>1, FS_EmptySet DEF RunInv, Scope
  <2>6. /\ Files(Now(x)) \subseteq x.scanned /\ Included(Now(x)) \subseteq x.included
        /\ (Head(x.left) \in x.included => Head(x.left) \in Included(Now(x)))
    BY <1>2, <1>6, <1>9
  <2> QED
    BY <1>6, <2>4, <2>5, <2>6 DEF Scope
<1>13. Apart(x.old) /\ Counted(x) /\ Reasoned(x)
  BY <1>1, <1>6 DEF RunInv, Counted, Reasoned, Unanswered
<1>14. Thorough(x)
  <2> SUFFICES ASSUME ~r.errors
               PROVE  Thorough(x)
    BY <1>6 DEF Thorough
  <2>1. PICK S \in SUBSET (1 .. Passed(r)) : Walk(r, S) /\ (r.edits = edits => Finds(r, S))
    BY <1>1, <1>2 DEF RunInv, Thorough
  <2>2. /\ \A i : Done(r, i) => Done(x, i)
        /\ \A i, pair : FromTarget(r, i, pair) => FromTarget(x, i, pair)
    BY <1>6, SameView DEF SameTask
  <2>3. \A i \in S : t \notin Included(Pipeline[r.targets[i]])
    BY <1>2, <2>1 DEF Walk
  <2>4. /\ \A f \in r.included : \E i \in S : f \in Included(Pipeline[r.targets[i]])
        /\ \A f \in r.scanned : \E i \in S : f \in Files(Pipeline[r.targets[i]])
    BY <1>2, <2>1 DEF Walk
  <2>5. Walk(x, S)
    BY <1>6, <1>9, <2>1, <2>3, <2>4 DEF Walk
  <2>6. r.edits = edits => Finds(x, S)
    BY <1>2, <1>6, <2>1, <2>2 DEF Finds, Filtered
  <2>7. Judged(x, Checked(x), x.found)
    <3>1. Checked(x) = {}
      BY <1>4, <1>6, <1>9 DEF Checked
    <3> QED
      BY <1>6, <3>1 DEF Judged, FoundAt
  <2> QED
    BY <1>6, <1>9, <2>1, <2>5, <2>6, <2>7 DEF Thorough
<1> QED
  BY <1>5, <1>6, <1>7, <1>8, <1>11, <1>12, <1>13, <1>14, QuietRun DEF RunInv, r

(* What the rules find on a document. *)
LEMMA FindingsTyped ==
  ASSUME TypeOK, NEW d \in Document, NEW rules
  PROVE  AllFound(d, rules) \subseteq Finding /\ IsFiniteSet(AllFound(d, rules))
<1>1. present \in SUBSET Problem /\ IsFiniteSet(Problem) /\ IsFiniteSet(present)
  BY RunsAssumption, FS_Subset DEF TypeOK
<1>2. \A q \in present : /\ q.rule \in Rule /\ q.file \in File /\ q.text \in Nat /\ Line(q) \in Nat
  BY <1>1, RunsAssumption DEF TypeOK, ProblemType, Line
<1>3. d.file \in File /\ JobLine(d.file) \in Nat
  BY DEF Document, JobLine, TypeOK
<1>4. OwnFindings(d, rules) \subseteq Finding
  BY <1>2, <1>3 DEF OwnFindings, Finding
<1>5. MovedFindings(d, rules) \subseteq Finding
  BY <1>2, <1>3 DEF MovedFindings, Finding, Place
<1> DEFINE own == {x \in present : ShownInFile(x, d, rules)}
           moved == {x \in present : ShownAtJob(x, d, rules)}
           f == [q \in own |-> [rule |-> q.rule, file |-> d.file, line |-> Line(q), text |-> q.text,
                                origin |-> None]]
           g == [q \in moved |-> [rule |-> q.rule, file |-> d.file, line |-> JobLine(d.file),
                                  text |-> q.text, origin |-> [file |-> q.file, line |-> Line(q)]]]
<1>6. own \in SUBSET present /\ moved \in SUBSET present
  OBVIOUS
<1>7. IsFiniteSet(own) /\ IsFiniteSet(moved)
  BY <1>1, <1>6, FS_Subset
<1>8. f \in Surjection(own, OwnFindings(d, rules))
  BY DEF Surjection, OwnFindings
<1>9. g \in Surjection(moved, MovedFindings(d, rules))
  BY DEF Surjection, MovedFindings
<1>10. IsFiniteSet(OwnFindings(d, rules)) /\ IsFiniteSet(MovedFindings(d, rules))
  BY <1>7, <1>8, <1>9, FS_Surjection
<1>11. IsFiniteSet(AllFound(d, rules))
  BY <1>10, FS_Union DEF AllFound
<1> QED
  BY <1>4, <1>5, <1>11 DEF AllFound

LEMMA FoundIn ==
  ASSUME NEW d \in Document, NEW rules, NEW f \in AllFound(d, rules)
  PROVE  f.rule \in rules /\ f.file = d.file /\ (f.rule \in RootRule => ~d.included)
BY DEF AllFound, OwnFindings, ShownInFile, MovedFindings, ShownAtJob, RuleRuns, Document

(* The documents that are checked grow by the first that was left. *)
LEMMA CheckedNext ==
  ASSUME NEW r \in Run, Progress(r), r.at = "document", r.docs # << >>, Now(r) \in Seq(Document),
         NEW x, x.docs = Tail(r.docs), x.left = r.left
  PROVE  /\ Checked(x) = Checked(r) \cup {Head(r.docs)}
         /\ Head(r.docs) \in ToSet(Now(r)) /\ Head(r.docs) \in Document
         /\ Len(x.docs) <= Len(Now(x))
         /\ \A i \in 1 .. Len(x.docs) : x.docs[i] = Now(x)[Len(Now(x)) - Len(x.docs) + i]
<1> DEFINE n == Len(Now(r))
           m == Len(r.docs)
<1>1. n \in Nat /\ m \in Nat \ {0} /\ m <= n /\ r.docs \in Seq(Document)
  BY DEF Run, Progress
<1>2. \A i \in 1 .. m : r.docs[i] = Now(r)[n - m + i]
  BY DEF Progress
<1>3. Now(x) = Now(r)
  BY DEF Now
<1>4. Len(x.docs) = m - 1 /\ \A i \in 1 .. m - 1 : x.docs[i] = r.docs[i + 1]
  BY <1>1, HeadTailProperties
<1>5. Head(r.docs) = r.docs[1] /\ r.docs[1] \in Document
  BY <1>1
<1> HIDE DEF n, m
<1>6. Head(r.docs) = Now(r)[n - m + 1]
  BY <1>1, <1>2, <1>5
<1>7. n - m + 1 \in 1 .. n /\ n - (m - 1) = n - m + 1
  BY <1>1
<1>8. 1 .. n - (m - 1) = (1 .. n - m) \cup {n - m + 1}
  BY <1>1
<1>9. Checked(x) = {Now(r)[i] : i \in 1 .. n - (m - 1)} /\ Checked(r) = {Now(r)[i] : i \in 1 .. n - m}
  BY <1>3, <1>4 DEF Checked, n, m
<1>10. Checked(x) = Checked(r) \cup {Head(r.docs)}
  BY <1>6, <1>8, <1>9
<1>11. DOMAIN Now(r) = 1 .. n
  BY DEF n
<1>12. Head(r.docs) \in ToSet(Now(r))
  BY <1>6, <1>7, <1>11 DEF ToSet
<1>13. Len(x.docs) <= Len(Now(x))
  BY <1>1, <1>3, <1>4 DEF n
<1>14. ASSUME NEW i \in 1 .. Len(x.docs)
       PROVE  x.docs[i] = Now(x)[Len(Now(x)) - Len(x.docs) + i]
  <2>1. i \in 1 .. m - 1 /\ i + 1 \in 1 .. m
    BY <1>1, <1>4
  <2>2. n - m + (i + 1) = n - (m - 1) + i
    BY <1>1, <2>1
  <2>3. x.docs[i] = Now(r)[n - m + (i + 1)]
    BY <1>2, <1>4, <2>1
  <2> QED
    BY <1>3, <1>4, <2>2, <2>3 DEF n
<1> QED
  BY <1>5, <1>10, <1>12, <1>13, <1>14

LEMMA EntriesHeld ==
  ASSUME TypeOK, Remembering, Scanning, NEW r \in Run, Counted(r), NEW i \in DOMAIN ignore
  PROVE  ignore[i] \in HeldSince(r.writes)
<1>1. <<writes, ignore[i]>> \in held
  BY DEF Remembering, ToSet
<1>2. r.writes <= <<writes, ignore[i]>>[1]
  BY DEF Counted
<1> QED
  BY <1>1, <1>2 DEF HeldSince

(* What a comment or an entry keeps from being reported, and what not.     *)
LEMMA SuppressedIsSilent ==
  ASSUME TypeOK, NEW r \in Run, Counted(r), NEW f, Suppressed(f, r.mode),
         r.mode = "scan" => \A i \in DOMAIN ignore : ignore[i] \in HeldSince(r.writes)
  PROVE  Silent(f, r)
<1>1. r.day \in Int /\ today \in Int /\ r.day <= today
  BY RunsAssumption DEF TypeOK, Run, Day, Counted
<1>2. \A rule, file, line : Commented(rule, file, line, today) => Commented(rule, file, line, r.day)
  BY <1>1, CommentedBefore
<1>3. CASE AtItsTemplate(f) \/ r.mode = "newonly" \/ Matching(f) = {}
  BY <1>2, <1>3 DEF Suppressed, AtItsTemplate, AtItsLine, Silent
<1>4. CASE r.mode = "scan" /\ Matching(f) # {}
  <2>1. PICK i \in DOMAIN ignore : ignore[i].file = f.file /\ ignore[i].line = f.line /\ ignore[i].rule = f.rule
    BY <1>4 DEF Matching
  <2>2. ignore[i] \in HeldSince(r.writes)
    BY <1>4
  <2> QED
    BY <1>4, <2>1, <2>2 DEF Silent, Excused
<1> QED
  BY <1>3, <1>4 DEF Suppressed

LEMMA NotSuppressed ==
  ASSUME TypeOK, NEW r \in Run, NEW f, r.mode = "scan", ~Suppressed(f, r.mode),
         \A i \in DOMAIN ignore : ignore[i] \in HeldSince(r.writes)
  PROVE  Unanswered(f, r)
<1>1. ~AtItsTemplate(f) /\ ~AtItsLine(f, "scan")
  BY DEF Suppressed
<1>2. Uncovered(f)
  BY <1>1 DEF Uncovered, AtItsLine
<1>3. CASE Matching(f) = {}
  BY <1>1, <1>2, <1>3 DEF Unanswered, UncoveredSince, AtItsLine
<1>4. CASE Matching(f) # {}
  <2>1. Len(ignore) \in Nat /\ Matching(f) \in SUBSET (1 .. Len(ignore))
    BY DEF TypeOK, Matching
  <2>2. PICK k \in DOMAIN ignore : k = Max(Matching(f)) /\ k \in Matching(f)
    BY <1>4, <2>1, MaxOf DEF Matching
  <2>3. Expired(ignore[k])
    BY <1>1, <1>4, <2>2 DEF AtItsLine
  <2>4. /\ ignore[k].file = f.file /\ ignore[k].line = f.line /\ ignore[k].rule = f.rule
        /\ ignore[k] \in HeldSince(r.writes)
    BY <2>2 DEF Matching
  <2> QED
    BY <1>1, <1>2, <2>3, <2>4 DEF Unanswered, UncoveredSince
<1> QED
  BY <1>3, <1>4

LEMMA CheckDocumentIInv ==
  ASSUME IInv, [Next]_vars, NEW p \in Proc, CheckDocument(p)
  PROVE  IInv'
<1> DEFINE r == run[p]
           d == Head(r.docs)
           new == Reported(d, r)
           x == [r EXCEPT !.docs = Tail(r.docs), !.found = r.found \cup new]
<1>1. r \in Run /\ RunInv(r) /\ run \in [Proc -> Run]
  BY DEF IInv, TypeOK
<1>2. r.at = "document" /\ r.docs # << >>
  BY DEF CheckDocument, At
<1>3. r.docs \in Seq(Document) /\ d \in Document /\ Tail(r.docs) \in Seq(Document)
  BY <1>1, <1>2, HeadTailProperties DEF Run
<1>4. r.left # << >> /\ Head(r.left) \in File /\ Now(r) \in Seq(Document)
  <2>1. r.left # << >> /\ r.left \in Seq(File)
    BY <1>1, <1>2 DEF Run, RunInv, Progress
  <2>2. Head(r.left) \in File
    BY <2>1, HeadTailProperties
  <2> QED
    BY <2>1, <2>2, PipelineTyped DEF Now
<1>5. new \subseteq AllFound(d, r.rules)
  BY DEF Reported, AllFound
<1>6. new \subseteq Finding /\ IsFiniteSet(new)
  BY <1>3, <1>5, FindingsTyped, FS_Subset DEF IInv
<1>7. x \in Run
  BY <1>1, <1>3, <1>6 DEF Run
<1>8. /\ x.at = "document" /\ x.docs = Tail(r.docs) /\ x.found = r.found \cup new /\ x.all = r.all
      /\ x.old = r.old /\ x.scanned = r.scanned /\ x.included = r.included
      /\ x.left = r.left /\ x.targets = r.targets /\ x.rules = r.rules /\ x.mode = r.mode
      /\ x.errors = r.errors /\ x.day = r.day /\ x.edits = r.edits /\ x.writes = r.writes
  BY <1>1, <1>2 DEF Run
<1>9. run' = [run EXCEPT ![p] = x]
  BY <1>1 DEF CheckDocument
<1>10. UNCHANGED <<World, ignore, held, writes, basis>> /\ started' \in Nat
  BY DEF CheckDocument, IInv, TypeOK
<1>11. \A f \in AllFound(d, r.rules) : f \in new \/ Suppressed(f, r.mode)
  BY DEF Reported, AllFound
<1>12. \A f \in new : ~Suppressed(f, r.mode)
  BY DEF Reported
<1>20. TypeOK /\ Counted(r) /\ (r.mode = "scan" => Scanning /\ \A i \in DOMAIN ignore : ignore[i] \in HeldSince(r.writes))
  <2>1. TypeOK /\ Counted(r)
    BY <1>1 DEF IInv, RunInv
  <2>2. r.mode = "scan" => Scanning
    BY DEF Scanning
  <2> QED
    BY <1>1, <2>1, <2>2, EntriesHeld DEF IInv
<1> HIDE DEF x, r, d, new
<1>13. /\ Checked(x) = Checked(r) \cup {d}
       /\ d \in ToSet(Now(r))
       /\ Len(x.docs) <= Len(Now(x))
       /\ \A i \in 1 .. Len(x.docs) : x.docs[i] = Now(x)[Len(Now(x)) - Len(x.docs) + i]
  BY <1>1, <1>2, <1>4, <1>8, CheckedNext DEF RunInv, d
<1>14. Now(x) = Now(r) /\ Passed(x) = Passed(r)
  BY <1>8 DEF Now, Passed
<1>15. Progress(x)
  BY ZenonT(40), <1>1, <1>4, <1>8, <1>13, <1>14 DEF RunInv, Progress
<1>16. Scope(x)
  <2>1. ASSUME NEW f \in new
        PROVE  SeenAt(Head(r.left), f, r)
    <3>1. f.rule \in r.rules /\ f.file = d.file /\ (f.rule \in RootRule => ~d.included)
      BY <1>3, <1>5, FoundIn
    <3>2. d.file \in r.scanned
      BY <1>1, <1>2, <1>13 DEF RunInv, Scope, Files
    <3> QED
      BY <1>13, <3>1, <3>2 DEF SeenAt, Now
  <2>2. IsFiniteSet(x.found)
    <3>1. IsFiniteSet(r.found)
      BY <1>1, <1>2 DEF RunInv, Scope
    <3> QED
      <4>1. IsFiniteSet(r.found \cup new)
        BY <1>6, <3>1, FS_Union
      <4> QED
        BY <1>8, <4>1
  <2>3. \A t, f : SeenAt(t, f, r) => SeenAt(t, f, x)
    BY <1>8 DEF SeenAt
  <2> QED
    BY <1>1, <1>2, <1>8, <1>14, <2>1, <2>2, <2>3 DEF RunInv, Scope
<1>17. ASSUME r.mode = "scan", NEW f \in new
       PROVE  Unanswered(f, r)
  BY <1>1, <1>12, <1>17, <1>20, NotSuppressed
<1>18. Apart(x.old) /\ Counted(x) /\ Reasoned(x)
  BY <1>1, <1>2, <1>8, <1>17 DEF RunInv, Counted, Reasoned, Unanswered
<1>19. Thorough(x)
  <2> SUFFICES ASSUME ~r.errors
               PROVE  Thorough(x)
    BY <1>8 DEF Thorough
  <2>1. PICK S \in SUBSET (1 .. Passed(r)) : Walk(r, S) /\ (r.edits = edits => Finds(r, S))
    BY <1>1, <1>2 DEF RunInv, Thorough
  <2>2. Walk(x, S)
    BY <1>2, <1>8, <1>14, <2>1 DEF Walk
  <2>3. /\ \A i : Done(r, i) => Done(x, i)
        /\ \A i, pair : FromTarget(r, i, pair) => FromTarget(x, i, pair)
    BY <1>8, SameView DEF SameTask
  <2>4. r.edits = edits => Finds(x, S)
    BY <1>2, <1>8, <2>1, <2>3 DEF Finds, Filtered
  <2>5. r.edits = edits => Judged(r, Checked(r), r.found)
    BY <1>1, <1>2 DEF RunInv, Thorough
  <2>6. FoundAt(Checked(x), r.rules) = FoundAt(Checked(r), r.rules) \cup AllFound(d, r.rules)
    BY <1>13 DEF FoundAt
  <2>7. \A f : Suppressed(f, r.mode) => Silent(f, r)
    BY <1>1, <1>20, SuppressedIsSilent
  <2>8. \A f : Silent(f, r) => Silent(f, x)
    BY <1>8 DEF Silent, Excused
  <2>9. r.edits = edits => Judged(x, Checked(x), x.found)
    BY <1>5, <1>8, <1>11, <2>5, <2>6, <2>7, <2>8 DEF Judged
  <2> QED
    BY <1>8, <1>14, <2>1, <2>2, <2>4, <2>9 DEF Thorough
<1> QED
  BY <1>7, <1>8, <1>9, <1>10, <1>15, <1>16, <1>18, <1>19, QuietRun DEF RunInv, r

(* DedupeMoved loses no configuration: one of the findings on it stays,    *)
(* and of the moved ones no other comes before it.                         *)
LEMMA DedupedOf ==
  ASSUME NEW docs \in Seq(Document), NEW found
  PROVE  /\ Deduped(docs, found) \subseteq found
         /\ \A f \in found : \E g \in Deduped(docs, found) :
              g = f \/ (SameConfiguration(f, g) /\ f.origin # None)
         /\ \A f \in found : f.origin = None => f \in Deduped(docs, found)
         /\ \A g \in Deduped(docs, found) : g.origin # None =>
              \A h \in found :
                /\ h.origin = None => ~SameConfiguration(g, h)
                /\ h.origin # None /\ SameConfiguration(h, g) => ~Before(docs, h, g)
<1> DEFINE own == {f \in found : f.origin = None}
           moved == {f \in found : f.origin # None /\ \A g \in own : ~SameConfiguration(f, g)}
           Alternatives(f) == {g \in moved : SameConfiguration(g, f)}
           First(f, g) == SameConfiguration(g, f) /\ \A h \in moved : SameConfiguration(h, f) => ~Before(docs, h, g)
           first(f) == CHOOSE g \in moved : First(f, g)
<1>1. \A f \in moved : f \in Alternatives(f)
  BY DEF SameConfiguration
<1>2. ASSUME NEW f \in moved
      PROVE  \E g \in moved : First(f, g)
  <2> DEFINE T == {i \in DOMAIN docs : \E g \in Alternatives(f) : Moves(docs[i], g)}
  <2>1. CASE T = {}
    <3>1. \A h \in moved : SameConfiguration(h, f) => ~Before(docs, h, f)
      BY <2>1 DEF Before
    <3> QED
      BY <1>1, <3>1
  <2>2. CASE T # {}
    <3>1. PICK i \in T : \A j \in T : i <= j
      <4>1. T \subseteq Nat
        OBVIOUS
      <4> HIDE DEF T
      <4> QED
        BY <2>2, <4>1, LeastNat
    <3>2. PICK g \in Alternatives(f) : Moves(docs[i], g)
      BY <3>1
    <3>3. ASSUME NEW h \in moved, SameConfiguration(h, f), Before(docs, h, g)
          PROVE  FALSE
      <4>1. PICK k \in DOMAIN docs : Moves(docs[k], h) /\ \A j \in 1 .. k : ~Moves(docs[j], g)
        BY <3>3 DEF Before
      <4>2. k \in T /\ i <= k
        BY <3>1, <3>3, <4>1
      <4>3. i \in 1 .. k
        BY <4>2
      <4> QED
        BY <3>2, <4>1, <4>3
    <3> QED
      BY <3>2, <3>3
  <2> QED
    BY <2>1, <2>2
<1>3. \A f \in moved : first(f) \in moved /\ First(f, first(f))
  <2> HIDE DEF moved, First
  <2> QED
    BY <1>2
<1>4. Deduped(docs, found) = own \cup {first(f) : f \in moved}
  BY DEF Deduped
<1> HIDE DEF first
<1>5. \A f \in moved : first(f).origin = f.origin /\ first(f).rule = f.rule /\ first(f).text = f.text
  BY <1>3 DEF SameConfiguration
<1>6. \A f \in moved : SameConfiguration(f, first(f))
  BY <1>3, <1>5 DEF SameConfiguration
<1>7. \A f \in moved : \A h : SameConfiguration(h, first(f)) => SameConfiguration(h, f)
  BY <1>3, <1>5 DEF SameConfiguration
<1>8. ASSUME NEW g \in Deduped(docs, found), g.origin # None, NEW h \in found
      PROVE  /\ h.origin = None => ~SameConfiguration(g, h)
             /\ h.origin # None /\ SameConfiguration(h, g) => ~Before(docs, h, g)
  <2>1. PICK f \in moved : g = first(f)
    BY <1>4, <1>8
  <2>2. g \in moved /\ First(f, g)
    BY <1>3, <2>1
  <2>3. h.origin # None /\ SameConfiguration(h, g) => h \in moved
    <3>1. \A e : SameConfiguration(h, g) /\ SameConfiguration(h, e) /\ g.origin # None => SameConfiguration(g, e)
      BY DEF SameConfiguration
    <3> QED
      BY <1>8, <2>2, <3>1
  <2> QED
    BY <1>7, <2>1, <2>2, <2>3
<1> QED
  BY <1>3, <1>4, <1>6, <1>8

LEMMA EndTargetIInv ==
  ASSUME IInv, [Next]_vars, NEW p \in Proc, EndTarget(p)
  PROVE  IInv'
<1> DEFINE r == run[p]
           t == Head(r.left)
           new == {t} \X Deduped(Pipeline[t], r.found)
           x == [r EXCEPT !.at = "target", !.left = Tail(r.left), !.found = {}, !.all = r.all \cup new]
<1>1. r \in Run /\ RunInv(r) /\ run \in [Proc -> Run]
  BY DEF IInv, TypeOK
<1>2. r.at = "document" /\ r.docs = << >> /\ r.left # << >>
  BY <1>1 DEF EndTarget, At, RunInv, Progress
<1>3. r.left \in Seq(File) /\ t \in File /\ Tail(r.left) \in Seq(File)
  BY <1>1, <1>2, HeadTailProperties DEF Run
<1>4. new \subseteq File \X Finding /\ IsFiniteSet(new)
  <2>1. Deduped(Pipeline[t], r.found) \subseteq r.found /\ r.found \subseteq Finding
    BY <1>1, <1>3, PipelineTyped, DedupedOf DEF Run
  <2>2. IsFiniteSet(r.found)
    BY <1>1, <1>2 DEF RunInv, Scope
  <2>3. IsFiniteSet(Deduped(Pipeline[t], r.found)) /\ IsFiniteSet({t})
    BY <2>1, <2>2, FS_Subset, FS_Singleton
  <2>4. IsFiniteSet(new)
    BY <2>3, FS_Product
  <2> QED
    BY <1>3, <2>1, <2>4
<1>5. x \in Run
  <2>1. "target" \in Steps /\ {} \in SUBSET Finding
    BY DEF Steps
  <2> HIDE DEF new
  <2>2. r.all \cup new \in SUBSET (File \X Finding)
    BY <1>1, <1>4 DEF Run
  <2> QED
    BY <1>1, <1>3, <2>1, <2>2 DEF Run
<1>6. /\ x.at = "target" /\ x.docs = r.docs /\ x.found = {} /\ x.all = r.all \cup new
      /\ x.old = r.old /\ x.scanned = r.scanned /\ x.included = r.included
      /\ x.left = Tail(r.left) /\ x.targets = r.targets /\ x.rules = r.rules /\ x.mode = r.mode
      /\ x.errors = r.errors /\ x.day = r.day /\ x.edits = r.edits /\ x.writes = r.writes
  BY <1>1 DEF Run
<1>7. run' = [run EXCEPT ![p] = x]
  BY <1>1 DEF EndTarget, NextTarget, Run
<1>8. UNCHANGED <<World, ignore, held, writes, basis>> /\ started' \in Nat
  BY DEF EndTarget, IInv, TypeOK
<1>9. \A pair \in new : pair[1] = t /\ pair[2] \in r.found /\ pair[2] \in Deduped(Pipeline[t], r.found)
  BY <1>3, PipelineTyped, DedupedOf
<1> HIDE DEF x, r
<1>10. /\ Len(x.left) <= Len(x.targets)
       /\ \A i \in 1 .. Len(x.left) : x.left[i] = x.targets[Passed(x) + i]
       /\ Passed(r) \in Nat /\ Passed(x) = Passed(r) + 1
       /\ Passed(x) \in 1 .. Len(r.targets)
       /\ r.targets[Passed(r) + 1] = t
  BY <1>1, <1>2, <1>5, <1>6, TailOfTargets DEF RunInv
<1>11. Progress(x)
  BY <1>1, <1>6, <1>10 DEF RunInv, Progress
<1>12. Scope(x)
  <2>1. \A u, f : SeenAt(u, f, r) => SeenAt(u, f, x)
    BY <1>6 DEF SeenAt
  <2>2. IsFiniteSet(x.all)
    <3>1. IsFiniteSet(r.all)
      BY <1>1 DEF RunInv, Scope
    <3> HIDE DEF new
    <3> QED
      <4>1. IsFiniteSet(r.all \cup new)
        BY <1>4, <3>1, FS_Union
      <4> QED
        BY <1>6, <4>1
  <2>3. ASSUME NEW pair \in r.all
        PROVE  /\ SeenAt(pair[1], pair[2], x)
               /\ \E i \in 1 .. Passed(x) :
                    /\ x.targets[i] = pair[1]
                    /\ pair[1] \in x.included =>
                         \E j \in i .. Len(x.targets) : pair[1] \in Included(Pipeline[x.targets[j]])
    <3>1. 1 .. Passed(r) \subseteq 1 .. Passed(x)
      BY <1>10
    <3> QED
      BY <1>1, <1>6, <2>1, <3>1 DEF RunInv, Scope
  <2>4. ASSUME NEW pair \in new
        PROVE  /\ SeenAt(pair[1], pair[2], x)
               /\ \E i \in 1 .. Passed(x) :
                    /\ x.targets[i] = pair[1]
                    /\ pair[1] \in x.included =>
                         \E j \in i .. Len(x.targets) : pair[1] \in Included(Pipeline[x.targets[j]])
    <3>1. pair[1] = t /\ SeenAt(t, pair[2], x)
      BY <1>1, <1>2, <1>9, <2>1 DEF RunInv, Scope
    <3>2. t \in r.included => t \in Included(Pipeline[t])
      BY <1>1, <1>2 DEF RunInv, Scope, Now
    <3>3. Passed(x) \in 1 .. Passed(x) /\ Passed(x) \in Passed(x) .. Len(r.targets)
      BY <1>10
    <3>4. r.targets[Passed(x)] = t
      BY <1>10
    <3> QED
      BY <1>6, <3>1, <3>2, <3>3, <3>4
  <2> HIDE DEF new
  <2> QED
    BY <1>6, <2>2, <2>3, <2>4 DEF Scope
<1>13. Apart(x.old) /\ Counted(x) /\ Reasoned(x)
  <2>1. Apart(x.old) /\ Counted(x)
    BY <1>1, <1>6 DEF RunInv, Counted
  <2>2. ASSUME r.mode = "scan", r.edits = edits, NEW pair \in x.all
        PROVE  Unanswered(pair[2], r)
    <3> HIDE DEF new
    <3>1. CASE pair \in r.all
      BY <1>1, <2>2, <3>1 DEF RunInv, Reasoned
    <3>2. CASE pair \in new
      BY <1>1, <1>2, <1>9, <2>2, <3>2 DEF RunInv, Reasoned
    <3> QED
      BY <1>6, <3>1, <3>2
  <2> QED
    BY <1>6, <2>1, <2>2 DEF Reasoned, Unanswered
<1>14. Thorough(x)
  <2> SUFFICES ASSUME ~r.errors
               PROVE  Thorough(x)
    BY <1>6 DEF Thorough
  <2>1. PICK S \in SUBSET (1 .. Passed(r)) : Walk(r, S) /\ (r.edits = edits => Finds(r, S))
    BY <1>1, <1>2 DEF RunInv, Thorough
  <2> DEFINE n == Passed(r) + 1
             T == S \cup {n}
  <2>2. Consistent(r.targets, n, T) /\ T \in SUBSET (1 .. Passed(x))
    <3>1. Consistent(r.targets, n, T)
      BY <1>2, <1>10, <2>1, ConsistentTake DEF Walk
    <3> QED
      BY <1>10, <3>1 DEF Consistent
  <2>3. Now(r) = Pipeline[r.targets[n]] /\ r.targets[n] = t
    BY <1>10 DEF Now
  <2>4. Walk(x, T)
    <3>1. Passed(x) = n
      BY <1>10
    <3>2. Included(Now(r)) \subseteq r.included /\ Files(Now(r)) \subseteq r.scanned
      BY <1>1, <1>2 DEF RunInv, Scope
    <3>3. \A i \in T : /\ Included(Pipeline[r.targets[i]]) \subseteq r.included
                       /\ Files(Pipeline[r.targets[i]]) \subseteq r.scanned
      BY <2>1, <2>3, <3>2 DEF Walk
    <3>4. /\ \A f \in r.included : \E i \in T : f \in Included(Pipeline[r.targets[i]])
          /\ \A f \in r.scanned : \E i \in T : f \in Files(Pipeline[r.targets[i]])
      BY <2>1, <2>3 DEF Walk
    <3> HIDE DEF T, n, new
    <3> QED
      BY <1>6, <2>2, <3>1, <3>3, <3>4 DEF Walk
  <2>5. ASSUME r.edits = edits
        PROVE  Finds(x, T)
    <3>1. Judged(r, ToSet(Now(r)), r.found)
      <4>1. Now(r) \in Seq(Document)
        BY <1>3, PipelineTyped DEF Now
      <4>2. Len(Now(r)) - Len(r.docs) = Len(Now(r)) /\ DOMAIN Now(r) = 1 .. Len(Now(r))
        BY <1>2, <4>1
      <4>3. Checked(r) = ToSet(Now(r))
        BY <4>2 DEF Checked, ToSet
      <4> QED
        BY <1>1, <1>2, <2>5, <4>3 DEF RunInv, Thorough
    <3>2. /\ \A docs, found : Judged(r, docs, found) => Judged(x, docs, found)
          /\ \A i, pair : FromTarget(r, i, pair) => FromTarget(x, i, pair)
      BY <1>6, SameView DEF SameTask
    <3>3. \A i : Done(r, i) => Done(x, i)
      <4> HIDE DEF new
      <4> QED
        BY <1>6, SameView DEF SameTask
    <3>4. Done(x, n)
      <4>1. r.found \in SUBSET FoundAt(ToSet(Pipeline[x.targets[n]]), x.rules)
        BY <1>6, <2>3, <3>1 DEF Judged
      <4>2. {x.targets[n]} \X Deduped(Pipeline[x.targets[n]], r.found) \subseteq x.all
        BY <1>6, <2>3
      <4> QED
        BY <1>6, <2>3, <3>1, <3>2, <4>1, <4>2 DEF Done
    <3>5. ASSUME NEW pair \in x.all
          PROVE  \E i \in T : FromTarget(x, i, pair)
      <4>1. CASE pair \in r.all
        BY <2>1, <2>5, <3>2, <4>1 DEF Finds
      <4>2. CASE pair \in new
        <5>1. pair[1] = x.targets[n] /\ pair[2] \in Deduped(Pipeline[x.targets[n]], r.found)
          BY <1>6, <1>9, <2>3, <4>2
        <5>2. r.found \in SUBSET FoundAt(ToSet(Pipeline[x.targets[n]]), x.rules)
          BY <1>6, <2>3, <3>1 DEF Judged
        <5>3. Judged(x, ToSet(Pipeline[x.targets[n]]), r.found)
          BY <1>6, <2>3, <3>1, <3>2
        <5>4. FromTarget(x, n, pair)
          BY <5>1, <5>2, <5>3 DEF FromTarget
        <5> QED
          BY <5>4
      <4> HIDE DEF new
      <4> QED
        BY <1>6, <4>1, <4>2
    <3> HIDE DEF n, new
    <3>6. \A i \in T : Done(x, i)
      BY <1>2, <2>1, <2>5, <3>3, <3>4 DEF Finds, Filtered
    <3> QED
      BY <3>5, <3>6 DEF Finds
  <2> QED
    BY <1>6, <2>2, <2>4, <2>5 DEF Thorough
<1> QED
  BY <1>5, <1>6, <1>7, <1>8, <1>11, <1>12, <1>13, <1>14, QuietRun DEF RunInv, r

(* A run that is about to write, or has written, has all it had.           *)
LEMMA AtTheEnd ==
  ASSUME NEW r \in Run, RunInv(r), r.at \in {"write", "torn"}, NEW x \in Run,
         x.at \in {"torn", "done"}, x.left = r.left, x.errors = r.errors, SameSummary(x, r),
         x.all = r.all, x.old = r.old
  PROVE  RunInv(x)
<1>1. r.mode = "generate" /\ r.left = << >> /\ ~r.errors /\ Passed(x) = Passed(r)
  BY DEF RunInv, Progress, Passed, SameSummary
<1>2. Progress(x)
  BY <1>1 DEF RunInv, Progress, SameSummary
<1>3. Scope(x) /\ Counted(x) /\ Reasoned(x) /\ Apart(x.old)
  BY <1>1, SameScope DEF RunInv
<1>4. Thorough(x)
  <2>1. PICK S \in SUBSET (1 .. Passed(r)) : Walk(r, S) /\ (r.edits = edits => Finds(r, S))
    BY <1>1 DEF RunInv, Thorough
  <2>2. Walk(x, S)
    BY <1>1, <2>1 DEF SameSummary, Walk
  <2>3. /\ \A i : Done(r, i) => Done(x, i)
        /\ \A i, pair : FromTarget(r, i, pair) => FromTarget(x, i, pair)
    BY SameView DEF SameSummary, SameTask
  <2>4. r.edits = edits => Finds(x, S)
    BY <1>1, <2>1, <2>3 DEF SameSummary, Finds, Filtered
  <2> QED
    BY <1>1, <2>1, <2>2, <2>4 DEF Thorough, SameSummary
<1> QED
  BY <1>2, <1>3, <1>4 DEF RunInv

LEMMA TypedAfter ==
  ASSUME TypeOK, NEW p \in Proc, NEW x \in Run, run' = [run EXCEPT ![p] = x], Progress(x),
         UNCHANGED <<World, started>>, ignore' \in Seq(Entry), writes' = writes + 1,
         basis' = None \/ basis' \in Baseline, Hold \/ UNCHANGED held
  PROVE  TypeOK'
<1>1. \A q \in Proc : run'[q].included \subseteq run'[q].scanned
  BY DEF TypeOK, Progress
<1>2. run' \in [Proc -> Run]
  BY DEF TypeOK
<1>3. held' \subseteq Nat \X Entry
  BY HeldTyped DEF TypeOK
<1> QED
  BY <1>1, <1>2, <1>3 DEF TypeOK, World

LEMMA TruncateIInv ==
  ASSUME IInv, [Next]_vars, NEW p \in Proc, Truncate(p)
  PROVE  IInv'
<1> DEFINE r == run[p]
           x == [r EXCEPT !.at = "torn"]
<1>1. TypeOK /\ r \in Run /\ RunInv(r) /\ run \in [Proc -> Run]
  BY DEF IInv, TypeOK
<1>2. r.at = "write"
  BY DEF Truncate, At
<1>3. x \in Run
  BY <1>1 DEF Run, Steps
<1>4. /\ x.at = "torn" /\ x.left = r.left /\ x.errors = r.errors /\ SameSummary(x, r)
      /\ x.all = r.all /\ x.old = r.old
  BY <1>1 DEF Run, SameSummary
<1>5. run' = [run EXCEPT ![p] = x]
  BY <1>1 DEF Truncate
<1>6. UNCHANGED <<World, held, started, basis>> /\ ignore' = << >> /\ writes' = writes + 1
  BY DEF Truncate
<1> HIDE DEF x, r
<1>7. RunInv(x)
  BY <1>1, <1>2, <1>3, <1>4, AtTheEnd
<1>8. TypeOK'
  <2>1. ignore' \in Seq(Entry)
    BY <1>6
  <2>2. basis' = None \/ basis' \in Baseline
    BY <1>1, <1>6 DEF TypeOK
  <2> QED
    BY <1>1, <1>3, <1>5, <1>6, <1>7, <2>1, <2>2, TypedAfter DEF RunInv
<1>9. BasisRight'
  BY <1>1, <1>6, <1>8, StepForward, KeepBasis DEF IInv
<1>10. Apart(ignore')
  BY <1>6 DEF Apart
<1>11. Remembering'
  <2>1. ToSet(ignore') = {}
    BY <1>6 DEF ToSet
  <2> QED
    BY <1>1, <1>6, <2>1, KeepRemembering DEF IInv
<1> QED
  BY <1>3, <1>5, <1>7, <1>8, <1>9, <1>10, <1>11, OneRun

(* What a run writes that is in order. *)
LEMMA NewIgnoreRight ==
  ASSUME NEW r \in Run, RunInv(r)
  PROVE  /\ NewIgnore(r) \in Seq(Entry)
         /\ Apart(NewIgnore(r))
         /\ \A i \in Rest(r) : r.old[i] \in ToSet(NewIgnore(r))
         /\ \A place \in FoundPlaces(r) : Lines(r, place) \in ToSet(NewIgnore(r))
         /\ \A i \in DOMAIN NewIgnore(r) :
              Covered(r, NewIgnore(r)[i]) => \E place \in FoundPlaces(r) : NewIgnore(r)[i] = Lines(r, place)
<1>1. r.old \in Seq(Entry) /\ r.all \subseteq File \X Finding
  BY DEF Run
<1>2. IsFiniteSet(r.all) /\ Apart(r.old)
  BY DEF RunInv, Scope
<1>3. \A pair \in r.all : pair[2].rule \in r.rules /\ pair[2].file \in r.scanned
  BY DEF RunInv, Scope, SeenAt
<1> QED
  BY <1>1, <1>2, <1>3, NewIgnoreOf

LEMMA WriteFailsIInv ==
  ASSUME IInv, [Next]_vars, NEW p \in Proc, WriteFails(p)
  PROVE  IInv'
<1> DEFINE r == run[p]
           x == [r EXCEPT !.at = "done", !.exit = 2]
           new == NewIgnore(r)
<1>1. TypeOK /\ r \in Run /\ RunInv(r) /\ run \in [Proc -> Run]
  BY DEF IInv, TypeOK
<1>2. r.at = "torn"
  BY DEF WriteFails, At
<1>3. x \in Run
  <2>1. "done" \in Steps /\ 2 \in 0 .. 2
    BY DEF Steps
  <2> QED
    BY <1>1, <2>1 DEF Run
<1>4. /\ x.at = "done" /\ x.left = r.left /\ x.errors = r.errors /\ SameSummary(x, r)
      /\ x.all = r.all /\ x.old = r.old
  BY <1>1 DEF Run, SameSummary
<1>5. run' = [run EXCEPT ![p] = x]
  BY <1>1 DEF WriteFails
<1>6. UNCHANGED <<World, started, basis>> /\ writes' = writes + 1 /\ Hold
  BY DEF WriteFails
<1>7. PICK n \in 0 .. Len(new) : ignore' = SubSeq(new, 1, n)
  BY DEF WriteFails
<1>8. new \in Seq(Entry) /\ Apart(new)
  BY <1>1, NewIgnoreRight
<1> HIDE DEF x, r, new
<1>9. /\ ignore' \in Seq(Entry)
      /\ DOMAIN ignore' = 1 .. n /\ \A i \in 1 .. n : ignore'[i] = new[i] /\ i \in DOMAIN new
  BY <1>7, <1>8
<1>10. Apart(ignore')
  BY <1>8, <1>9 DEF Apart
<1>11. RunInv(x)
  BY <1>1, <1>2, <1>3, <1>4, AtTheEnd
<1>12. TypeOK'
  <2>1. basis' = None \/ basis' \in Baseline
    BY <1>1, <1>6 DEF TypeOK
  <2> QED
    BY <1>1, <1>3, <1>5, <1>6, <1>9, <1>11, <2>1, TypedAfter DEF RunInv
<1>13. BasisRight'
  BY <1>1, <1>6, <1>12, StepForward, KeepBasis DEF IInv
<1>14. Remembering'
  BY <1>1, <1>6, KeepRemembering DEF IInv
<1> QED
  BY <1>3, <1>5, <1>10, <1>11, <1>12, <1>13, <1>14, OneRun

(* What --generate-ignore found has an entry. *)
LEMMA FoundIsAccepted ==
  ASSUME NEW r \in Run, RunInv(r), r.at = "torn", r.edits = edits, ignore' = NewIgnore(r)
  PROVE  \E S \in SUBSET (1 .. Len(r.targets)) :
           /\ Consistent(r.targets, Len(r.targets), S)
           /\ \A i \in S : \A f \in Deduped(Pipeline[r.targets[i]], FoundAt(ToSet(Pipeline[r.targets[i]]), r.rules)) :
                AcceptedAt(f.rule, f.file, f.line)'
<1>1. r.mode = "generate" /\ r.left = << >> /\ ~r.errors
  BY DEF RunInv, Progress
<1>2. Passed(r) = Len(r.targets)
  <2>1. Len(r.targets) \in Nat /\ Len(r.left) = 0
    BY <1>1 DEF Run
  <2>2. Passed(r) = Len(r.targets) - Len(r.left)
    BY DEF Passed
  <2> QED
    BY <2>1, <2>2
<1>3. PICK S \in SUBSET (1 .. Passed(r)) :
        Consistent(r.targets, Passed(r), S) /\ \A i \in S : Done(r, i)
  BY <1>1 DEF RunInv, Thorough, Walk, Finds, Filtered
<1>4. ASSUME NEW i \in S, NEW f \in Deduped(Pipeline[r.targets[i]], FoundAt(ToSet(Pipeline[r.targets[i]]), r.rules))
      PROVE  AcceptedAt(f.rule, f.file, f.line)'
  <2> DEFINE docs == ToSet(Pipeline[r.targets[i]])
  <2>1. PICK found \in SUBSET FoundAt(docs, r.rules) :
          Judged(r, docs, found) /\ {r.targets[i]} \X Deduped(Pipeline[r.targets[i]], found) \subseteq r.all
    BY <1>3 DEF Done
  <2>2. found = FoundAt(docs, r.rules)
    BY <1>1, <2>1 DEF Judged, Silent
  <2>3. <<r.targets[i], f>> \in r.all
    BY <2>1, <2>2
  <2> DEFINE place == [file |-> f.file, line |-> f.line, rule |-> f.rule]
  <2>4. place \in FoundPlaces(r)
    BY <2>3 DEF FoundPlaces
  <2>5. Lines(r, place) \in ToSet(ignore')
    BY <2>4, NewIgnoreRight
  <2>6. r.old \in Seq(Entry) /\ r.all \subseteq File \X Finding
    BY DEF Run
  <2>7. Lines(r, place).file = f.file /\ Lines(r, place).line = f.line /\ Lines(r, place).rule = f.rule
    BY <2>4, <2>6, LinesOf
  <2>8. PICK k \in DOMAIN ignore' : ignore'[k] = Lines(r, place)
    BY <2>5 DEF ToSet
  <2> QED
    BY <2>7, <2>8 DEF AcceptedAt
<1> QED
  BY <1>2, <1>3, <1>4

LEMMA WriteIInv ==
  ASSUME IInv, [Next]_vars, NEW p \in Proc, Write(p)
  PROVE  IInv'
<1> DEFINE r == run[p]
           x == [r EXCEPT !.at = "done", !.exit = 0]
<1>1. TypeOK /\ r \in Run /\ RunInv(r) /\ run \in [Proc -> Run]
  BY DEF IInv, TypeOK
<1>2. r.at = "torn"
  BY DEF Write, At
<1>3. x \in Run
  <2>1. "done" \in Steps /\ 0 \in 0 .. 2
    BY DEF Steps
  <2> QED
    BY <1>1, <2>1 DEF Run
<1>4. /\ x.at = "done" /\ x.left = r.left /\ x.errors = r.errors /\ SameSummary(x, r)
      /\ x.all = r.all /\ x.old = r.old
  BY <1>1 DEF Run, SameSummary
<1>5. run' = [run EXCEPT ![p] = x]
  BY <1>1 DEF Write
<1>6. UNCHANGED <<World, started>> /\ ignore' = NewIgnore(r) /\ writes' = writes + 1 /\ Hold
  BY DEF Write
<1>7. basis' = IF r.edits = edits
               THEN [targets |-> r.targets, rules |-> r.rules, present |-> present,
                     edits |-> edits, writes |-> writes']
               ELSE None
  BY DEF Write
<1> HIDE DEF x, r
<1>8. ignore' \in Seq(Entry) /\ Apart(ignore')
  BY <1>1, <1>6, NewIgnoreRight
<1>9. RunInv(x)
  BY <1>1, <1>2, <1>3, <1>4, AtTheEnd
<1>10. basis' = None \/ basis' \in Baseline
  BY <1>1, <1>6, <1>7 DEF TypeOK, Run, Baseline
<1>11. TypeOK'
  BY <1>1, <1>3, <1>5, <1>6, <1>8, <1>9, <1>10, TypedAfter DEF RunInv
<1>12. BasisRight'
  <2> SUFFICES ASSUME basis' # None
               PROVE  BasisRight'
    BY DEF BasisRight
  <2>1. /\ r.edits = edits /\ basis'.targets = r.targets /\ basis'.rules = r.rules
        /\ basis'.edits = edits /\ basis'.writes = writes'
    BY <1>7
  <2>2. PICK S \in SUBSET (1 .. Len(r.targets)) :
          /\ Consistent(r.targets, Len(r.targets), S)
          /\ \A i \in S : \A f \in Deduped(Pipeline[r.targets[i]], FoundAt(ToSet(Pipeline[r.targets[i]]), r.rules)) :
               AcceptedAt(f.rule, f.file, f.line)'
    BY <1>1, <1>2, <1>6, <2>1, FoundIsAccepted
  <2>3. UNCHANGED <<present, shift>>
    BY <1>6 DEF World
  <2>4. edits' = edits /\ edits \in Nat /\ writes' \in Nat
    BY <1>1, <1>6 DEF World, TypeOK
  <2>5. \A docs, rules : FoundAt(docs, rules)' = FoundAt(docs, rules)
    BY <2>3, SameFindings
  <2>6. Consistent(basis'.targets, Len(basis'.targets), S) /\ S \in SUBSET (1 .. Len(basis'.targets))
    BY <2>1, <2>2
  <2>7. ASSUME NEW i \in S
        PROVE  \A f \in Deduped(Pipeline[basis.targets[i]],
                                FoundAt(ToSet(Pipeline[basis.targets[i]]), basis.rules))' :
                 AcceptedAt(f.rule, f.file, f.line)'
    <3>1. PICK docs, rules : docs = Pipeline[r.targets[i]] /\ rules = r.rules
      OBVIOUS
    <3>2. FoundAt(ToSet(docs), rules)' = FoundAt(ToSet(docs), rules)
      BY <2>5
    <3>3. Pipeline[basis.targets[i]]' = docs /\ basis'.rules = rules
      BY <2>1, <3>1
    <3>4. Deduped(Pipeline[basis.targets[i]], FoundAt(ToSet(Pipeline[basis.targets[i]]), basis.rules))'
            = Deduped(docs, FoundAt(ToSet(docs), rules))
      BY <3>2, <3>3
    <3> QED
      BY <2>2, <3>1, <3>4
  <2> QED
    BY <2>1, <2>4, <2>6, <2>7 DEF BasisRight
<1>13. Remembering'
  BY <1>1, <1>6, KeepRemembering DEF IInv
<1> QED
  BY <1>3, <1>5, <1>8, <1>9, <1>11, <1>12, <1>13, OneRun

(* People and the clock. *)
LEMMA PeopleIInv ==
  ASSUME IInv, [Next]_vars,
         \/ \E q \in Problem : Introduce(q) \/ Fix(q)
         \/ \E f \in File : MoveDown(f)
         \/ \E i \in DOMAIN ignore, day \in 0 .. MaxDay - 1 : SetExpiry(i, day)
         \/ Midnight
  PROVE  IInv'
<1>1. TypeOK /\ MaxDay \in Nat
  BY RunsAssumption DEF IInv
<1>2. ASSUME NEW q \in Problem, Introduce(q) \/ Fix(q)
      PROVE  TypeOK' /\ UNCHANGED <<run, writes, basis>> /\ (Hold \/ UNCHANGED <<ignore, held>>)
  BY <1>1, <1>2 DEF Introduce, Fix, TypeOK
<1>3. ASSUME NEW f \in File, MoveDown(f)
      PROVE  TypeOK' /\ UNCHANGED <<run, writes, basis>> /\ (Hold \/ UNCHANGED <<ignore, held>>)
  <2>1. shift' \in [File -> Nat]
    BY <1>1, <1>3 DEF MoveDown, TypeOK
  <2> QED
    BY <1>1, <1>3, <2>1 DEF MoveDown, TypeOK
<1>4. ASSUME NEW i \in DOMAIN ignore, NEW day \in 0 .. MaxDay - 1, SetExpiry(i, day)
      PROVE  TypeOK' /\ UNCHANGED <<run, writes, basis>> /\ (Hold \/ UNCHANGED <<ignore, held>>)
  <2>1. ignore \in Seq(Entry) /\ ignore' = [ignore EXCEPT ![i].until = day]
    BY <1>1, <1>4 DEF SetExpiry, TypeOK
  <2>2. ignore[i] \in Entry /\ day \in Day
    BY <1>1, <2>1 DEF Day
  <2>3. [ignore[i] EXCEPT !.until = day] \in Entry
    BY <2>2 DEF Entry
  <2>4. ignore' = [ignore EXCEPT ![i] = [ignore[i] EXCEPT !.until = day]]
    BY <2>1
  <2>5. ignore' \in Seq(Entry)
    BY <2>1, <2>3, <2>4
  <2>6. held' \subseteq Nat \X Entry
    BY <1>1, <1>4, <2>5, HeldTyped DEF SetExpiry, TypeOK
  <2> QED
    BY <1>1, <1>4, <2>5, <2>6 DEF SetExpiry, World, TypeOK
<1>5. ASSUME Midnight
      PROVE  TypeOK' /\ UNCHANGED <<run, writes, basis>> /\ (Hold \/ UNCHANGED <<ignore, held>>)
  <2>1. today' \in Day
    BY <1>1, <1>5 DEF Midnight, TypeOK, Day
  <2> QED
    BY <1>1, <1>5, <2>1 DEF Midnight, TypeOK
<1> QED
  BY <1>2, <1>3, <1>4, <1>5, WorldStep

LEMMA InitIInv ==
  ASSUME Init
  PROVE  IInv
<1>1. RunInv(Idle)
  <2>1. /\ Idle.at = "idle" /\ Idle.left = << >> /\ Idle.targets = << >> /\ Idle.all = {}
        /\ Idle.old = << >> /\ Idle.edits = 0 /\ Idle.writes = 0 /\ Idle.scanned = {} /\ Idle.included = {}
        /\ Idle.day = 0
    BY DEF Idle
  <2>2. edits = 0 /\ writes = 0 /\ today = 0
    BY DEF Init
  <2> QED
    BY <2>1, <2>2, FS_EmptySet DEF RunInv, Progress, Scope, Apart, Counted, Reasoned, Thorough
<1>2. Idle.included \subseteq Idle.scanned
  BY DEF Idle
<1>3. TypeOK
  <2>1. today \in Day
    BY RunsAssumption DEF Init, Day
  <2>2. ignore \in Seq(Entry)
    BY RunsAssumption DEF Init
  <2>3. run \in [Proc -> Run] /\ \A p \in Proc : run[p].included \subseteq run[p].scanned
    BY <1>2, IdleTyped DEF Init
  <2> QED
    BY <2>1, <2>2, <2>3, RunsAssumption DEF Init, TypeOK
<1>4. Apart(ignore)
  BY RunsAssumption DEF Init, Apart
<1>5. Remembering
  <2>1. Idle.mode = None
    BY DEF Idle
  <2>2. \A p \in Proc : run[p].mode = None
    BY <2>1 DEF Init
  <2> QED
    BY <2>2, RunsAssumption DEF Remembering, Scanning
<1> QED
  BY <1>1, <1>3, <1>4, <1>5 DEF Init, IInv, BasisRight

(* Every step keeps the invariant. *)
LEMMA StepIInv ==
  ASSUME IInv, [Next]_vars
  PROVE  IInv'
<1>1. ASSUME NEW p \in Proc,
             \/ Start(p)
             \/ SkipTarget(p) \/ TargetFails(p) \/ Collect(p)
             \/ CheckDocument(p) \/ DocumentFails(p) \/ EndTarget(p)
             \/ EndScan(p) \/ EndNewOnly(p) \/ NoBaseline(p)
             \/ RefuseToWrite(p) \/ ReadIgnore(p) \/ Truncate(p) \/ Write(p) \/ WriteFails(p)
             \/ Quit(p)
      PROVE  IInv'
  BY <1>1, StartIInv, SkipTargetIInv, FailureIInv, CollectIInv, CheckDocumentIInv, EndTargetIInv,
     EndIInv, ReadIgnoreIInv, TruncateIInv, WriteIInv, WriteFailsIInv, QuitIInv
<1>2. CASE UNCHANGED vars
  <2>1. TypeOK'
    BY <1>2 DEF vars, IInv, TypeOK
  <2> QED
    BY <1>2, <2>1, WorldStep DEF vars
<1> QED
  BY <1>1, <1>2, PeopleIInv DEF Next

(* Every state that the runs, people and the clock reach satisfies the     *)
(* invariant, whatever the order of their steps.                           *)
THEOREM Inductive == Spec => []IInv
<1>1. Init => IInv
  BY InitIInv
<1>2. IInv /\ [Next]_vars => IInv'
  BY StepIInv
<1> QED
  BY <1>1, <1>2, PTL DEF Spec

(* The runs, the entries of .glsec-ignore and the last baseline have their *)
(* types, and IncludedBy is set only on files that were scanned            *)
(* (scanOptions: included, scannedFiles).                                  *)
THEOREM TypeCorrect == Spec => []TypeOK
<1>1. IInv => TypeOK
  BY DEF IInv
<1> QED
  BY <1>1, Inductive, PTL

-----------------------------------------------------------------------------
(* What the invariant says of the properties.                              *)

(* What a scan reports has no comment that is in force, where it is or     *)
(* next to its template, but where an entry with a past date took the      *)
(* comment's place (collectFindings, suppress.Map.Active).                 *)
THEOREM CommentsSilence == Spec => []CommentSilences
<1>1. ASSUME IInv
      PROVE  CommentSilences
  <2> SUFFICES ASSUME NEW p \in Proc, At(p, "done"), run[p].mode = "scan", run[p].edits = edits,
                      NEW pair \in run[p].all
               PROVE  /\ pair[2].origin # None =>
                           ~Commented(pair[2].rule, pair[2].origin.file, pair[2].origin.line, today)
                      /\ Commented(pair[2].rule, pair[2].file, pair[2].line, today) =>
                           \E e \in HeldSince(run[p].writes) :
                             /\ e.rule = pair[2].rule /\ e.file = pair[2].file /\ e.line = pair[2].line
                             /\ Expired(e)
    BY DEF CommentSilences
  <2>1. UncoveredSince(pair[2], run[p].writes)
    BY <1>1 DEF IInv, RunInv, Reasoned, Unanswered
  <2> QED
    BY <2>1 DEF UncoveredSince, AtItsTemplate
<1>2. IInv => CommentSilences
  BY <1>1
<1> QED
  BY <1>2, Inductive, PTL

(* A rule about the whole pipeline reports a file where it is the root of  *)
(* a pipeline, and a target that another one includes only if it came      *)
(* first (run, scanRoot: included; Document.IncludedBy).                    *)
THEOREM PipelinesWholeOnce == Spec => []WholePipelineOnce
<1>1. ASSUME IInv
      PROVE  WholePipelineOnce
  <2> SUFFICES ASSUME NEW p \in Proc, At(p, "done"),
                      NEW pair \in run[p].all, pair[2].rule \in RootRule
               PROVE  /\ \E d \in ToSet(Pipeline[pair[1]]) : d.file = pair[2].file /\ ~d.included
                      /\ \E i \in DOMAIN run[p].targets :
                           /\ run[p].targets[i] = pair[1]
                           /\ pair[1] \in run[p].included =>
                                \E j \in i .. Len(run[p].targets) :
                                  pair[1] \in Included(Pipeline[run[p].targets[j]])
    BY DEF WholePipelineOnce
  <2> DEFINE r == run[p]
  <2>1. r \in Run /\ Progress(r) /\ Scope(r)
    BY <1>1 DEF IInv, TypeOK, RunInv
  <2> HIDE DEF r
  <2>2. SeenAt(pair[1], pair[2], r)
    BY <2>1 DEF r, Scope
  <2>3. PICK i \in 1 .. Passed(r) :
          /\ r.targets[i] = pair[1]
          /\ pair[1] \in r.included =>
               \E j \in i .. Len(r.targets) : pair[1] \in Included(Pipeline[r.targets[j]])
    BY <2>1 DEF r, Scope
  <2>4. i \in DOMAIN r.targets
    <3>1. Passed(r) \in 0 .. Len(r.targets) /\ Len(r.targets) \in Nat
      BY <2>1, PassedTyped
    <3>2. DOMAIN r.targets = 1 .. Len(r.targets)
      BY <2>1 DEF Run
    <3> QED
      BY <2>3, <3>1, <3>2
  <2> QED
    BY <2>2, <2>3, <2>4 DEF r, SeenAt
<1>2. IInv => WholePipelineOnce
  BY <1>1
<1> QED
  BY <1>2, Inductive, PTL

-----------------------------------------------------------------------------
(* The pipelines that a run without errors has scanned. *)

LEMMA TargetPipeline ==
  ASSUME NEW r \in Run, NEW i \in 1 .. Len(r.targets)
  PROVE  /\ r.targets[i] \in File
         /\ Pipeline[r.targets[i]] \in Seq(Document) /\ ToSet(Pipeline[r.targets[i]]) \subseteq Document
<1>1. r.targets[i] \in File
  BY DEF Run
<1>2. Pipeline[r.targets[i]] \in Seq(Document)
  BY <1>1, PipelineTyped
<1> QED
  BY <1>1, <1>2 DEF ToSet

LEMMA RootsAre ==
  ASSUME NEW targets \in Seq(File), NEW S, Consistent(targets, Len(targets), S)
  PROVE  RootsOf(targets) = S /\ S \subseteq DOMAIN targets
<1>1. DOMAIN targets = 1 .. Len(targets) /\ Len(targets) \in Nat
  OBVIOUS
<1>2. S \in SUBSET DOMAIN targets /\ AreRoots(S, targets)
  BY <1>1 DEF Consistent, AreRoots
<1>3. RootsOf(targets) \in SUBSET DOMAIN targets /\ AreRoots(RootsOf(targets), targets)
  BY <1>2 DEF RootsOf
<1>4. Consistent(targets, Len(targets), RootsOf(targets))
  BY <1>1, <1>3 DEF Consistent, AreRoots
<1> QED
  BY <1>1, <1>2, <1>4, ConsistentOne

(* A run that has done with all targets has scanned the roots.             *)
LEMMA ScannedRoots ==
  ASSUME NEW r \in Run, RunInv(r), r.at \notin {"idle", "document"}, r.left = << >>, ~r.errors,
         NEW S, S = RootsOf(r.targets)
  PROVE  /\ S \in SUBSET (1 .. Len(r.targets)) /\ Consistent(r.targets, Len(r.targets), S)
         /\ \A file \in r.scanned : \E i \in S : file \in Files(Pipeline[r.targets[i]])
         /\ r.edits = edits => Finds(r, S)
<1>1. Passed(r) = Len(r.targets) /\ r.targets \in Seq(File)
  <2>1. Len(r.targets) \in Nat /\ Len(r.left) = 0 /\ r.targets \in Seq(File)
    BY DEF Run
  <2>2. Passed(r) = Len(r.targets) - Len(r.left)
    BY DEF Passed
  <2> QED
    BY <2>1, <2>2
<1>2. PICK T \in SUBSET (1 .. Passed(r)) : Walk(r, T) /\ (r.edits = edits => Finds(r, T))
  BY DEF RunInv, Thorough
<1>3. S = T
  BY <1>1, <1>2, RootsAre DEF Walk
<1> QED
  BY <1>1, <1>2, <1>3 DEF Walk

LEMMA ScannedTargets ==
  ASSUME NEW r \in Run, RunInv(r), r.at = "done", r.exit # 2, r.edits = edits
  PROVE  \E S \in SUBSET (1 .. Len(r.targets)) :
           /\ S = RootsOf(r.targets) /\ Consistent(r.targets, Len(r.targets), S)
           /\ r.mode # "newonly" => \A i \in S : Done(r, i)
           /\ \A pair \in r.all : \E i \in S : FromTarget(r, i, pair)
<1>1. r.left = << >> /\ ~r.errors
  BY DEF RunInv, Progress
<1> QED
  BY <1>1, ScannedRoots DEF Finds, Filtered

-----------------------------------------------------------------------------
(* What --generate-ignore keeps. *)

(* A step of one run, and the entries, if it changes them, are what        *)
(* --generate-ignore writes.                                               *)
LEMMA WhoseStep ==
  ASSUME IInv, [Next]_vars, NEW p \in Proc, run'[p] # run[p]
  PROVE  \/ UNCHANGED ignore /\ (run[p].at = "torn" => run'[p] = Idle)
         \/ Truncate(p) \/ Write(p) \/ WriteFails(p)
<1>1. run \in [Proc -> Run]
  BY DEF IInv, TypeOK
<1>2. CASE UNCHANGED run
  BY <1>2
<1>3. ASSUME NEW q \in Proc,
             \/ Start(q)
             \/ SkipTarget(q) \/ TargetFails(q) \/ Collect(q)
             \/ CheckDocument(q) \/ DocumentFails(q) \/ EndTarget(q)
             \/ EndScan(q) \/ EndNewOnly(q) \/ NoBaseline(q)
             \/ RefuseToWrite(q) \/ ReadIgnore(q) \/ Quit(q)
      PROVE  UNCHANGED ignore /\ (run[p].at = "torn" => run'[p] = Idle)
  <2>1. UNCHANGED ignore
    BY <1>3 DEF Start, SkipTarget, TargetFails, Collect, CheckDocument, DocumentFails, EndTarget,
                EndScan, EndNewOnly, NoBaseline, RefuseToWrite, ReadIgnore, Quit
  <2>2. \A s \in Proc \ {q} : run'[s] = run[s]
    BY <1>1, <1>3 DEF Start, SkipTarget, TargetFails, Collect, CheckDocument, DocumentFails,
                      EndTarget, EndScan, EndNewOnly, NoBaseline, RefuseToWrite, ReadIgnore, Quit
  <2>3. run[q].at = "torn" => run'[q] = Idle
    BY <1>1, <1>3 DEF Start, SkipTarget, TargetFails, Collect, CheckDocument, DocumentFails,
                      EndTarget, EndScan, EndNewOnly, NoBaseline, RefuseToWrite, ReadIgnore, Quit,
                      At, HasTarget, AllTargetsDone
  <2> QED
    BY <2>1, <2>2, <2>3
<1>4. ASSUME NEW q \in Proc, Truncate(q) \/ Write(q) \/ WriteFails(q)
      PROVE  q = p
  <2>1. PICK x : run' = [run EXCEPT ![q] = x]
    <3>1. CASE Truncate(q)
      BY <3>1 DEF Truncate
    <3>2. CASE Write(q)
      BY <3>2 DEF Write
    <3>3. CASE WriteFails(q)
      BY <3>3 DEF WriteFails
    <3> QED
      BY <1>4, <3>1, <3>2, <3>3
  <2> QED
    BY <1>1, <2>1
<1>5. CASE \/ \E q \in Problem : Introduce(q) \/ Fix(q)
           \/ \E f \in File : MoveDown(f)
           \/ \E i \in DOMAIN ignore, day \in 0 .. MaxDay - 1 : SetExpiry(i, day)
           \/ Midnight
           \/ UNCHANGED vars
  BY <1>2, <1>5 DEF Introduce, Fix, MoveDown, SetExpiry, Midnight, vars
<1> QED
  BY <1>3, <1>4, <1>5 DEF Next

(* An entry that was read and is not written again was for a place of the  *)
(* scanned files where nothing was found.                                  *)
LEMMA KeepsTheRest ==
  ASSUME NEW r \in Run, RunInv(r), r.at = "torn", ignore' = NewIgnore(r),
         NEW e \in ToSet(r.old) \ ToSet(ignore')
  PROVE  /\ \E d \in DocumentsOf(r.targets) : d.file = e.file
         /\ e.rule \in r.rules
         /\ \A pair \in r.all :
              ~(pair[2].file = e.file /\ pair[2].line = e.line /\ pair[2].rule = e.rule)
<1>1. r.old \in Seq(Entry) /\ Apart(r.old)
  BY DEF Run, RunInv
<1>2. PICK i \in DOMAIN r.old : r.old[i] = e
  BY <1>1 DEF ToSet
<1>3. Covered(r, e)
  <2>1. i \notin Rest(r)
    BY <1>2, NewIgnoreRight
  <2> QED
    BY <1>2, <2>1 DEF Rest
<1>4. \E d \in DocumentsOf(r.targets) : d.file = e.file
  <2>1. r.left = << >> /\ ~r.errors
    BY DEF RunInv, Progress
  <2>2. PICK k \in RootsOf(r.targets) : e.file \in Files(Pipeline[r.targets[k]])
    BY <1>3, <2>1, ScannedRoots DEF Covered
  <2> QED
    BY <2>2 DEF DocumentsOf, Files
<1>5. ASSUME NEW pair \in r.all,
             pair[2].file = e.file, pair[2].line = e.line, pair[2].rule = e.rule
      PROVE  FALSE
  <2> DEFINE place == [file |-> pair[2].file, line |-> pair[2].line, rule |-> pair[2].rule]
             before == {j \in DOMAIN r.old :
                          /\ Covered(r, r.old[j])
                          /\ r.old[j].file = place.file /\ r.old[j].line = place.line
                          /\ r.old[j].rule = place.rule}
  <2>1. i \in before
    BY <1>2, <1>3, <1>5
  <2>2. Len(r.old) \in Nat /\ before \in SUBSET (1 .. Len(r.old))
    BY <1>1
  <2>3. Max(before) \in before
    BY <2>1, <2>2, MaxOf
  <2>4. Max(before) = i
    BY <1>1, <2>1, <2>3 DEF Apart, Covered
  <2>5. Lines(r, place) = e
    BY <1>2, <2>1, <2>4 DEF Lines
  <2>6. place \in FoundPlaces(r)
    BY DEF FoundPlaces
  <2>7. Lines(r, place) \in ToSet(ignore')
    BY <2>6, NewIgnoreRight
  <2> QED
    BY <2>5, <2>7
<1> QED
  BY <1>3, <1>4, <1>5 DEF Covered

(* --generate-ignore drops an entry it read only if its file was scanned,  *)
(* its rule ran and nothing was found there, and a run with an error never *)
(* changes .glsec-ignore (writeIgnoreFile and its callers in run).         *)
THEOREM BaselineIsKept == Spec => BaselineKept
<1>1. ASSUME IInv, [Next]_vars, NEW p \in Proc
      PROVE  LostOnlyIfGone(p)
  <2> SUFFICES ASSUME At(p, "torn"), At(p, "done")', run'[p].exit = 0
               PROVE  \A e \in ToSet(run[p].old) \ ToSet(ignore') :
                        /\ \E d \in DocumentsOf(run[p].targets) : d.file = e.file
                        /\ e.rule \in run[p].rules
                        /\ \A pair \in run[p].all :
                             ~(pair[2].file = e.file /\ pair[2].line = e.line /\ pair[2].rule = e.rule)
    BY DEF LostOnlyIfGone
  <2>1. run[p] \in Run /\ RunInv(run[p]) /\ run \in [Proc -> Run]
    BY <1>1 DEF IInv, TypeOK
  <2>2. run'[p] # run[p]
    BY DEF At
  <2>3. CASE run[p].at = "torn" => run'[p] = Idle
    BY <2>3 DEF At, Idle
  <2>4. CASE Truncate(p)
    BY <2>1, <2>4 DEF Truncate, At
  <2>5. CASE WriteFails(p)
    BY <2>1, <2>5 DEF WriteFails, Run
  <2>6. CASE Write(p)
    BY <2>1, <2>6, KeepsTheRest DEF Write, At
  <2> QED
    BY <1>1, <2>2, <2>3, <2>4, <2>5, <2>6, WhoseStep
<1>2. ASSUME IInv, [Next]_vars, NEW p \in Proc
      PROVE  ErrorLeaves(p)
  <2> SUFFICES ASSUME run[p].errors, run'[p] # run[p]
               PROVE  ignore' = ignore
    BY DEF ErrorLeaves
  <2>1. run[p].at \notin {"write", "torn"}
    BY <1>2 DEF IInv, RunInv, Progress
  <2> QED
    BY <1>2, <2>1, WhoseStep DEF Truncate, Write, WriteFails, At
<1>3. IInv /\ [Next]_vars => \A p \in Proc : LostOnlyIfGone(p) /\ ErrorLeaves(p)
  BY <1>1, <1>2
<1>4. IInv /\ [Next]_vars => [\A p \in Proc : LostOnlyIfGone(p) /\ ErrorLeaves(p)]_vars
  BY <1>3
<1> QED
  BY <1>4, Inductive, PTL DEF Spec, BaselineKept

-----------------------------------------------------------------------------
(* What an exit code of 0 means. *)

(* A rule that found something is left with a finding.                     *)
LEMMA RuleStays ==
  ASSUME NEW docs \in Seq(Document), NEW found, NEW f \in found
  PROVE  \E g \in Deduped(docs, found) : g.rule = f.rule
<1>1. \A h \in found : \E g \in Deduped(docs, found) :
         g = h \/ (SameConfiguration(h, g) /\ h.origin # None)
  BY DedupedOf
<1> QED
  BY <1>1 DEF SameConfiguration

(* What a run does not report has a comment or an entry.                   *)
LEMMA CleanRun ==
  ASSUME NEW r \in Run, RunInv(r), r.at = "done", r.exit = 0, r.mode \in {"scan", "audit"},
         r.edits = edits,
         NEW d \in DocumentsOf(r.targets), NEW f \in AllFound(d, r.rules), f.rule \in Failing
  PROVE  Silent(f, r)
<1>1. PICK S \in SUBSET (1 .. Len(r.targets)) : S = RootsOf(r.targets) /\ \A i \in S : Done(r, i)
  <2>1. r.exit # 2 /\ r.mode # "newonly"
    OBVIOUS
  <2> QED
    BY <2>1, ScannedTargets
<1>2. PICK i \in S : d \in ToSet(Pipeline[r.targets[i]])
  BY <1>1 DEF DocumentsOf
<1> DEFINE pipeline == Pipeline[r.targets[i]]
           docs == ToSet(pipeline)
<1>3. f \in FoundAt(docs, r.rules)
  BY <1>2 DEF FoundAt
<1>4. PICK found \in SUBSET FoundAt(docs, r.rules) :
        Judged(r, docs, found) /\ {r.targets[i]} \X Deduped(pipeline, found) \subseteq r.all
  BY <1>1 DEF Done
<1>5. f \notin found
  <2> SUFFICES ASSUME f \in found
               PROVE  FALSE
    OBVIOUS
  <2>1. PICK g \in Deduped(pipeline, found) : g.rule = f.rule
    <3>1. pipeline \in Seq(Document)
      BY TargetPipeline
    <3> HIDE DEF pipeline
    <3> QED
      BY <3>1, RuleStays
  <2>2. <<r.targets[i], g>> \in r.all
    BY <1>4
  <2>3. \A pair \in r.all : pair[2].rule \notin Failing
    BY DEF RunInv, Progress
  <2> QED
    BY <2>1, <2>2, <2>3
<1> QED
  BY <1>3, <1>4, <1>5 DEF Judged

(* A scan that exits with 0 left no problem of a failing rule without a    *)
(* comment or an entry, wherever a document of its targets shows it (run,  *)
(* scanRoot, collectFindings, DedupeMoved), and under --no-ignores none.   *)
THEOREM CleanIsChecked == Spec => []CleanMeansChecked
<1>1. ASSUME IInv
      PROVE  CleanMeansChecked
  <2> SUFFICES ASSUME NEW p \in Proc, At(p, "done"), run[p].exit = 0, run[p].mode \in {"scan", "audit"},
                      run[p].edits = edits, NEW d \in DocumentsOf(run[p].targets),
                      NEW q \in present, q.rule \in Failing
               PROVE  /\ ShownInFile(q, d, run[p].rules)
                           => run[p].mode = "scan" /\ Excused(q.rule, q.file, Line(q), run[p])
                      /\ ShownAtJob(q, d, run[p].rules)
                           => /\ run[p].mode = "scan"
                              /\ \/ Commented(q.rule, q.file, Line(q), run[p].day)
                                 \/ Excused(q.rule, d.file, JobLine(d.file), run[p])
    BY DEF CleanMeansChecked
  <2> DEFINE r == run[p]
  <2>1. r \in Run /\ RunInv(r) /\ r.at = "done"
    BY <1>1 DEF IInv, TypeOK, At
  <2> HIDE DEF r
  <2>2. \A f \in AllFound(d, r.rules) : f.rule \in Failing => Silent(f, r)
    BY <2>1, CleanRun DEF r
  <2>3. ASSUME ShownInFile(q, d, r.rules)
        PROVE  r.mode = "scan" /\ Excused(q.rule, q.file, Line(q), r)
    <3> DEFINE f == [rule |-> q.rule, file |-> d.file, line |-> Line(q), text |-> q.text, origin |-> None]
    <3>1. f \in AllFound(d, r.rules)
      BY <2>3 DEF OwnFindings, AllFound
    <3>2. /\ f.rule = q.rule /\ f.file = q.file /\ f.line = Line(q) /\ f.origin = None
      BY <2>3 DEF ShownInFile
    <3> HIDE DEF f
    <3>3. Silent(f, r)
      BY <2>2, <3>1, <3>2
    <3> QED
      BY <3>2, <3>3 DEF Silent, Excused, r
  <2>4. ASSUME ShownAtJob(q, d, r.rules)
        PROVE  /\ r.mode = "scan"
               /\ \/ Commented(q.rule, q.file, Line(q), r.day)
                  \/ Excused(q.rule, d.file, JobLine(d.file), r)
    <3> DEFINE f == [rule |-> q.rule, file |-> d.file, line |-> JobLine(d.file), text |-> q.text,
                     origin |-> [file |-> q.file, line |-> Line(q)]]
    <3>1. f \in AllFound(d, r.rules)
      BY <2>4 DEF MovedFindings, AllFound
    <3>2. /\ f.rule = q.rule /\ f.file = d.file /\ f.line = JobLine(d.file)
          /\ f.origin.file = q.file /\ f.origin.line = Line(q)
      OBVIOUS
    <3> HIDE DEF f
    <3>3. Silent(f, r)
      BY <2>2, <3>1, <3>2
    <3> QED
      BY <3>2, <3>3 DEF Silent, Excused, r
  <2> QED
    BY <2>3, <2>4 DEF r
<1>2. IInv => CleanMeansChecked
  BY <1>1
<1> QED
  BY <1>2, Inductive, PTL

-----------------------------------------------------------------------------
(* What a scan reports after --generate-ignore. *)

(* More rules find more. *)
LEMMA MoreRules ==
  ASSUME NEW docs, NEW rules, NEW more, rules \subseteq more
  PROVE  FoundAt(docs, rules) \subseteq FoundAt(docs, more)
<1>1. \A q, d : /\ ShownInFile(q, d, rules) => ShownInFile(q, d, more)
                /\ ShownAtJob(q, d, rules) => ShownAtJob(q, d, more)
  BY DEF ShownInFile, ShownAtJob, RuleRuns
<1>2. ASSUME NEW d
      PROVE  OwnFindings(d, rules) \subseteq OwnFindings(d, more)
  BY <1>1 DEF OwnFindings
<1>3. ASSUME NEW d
      PROVE  MovedFindings(d, rules) \subseteq MovedFindings(d, more)
  BY <1>1 DEF MovedFindings
<1> QED
  BY <1>2, <1>3 DEF FoundAt, AllFound

(* A finding that was moved to a job is at the line of that job.           *)
LEMMA MovedTo ==
  ASSUME NEW docs, docs \subseteq Document, NEW rules, NEW f \in FoundAt(docs, rules), f.origin # None
  PROVE  f.file \in File /\ f.line = JobLine(f.file) /\ f.origin.file \in Uses[f.file]
<1>1. PICK d \in docs : f \in AllFound(d, rules)
  BY DEF FoundAt
<1>2. f \notin OwnFindings(d, rules)
  BY DEF OwnFindings
<1>3. f \in MovedFindings(d, rules)
  BY <1>1, <1>2 DEF AllFound
<1> QED
  BY <1>3 DEF MovedFindings, ShownAtJob, Document

(* Each finding of a scan is one that the baseline was made of.            *)
LEMMA ScanAfterBaseline ==
  ASSUME IInv, NEW p \in Proc, OverAfterBaseline(p, "scan"), basis.edits = edits,
         NEW pair \in run[p].all
  PROVE  LET f == pair[2] IN
         \/ \E i \in Matching(f) : Expired(ignore[i])
         \/ f.file \in Unwritable
         \/ /\ f.origin # None
            /\ \/ AcceptedAt(f.rule, f.origin.file, f.origin.line)
               \/ \E g \in File \ {f.file} :
                    f.origin.file \in Uses[g] /\ AcceptedAt(f.rule, g, JobLine(g))
<1> DEFINE r == run[p]
           f == pair[2]
<1>1. r \in Run /\ RunInv(r) /\ TypeOK /\ BasisRight
  BY DEF IInv, TypeOK
<1>2. /\ r.at = "done" /\ r.mode = "scan" /\ r.exit # 2 /\ r.edits = edits /\ r.writes = writes
      /\ basis # None /\ basis.writes = writes /\ basis.targets = r.targets /\ r.rules \subseteq basis.rules
  BY DEF OverAfterBaseline, At
<1> HIDE DEF r
<1>3. PICK S \in SUBSET (1 .. Len(r.targets)) :
        /\ Consistent(r.targets, Len(r.targets), S)
        /\ \A x \in r.all : \E i \in S : FromTarget(r, i, x)
  BY <1>1, <1>2, ScannedTargets
<1>4. PICK T \in SUBSET (1 .. Len(r.targets)) :
        /\ Consistent(r.targets, Len(r.targets), T)
        /\ \A i \in T : \A g \in Deduped(Pipeline[r.targets[i]],
                                         FoundAt(ToSet(Pipeline[r.targets[i]]), basis.rules)) :
             AcceptedAt(g.rule, g.file, g.line)
  BY <1>1, <1>2 DEF BasisRight
<1>5. r.targets \in Seq(File) /\ Len(r.targets) \in Nat
  BY <1>1 DEF Run
<1>6. S = T
  BY <1>3, <1>4, <1>5, ConsistentOne
<1>7. PICK i \in S : FromTarget(r, i, pair)
  BY <1>3 DEF r
<1> DEFINE pipeline == Pipeline[r.targets[i]]
           docs == ToSet(pipeline)
           found == FoundAt(docs, basis.rules)
<1>8. pipeline \in Seq(Document) /\ docs \subseteq Document
  BY <1>1, TargetPipeline
<1>9. f \in found
  <2>1. f \in FoundAt(docs, r.rules)
    <3>1. PICK some \in SUBSET FoundAt(docs, r.rules) : f \in Deduped(pipeline, some)
      BY <1>7 DEF FromTarget
    <3>2. Deduped(pipeline, some) \subseteq some
      BY <1>8, DedupedOf
    <3> QED
      BY <3>1, <3>2
  <2> QED
    BY <1>2, <2>1, MoreRules
<1>10. \A g \in Deduped(pipeline, found) : AcceptedAt(g.rule, g.file, g.line)
  BY <1>4, <1>6
<1> HIDE DEF docs, found, pipeline
<1>11. /\ Deduped(pipeline, found) \subseteq found
       /\ \E g \in Deduped(pipeline, found) : g = f \/ (SameConfiguration(f, g) /\ f.origin # None)
  BY <1>8, <1>9, DedupedOf
<1> PICK g \in Deduped(pipeline, found) : g = f \/ (SameConfiguration(f, g) /\ f.origin # None)
  BY <1>11
<1>12. ASSUME AcceptedAt(f.rule, f.file, f.line)
       PROVE  f.file \in Unwritable \/ \E k \in Matching(f) : Expired(ignore[k])
  <2> SUFFICES ASSUME f.file \notin Unwritable
               PROVE  \E k \in Matching(f) : Expired(ignore[k])
    OBVIOUS
  <2>1. Matching(f) # {}
    BY <1>12 DEF AcceptedAt, Matching, Legible
  <2>2. Uncovered(f)
    BY <1>1, <1>2 DEF RunInv, Reasoned, Unanswered, r
  <2>3. Len(ignore) \in Nat /\ Matching(f) \in SUBSET (1 .. Len(ignore))
    BY <1>1 DEF TypeOK, Matching
  <2>4. Max(Matching(f)) \in Matching(f)
    BY <2>1, <2>3, MaxOf
  <2> QED
    BY <2>1, <2>2, <2>4 DEF Uncovered
<1>13. CASE g = f
  BY <1>10, <1>12, <1>13
<1>14. CASE SameConfiguration(f, g) /\ f.origin # None /\ g.origin = None
  <2>1. f.rule = g.rule /\ f.origin.file = g.file /\ f.origin.line = g.line
    BY <1>14 DEF SameConfiguration
  <2> QED
    BY <1>10, <1>14, <2>1
<1>15. CASE SameConfiguration(f, g) /\ f.origin # None /\ g.origin # None
  <2>1. f.rule = g.rule /\ f.origin = g.origin
    BY <1>15 DEF SameConfiguration
  <2>2. g.file \in File /\ g.line = JobLine(g.file) /\ g.origin.file \in Uses[g.file]
    BY <1>8, <1>11, <1>15, MovedTo DEF found
  <2>3. f.line = JobLine(f.file)
    BY <1>8, <1>9, <1>15, MovedTo DEF found
  <2>4. AcceptedAt(f.rule, g.file, g.line)
    BY <1>10, <2>1
  <2>5. CASE g.file = f.file
    BY <1>12, <2>2, <2>3, <2>4, <2>5
  <2>6. CASE g.file # f.file
    BY <1>15, <2>1, <2>2, <2>4, <2>6
  <2> QED
    BY <2>5, <2>6
<1> QED
  BY <1>11, <1>13, <1>14, <1>15

(* A scan after --generate-ignore reports only what an entry can't cover   *)
(* or covers no longer (writeIgnoreFile, LoadIgnoreFile, collectFindings). *)
THEOREM AcceptedIsQuiet == Spec => []AcceptedStaysQuiet
<1>1. IInv => AcceptedStaysQuiet
  BY ScanAfterBaseline DEF AcceptedStaysQuiet
<1> QED
  BY <1>1, Inductive, PTL
-----------------------------------------------------------------------------
(* What --new-only reports. *)

(* A document that shows a problem of its own file, and one with a job     *)
(* that uses the template it is in.                                        *)
Runs(q, d) == d.included => q.rule \notin RootRule
OwnDoc(q, d) == d.file = q.file /\ "file" \in q.seenBy /\ Runs(q, d)
JobDoc(q, d) == d.file # q.file /\ q.file \in Uses[d.file] \cap d.with /\ "jobs" \in q.seenBy /\ Runs(q, d)

(* The one file of a pipeline that reports a problem, after DedupeMoved,   *)
(* if no comment and no entry stands in the way.                           *)
Reports(q, docs, file) ==
  IF \E d \in ToSet(docs) : OwnDoc(q, d)
  THEN file = q.file
  ELSE \E i \in DOMAIN docs :
         docs[i].file = file /\ JobDoc(q, docs[i]) /\ \A j \in 1 .. i - 1 : ~JobDoc(q, docs[j])

(* The line there, before anything has moved down. *)
LineIn(q, file) == IF file = q.file THEN q.line ELSE 1

FindingIn(q, file) ==
  [rule |-> q.rule, file |-> file, line |-> LineIn(q, file) + shift[file], text |-> q.text,
   origin |-> IF file = q.file THEN None ELSE [file |-> q.file, line |-> Line(q)]]

(* The file shows the problem at a job, and that of another is missing.    *)
Concealed(q, docs, file, found) ==
  /\ \E d \in ToSet(docs) : d.file = file /\ JobDoc(q, d)
  /\ \E other \in File \ {file} : Reports(q, docs, other) /\ FindingIn(q, other) \notin found

LEMMA FoundIs ==
  ASSUME NEW docs, NEW rules, NEW f
  PROVE  f \in FoundAt(docs, rules) <=>
           \E q \in present, d \in docs :
             q.rule \in rules /\ (OwnDoc(q, d) \/ JobDoc(q, d)) /\ f = FindingIn(q, d.file)
<1>1. ASSUME NEW d
      PROVE  f \in OwnFindings(d, rules) <=>
               \E q \in present : q.rule \in rules /\ OwnDoc(q, d) /\ f = FindingIn(q, d.file)
  <2>1. ASSUME NEW q, OwnDoc(q, d)
        PROVE  FindingIn(q, d.file) =
                 [rule |-> q.rule, file |-> d.file, line |-> Line(q), text |-> q.text, origin |-> None]
    BY <2>1 DEF OwnDoc, FindingIn, LineIn, Line
  <2> QED
    BY <2>1 DEF OwnFindings, ShownInFile, OwnDoc, Runs, RuleRuns
<1>2. ASSUME NEW d
      PROVE  f \in MovedFindings(d, rules) <=>
               \E q \in present : q.rule \in rules /\ JobDoc(q, d) /\ f = FindingIn(q, d.file)
  <2>1. ASSUME NEW q, JobDoc(q, d)
        PROVE  FindingIn(q, d.file) =
                 [rule |-> q.rule, file |-> d.file, line |-> JobLine(d.file), text |-> q.text,
                  origin |-> [file |-> q.file, line |-> Line(q)]]
    BY <2>1 DEF JobDoc, FindingIn, LineIn, JobLine
  <2> QED
    BY <2>1 DEF MovedFindings, ShownAtJob, JobDoc, Runs, RuleRuns
<1> QED
  BY <1>1, <1>2 DEF FoundAt, AllFound

(* The types that tell a place from None. *)
LEMMA PlaceOf ==
  ASSUME TypeOK, NEW q \in Problem
  PROVE  /\ Line(q) \in Nat /\ q.line \in Nat /\ q.file \in File
         /\ [file |-> q.file, line |-> Line(q)] # None
<1>1. q \in ProblemType
  BY RunsAssumption
<1>2. q.line \in Nat /\ q.file \in File
  BY <1>1 DEF ProblemType
<1>3. Line(q) \in Nat
  BY <1>2 DEF Line, TypeOK
<1>4. [file |-> q.file, line |-> Line(q)] \in [file : File, line : Nat]
  BY <1>2, <1>3
<1> QED
  BY <1>2, <1>3, <1>4, RunsAssumption

(* Findings on one piece of configuration are of one problem. *)
LEMMA OneProblem ==
  ASSUME TypeOK, NEW q \in Problem, NEW x \in Problem, NEW F, NEW G, F # q.file
  PROVE  /\ SameConfiguration(FindingIn(q, F), FindingIn(x, G)) => q = x
         /\ SameConfiguration(FindingIn(q, F), FindingIn(q, G))
         /\ FindingIn(q, F).origin # None
<1> DEFINE place(y) == [file |-> y.file, line |-> Line(y)]
<1>1. place(q) # None /\ place(x) # None /\ Line(q) \in Nat /\ Line(x) \in Nat
  BY PlaceOf
<1>2. FindingIn(q, F).origin = place(q) /\ FindingIn(q, F).rule = q.rule /\ FindingIn(q, F).text = q.text
  BY DEF FindingIn
<1>3. ASSUME NEW y \in Problem
      PROVE  (IF FindingIn(y, G).origin = None
              THEN [file |-> FindingIn(y, G).file, line |-> FindingIn(y, G).line]
              ELSE FindingIn(y, G).origin) = place(y)
  <2>1. place(y) # None
    BY PlaceOf
  <2>2. CASE G = y.file
    BY <2>2 DEF FindingIn, LineIn, Line
  <2>3. CASE G # y.file
    BY <2>1, <2>3 DEF FindingIn
  <2> QED
    BY <2>2, <2>3
<1>4. ASSUME NEW y \in Problem
      PROVE  SameConfiguration(FindingIn(q, F), FindingIn(y, G)) <=>
               q.rule = y.rule /\ q.text = y.text /\ place(q) = place(y)
  <2>1. FindingIn(y, G).rule = y.rule /\ FindingIn(y, G).text = y.text
    BY DEF FindingIn
  <2> HIDE DEF place
  <2> QED
    BY <1>2, <1>3, <2>1 DEF SameConfiguration
<1>5. ASSUME q.rule = x.rule, q.text = x.text, place(q) = place(x)
      PROVE  q = x
  <2>1. q.file = x.file /\ Line(q) = Line(x)
    BY <1>5
  <2>2. q.line = x.line
    <3>1. q.line \in Nat /\ x.line \in Nat /\ shift[q.file] \in Nat
      BY PlaceOf DEF TypeOK
    <3> QED
      BY <2>1, <3>1 DEF Line
  <2> QED
    BY <1>5, <2>1, <2>2, RunsAssumption
<1> HIDE DEF place
<1> QED
  BY <1>1, <1>2, <1>4, <1>5

(* A pipeline reports a problem in one file. *)
LEMMA OneReporter ==
  ASSUME NEW docs \in Seq(Document), NEW q, NEW F, NEW G, Reports(q, docs, F), Reports(q, docs, G)
  PROVE  F = G
<1>1. CASE \E d \in ToSet(docs) : OwnDoc(q, d)
  BY <1>1 DEF Reports
<1>2. CASE ~ \E d \in ToSet(docs) : OwnDoc(q, d)
  <2>1. PICK i \in DOMAIN docs :
          docs[i].file = F /\ JobDoc(q, docs[i]) /\ \A k \in 1 .. i - 1 : ~JobDoc(q, docs[k])
    BY <1>2 DEF Reports
  <2>2. PICK j \in DOMAIN docs :
          docs[j].file = G /\ JobDoc(q, docs[j]) /\ \A k \in 1 .. j - 1 : ~JobDoc(q, docs[k])
    BY <1>2 DEF Reports
  <2>3. i \in Nat /\ j \in Nat /\ i > 0 /\ j > 0
    OBVIOUS
  <2>4. i = j
    <3>1. i < j => i \in 1 .. j - 1
      BY <2>3
    <3>2. j < i => j \in 1 .. i - 1
      BY <2>3
    <3> QED
      BY <2>1, <2>2, <2>3, <3>1, <3>2
  <2> QED
    BY <2>1, <2>2, <2>4
<1> QED
  BY <1>1, <1>2

(* Where a problem is reported it is shown. *)
LEMMA ReportsShown ==
  ASSUME NEW docs, NEW q, NEW file, Reports(q, docs, file)
  PROVE  /\ \E d \in ToSet(docs) : d.file = file /\ (OwnDoc(q, d) \/ JobDoc(q, d))
         /\ ShownOn(q, file, LineIn(q, file))
<1>1. CASE \E d \in ToSet(docs) : OwnDoc(q, d)
  BY <1>1 DEF Reports, OwnDoc, ShownOn, LineIn
<1>2. CASE ~ \E d \in ToSet(docs) : OwnDoc(q, d)
  <2>1. PICK i \in DOMAIN docs : docs[i].file = file /\ JobDoc(q, docs[i])
    BY <1>2 DEF Reports
  <2>2. docs[i] \in ToSet(docs)
    BY DEF ToSet
  <2> QED
    BY <2>1, <2>2 DEF JobDoc, ShownOn, LineIn
<1> QED
  BY <1>1, <1>2

(* What is left of the findings of a pipeline is each of one problem, in   *)
(* the file that reports it unless that finding is missing.                *)
LEMMA DedupedFrom ==
  ASSUME TypeOK, NEW docs \in Seq(Document), NEW rules, NEW found \in SUBSET FoundAt(ToSet(docs), rules),
         NEW g \in Deduped(docs, found)
  PROVE  \E q \in present, file \in File :
           /\ q.rule \in rules /\ g = FindingIn(q, file)
           /\ Reports(q, docs, file) \/ Concealed(q, docs, file, found)
<1>0. present \subseteq Problem /\ ToSet(docs) \subseteq Document
  BY DEF TypeOK, ToSet
<1>1. /\ g \in found
      /\ g.origin # None =>
           \A h \in found : /\ h.origin = None => ~SameConfiguration(g, h)
                            /\ h.origin # None /\ SameConfiguration(h, g) => ~Before(docs, h, g)
  BY DedupedOf
<1>2. PICK q \in present, d \in ToSet(docs) :
        q.rule \in rules /\ (OwnDoc(q, d) \/ JobDoc(q, d)) /\ g = FindingIn(q, d.file)
  BY <1>1, FoundIs
<1>3. d.file \in File /\ q \in Problem /\ q.file \in File
  BY <1>0, PlaceOf DEF Document
<1>4. CASE OwnDoc(q, d)
  <2>1. Reports(q, docs, d.file)
    BY <1>4 DEF Reports, OwnDoc
  <2> QED
    BY <1>2, <1>3, <2>1
<1>5. CASE JobDoc(q, d) /\ \E e \in ToSet(docs) : OwnDoc(q, e)
  <2>1. d.file # q.file /\ Reports(q, docs, q.file)
    BY <1>5 DEF JobDoc, Reports
  <2>2. FindingIn(q, q.file) \notin found
    <3>1. g.origin # None /\ SameConfiguration(g, FindingIn(q, q.file))
      BY <1>2, <1>3, <2>1, OneProblem
    <3>2. FindingIn(q, q.file).origin = None
      BY DEF FindingIn
    <3> QED
      BY <1>1, <3>1, <3>2
  <2>3. Concealed(q, docs, d.file, found)
    BY <1>3, <1>5, <2>1, <2>2 DEF Concealed
  <2> QED
    BY <1>2, <1>3, <2>3
<1>6. CASE JobDoc(q, d) /\ ~ \E e \in ToSet(docs) : OwnDoc(q, e)
  <2> DEFINE T == {k \in DOMAIN docs : JobDoc(q, docs[k])}
  <2>1. PICK i \in T : \A j \in T : i <= j
    <3>1. T \subseteq Nat
      OBVIOUS
    <3>2. \E k \in DOMAIN docs : docs[k] = d
      BY DEF ToSet
    <3>3. T # {}
      BY <1>6, <3>2
    <3> HIDE DEF T
    <3> QED
      BY <3>1, <3>3, LeastNat
  <2> DEFINE other == docs[i].file
             h == FindingIn(q, other)
  <2>2. /\ i \in DOMAIN docs /\ JobDoc(q, docs[i]) /\ docs[i] \in ToSet(docs)
        /\ other # q.file /\ other \in File /\ d.file # q.file
    BY <1>0, <1>6 DEF ToSet, JobDoc, Document
  <2>3. Reports(q, docs, other)
    <3>1. \A k \in 1 .. i - 1 : k \in DOMAIN docs /\ ~(i <= k)
      BY <2>2
    <3>2. \A k \in 1 .. i - 1 : ~JobDoc(q, docs[k])
      BY <2>1, <3>1
    <3> QED
      BY <1>6, <2>2, <3>2 DEF Reports
  <2>4. h \in found => other = d.file
    <3> SUFFICES ASSUME h \in found
                 PROVE  other = d.file
      OBVIOUS
    <3>1. g.origin # None /\ h.origin # None /\ SameConfiguration(h, g)
      BY <1>2, <1>3, <2>2, OneProblem
    <3>2. ~Before(docs, h, g)
      BY <1>1, <3>1
    <3>3. h.origin.file = q.file /\ h.rule = q.rule /\ h.file = docs[i].file
      BY <2>2 DEF FindingIn
    <3>4. Moves(docs[i], h)
      BY <2>2, <3>3 DEF Moves, JobDoc, Runs, RuleRuns
    <3>5. PICK j \in 1 .. i : Moves(docs[j], g)
      BY <2>2, <3>2, <3>4 DEF Before
    <3>6. g.file = d.file /\ g.origin.file = q.file /\ g.rule = q.rule
      BY <1>2, <2>2 DEF FindingIn
    <3>7. j \in DOMAIN docs
      BY <2>2
    <3>8. docs[j].file = d.file /\ JobDoc(q, docs[j])
      BY <1>6, <3>5, <3>6 DEF Moves, JobDoc, Runs, RuleRuns
    <3>9. i <= j
      BY <2>1, <3>7, <3>8
    <3>10. j = i
      BY <2>2, <3>9
    <3> QED
      BY <3>8, <3>10
  <2>5. CASE h \in found
    BY <1>2, <1>3, <2>3, <2>4, <2>5
  <2>6. CASE h \notin found /\ other = d.file
    BY <1>2, <1>3, <2>3, <2>6
  <2>7. CASE h \notin found /\ other # d.file
    <3>1. Concealed(q, docs, d.file, found)
      BY <1>6, <2>2, <2>3, <2>7 DEF Concealed
    <3> QED
      BY <1>2, <1>3, <3>1
  <2> QED
    BY <2>5, <2>6, <2>7
<1> QED
  BY <1>2, <1>4, <1>5, <1>6

(* The finding in the file that reports a problem stays.                   *)
LEMMA DedupedKeeps ==
  ASSUME TypeOK, NEW docs \in Seq(Document), NEW rules, NEW found \in SUBSET FoundAt(ToSet(docs), rules),
         NEW q \in present, NEW file \in File, Reports(q, docs, file), FindingIn(q, file) \in found
  PROVE  FindingIn(q, file) \in Deduped(docs, found)
<1>0. present \subseteq Problem
  BY DEF TypeOK
<1>1. /\ \A g \in found : \E h \in Deduped(docs, found) :
              h = g \/ (SameConfiguration(g, h) /\ g.origin # None)
      /\ \A g \in found : g.origin = None => g \in Deduped(docs, found)
  BY DedupedOf
<1>2. CASE file = q.file
  <2>1. FindingIn(q, file).origin = None
    BY <1>2 DEF FindingIn
  <2> QED
    BY <1>1, <2>1
<1>3. CASE file # q.file
  <2>1. PICK h \in Deduped(docs, found) : h = FindingIn(q, file) \/ SameConfiguration(FindingIn(q, file), h)
    BY <1>1
  <2>2. PICK x \in present, other \in File :
          /\ h = FindingIn(x, other)
          /\ Reports(x, docs, other) \/ Concealed(x, docs, other, found)
    BY DedupedFrom
  <2>3. CASE SameConfiguration(FindingIn(q, file), h)
    <3>1. x = q
      BY <1>0, <1>3, <2>2, <2>3, OneProblem
    <3>2. ASSUME NEW third, Reports(q, docs, third)
          PROVE  third = file
      BY <3>2, OneReporter
    <3>3. ~Concealed(q, docs, other, found)
      BY <3>2 DEF Concealed
    <3>4. other = file
      BY <2>2, <3>1, <3>2, <3>3
    <3> QED
      BY <2>1, <2>2, <3>1, <3>4
  <2> QED
    BY <2>1, <2>3
<1> QED
  BY <1>2, <1>3

(* A comment hides the missing one, as seen from the job.                  *)
LEMMA ConcealedIsHidden ==
  ASSUME TypeOK, NEW r, r.mode = "newonly", NEW docs \in Seq(Document), NEW found,
         Judged(r, ToSet(docs), found), NEW q \in present, q.rule \in r.rules, NEW file \in File,
         Concealed(q, docs, file, found)
  PROVE  HiddenElsewhere(q.rule, file, r.day)
<1>1. PICK d \in ToSet(docs) : d.file = file /\ JobDoc(q, d)
  BY DEF Concealed
<1>2. PICK other \in File \ {file} : Reports(q, docs, other) /\ FindingIn(q, other) \notin found
  BY DEF Concealed
<1>3. q.file # file /\ ShownOn(q, file, 1)
  BY <1>1 DEF JobDoc, ShownOn
<1> DEFINE f == FindingIn(q, other)
<1>4. f \in FoundAt(ToSet(docs), r.rules) /\ ShownOn(q, other, LineIn(q, other))
  BY <1>2, ReportsShown, FoundIs
<1>5. Silent(f, r)
  BY <1>2, <1>4 DEF Judged
<1>6. CASE other = q.file
  <2>1. f.origin = None /\ f.rule = q.rule /\ f.file = q.file /\ f.line = Line(q)
    BY <1>6 DEF FindingIn, LineIn, Line
  <2> HIDE DEF f
  <2>2. Commented(q.rule, q.file, Line(q), r.day)
    BY <1>5, <2>1 DEF Silent
  <2> QED
    BY <1>3, <2>2 DEF HiddenElsewhere
<1>7. CASE other # q.file
  <2>1. /\ f.rule = q.rule /\ f.file = other /\ f.line = JobLine(other)
        /\ f.origin.file = q.file /\ f.origin.line = Line(q)
    BY <1>7 DEF FindingIn, LineIn, JobLine
  <2>2. q.file \in Uses[other]
    BY <1>4, <1>7 DEF ShownOn
  <2> HIDE DEF f
  <2>3. Commented(q.rule, q.file, Line(q), r.day) \/ Commented(q.rule, other, JobLine(other), r.day)
    BY <1>5, <2>1 DEF Silent
  <2> QED
    BY <1>2, <1>3, <2>2, <2>3 DEF HiddenElsewhere
<1> QED
  BY <1>6, <1>7

(* A finding in a file tells its problem. *)
LEMMA FindingTells ==
  ASSUME TypeOK, NEW q \in Problem, NEW x \in Problem, NEW file, FindingIn(q, file) = FindingIn(x, file)
  PROVE  q = x
<1>1. CASE file # q.file
  <2>1. SameConfiguration(FindingIn(q, file), FindingIn(q, file))
    BY <1>1, OneProblem
  <2> QED
    BY <1>1, <2>1, OneProblem
<1>2. CASE file # x.file
  <2>1. SameConfiguration(FindingIn(x, file), FindingIn(x, file))
    BY <1>2, OneProblem
  <2> QED
    BY <1>2, <2>1, OneProblem
<1>3. CASE file = q.file /\ file = x.file
  <2>1. q.rule = x.rule /\ q.text = x.text /\ q.line + shift[file] = x.line + shift[file]
    BY <1>3 DEF FindingIn, LineIn
  <2>2. q.line \in Nat /\ x.line \in Nat /\ file \in File
    BY <1>3, PlaceOf
  <2>3. shift[file] \in Nat
    BY <2>2 DEF TypeOK
  <2>4. q.line = x.line
    BY <2>1, <2>2, <2>3
  <2>5. q.file = x.file
    BY <1>3
  <2>6. \A y, z \in Problem :
          y.rule = z.rule /\ y.file = z.file /\ y.line = z.line /\ y.text = z.text => y = z
    BY RunsAssumption
  <2> QED
    BY <2>1, <2>4, <2>5, <2>6
<1> QED
  BY <1>1, <1>2, <1>3

-----------------------------------------------------------------------------
(* What the entries say of the problems there were. *)

Tells(targets, S, q, file) == \E i \in S : Reports(q, Pipeline[targets[i]], file)

(* The entries are those of the problems of b, as the targets S report     *)
(* them, when at was how far the files had moved down.                     *)
Accepts(b, S, at, entries) ==
  /\ Consistent(b.targets, Len(b.targets), S)
  /\ \A q \in b.present, file \in File :
       q.rule \in b.rules /\ Tells(b.targets, S, q, file) =>
         \E i \in DOMAIN entries :
           /\ entries[i].rule = q.rule /\ entries[i].file = file
           /\ entries[i].line = LineIn(q, file) + at[file]
  /\ \A i \in DOMAIN entries :
       /\ Legible(entries[i]) /\ entries[i].rule \in b.rules
       /\ \E d \in DocumentsOf(b.targets) : d.file = entries[i].file
       => \E q \in b.present :
            /\ q.rule = entries[i].rule /\ Tells(b.targets, S, q, entries[i].file)
            /\ entries[i].line = LineIn(q, entries[i].file) + at[entries[i].file]

(* Nobody has changed .glsec-ignore since the last baseline.               *)
Remembered ==
  basis # None /\ basis.writes = writes =>
    \E S \in SUBSET (1 .. Len(basis.targets)), at \in [File -> Nat] : Accepts(basis, S, at, ignore)

(* All that a run for a baseline, or --new-only before it counts, finds in *)
(* the targets S.                                                          *)
FindsAll(r, S) ==
  /\ Consistent(r.targets, Len(r.targets), S)
  /\ \A i \in S : Files(Pipeline[r.targets[i]]) \subseteq r.scanned
  /\ \A i \in S, q \in present, file \in File :
       q.rule \in r.rules /\ Reports(q, Pipeline[r.targets[i]], file)
       => <<r.targets[i], FindingIn(q, file)>> \in r.all \/ Silent(FindingIn(q, file), r)
  /\ \A pair \in r.all : \E i \in S, q \in present, file \in File :
       /\ q.rule \in r.rules /\ pair = <<r.targets[i], FindingIn(q, file)>>
       /\ \/ Reports(q, Pipeline[r.targets[i]], file)
          \/ r.mode = "newonly" /\ HiddenElsewhere(q.rule, file, r.day)

LEMMA AllIs ==
  ASSUME TypeOK, NEW r \in Run, RunInv(r), r.at \in {"target", "write", "torn"}, r.left = << >>,
         ~r.errors, r.edits = edits, r.mode \in {"generate", "newonly"}
  PROVE  \E S \in SUBSET (1 .. Len(r.targets)) : FindsAll(r, S)
<1>1. Passed(r) = Len(r.targets)
  <2>1. Len(r.targets) \in Nat /\ Len(r.left) = 0
    BY DEF Run
  <2>2. Passed(r) = Len(r.targets) - Len(r.left)
    BY DEF Passed
  <2> QED
    BY <2>1, <2>2
<1>2. PICK S \in SUBSET (1 .. Len(r.targets)) :
        /\ Consistent(r.targets, Len(r.targets), S)
        /\ \A i \in S : Files(Pipeline[r.targets[i]]) \subseteq r.scanned
        /\ \A i \in S : Done(r, i)
        /\ \A pair \in r.all : \E i \in S : FromTarget(r, i, pair)
  <2>1. PICK S \in SUBSET (1 .. Passed(r)) : Walk(r, S) /\ Finds(r, S)
    BY DEF RunInv, Thorough
  <2> QED
    BY <1>1, <2>1 DEF Walk, Finds, Filtered
<1>3. ASSUME NEW i \in S, NEW q \in present, NEW file \in File,
             q.rule \in r.rules, Reports(q, Pipeline[r.targets[i]], file)
      PROVE  <<r.targets[i], FindingIn(q, file)>> \in r.all \/ Silent(FindingIn(q, file), r)
  <2> DEFINE docs == Pipeline[r.targets[i]]
  <2>1. PICK found \in SUBSET FoundAt(ToSet(docs), r.rules) :
          Judged(r, ToSet(docs), found) /\ {r.targets[i]} \X Deduped(docs, found) \subseteq r.all
    BY <1>2 DEF Done
  <2>2. docs \in Seq(Document)
    BY TargetPipeline
  <2>3. FindingIn(q, file) \in FoundAt(ToSet(docs), r.rules)
    BY <1>3, ReportsShown, FoundIs
  <2>4. CASE FindingIn(q, file) \in found
    <3>1. Reports(q, docs, file)
      BY <1>3
    <3> HIDE DEF docs
    <3>2. FindingIn(q, file) \in Deduped(docs, found)
      BY <2>2, <2>4, <3>1, DedupedKeeps
    <3> QED
      BY <2>1, <3>2
  <2> QED
    BY <2>1, <2>3, <2>4 DEF Judged
<1>4. ASSUME NEW pair \in r.all
      PROVE  \E i \in S, q \in present, file \in File :
                /\ q.rule \in r.rules /\ pair = <<r.targets[i], FindingIn(q, file)>>
                /\ \/ Reports(q, Pipeline[r.targets[i]], file)
                   \/ r.mode = "newonly" /\ HiddenElsewhere(q.rule, file, r.day)
  <2>1. PICK i \in S : FromTarget(r, i, pair)
    BY <1>2
  <2> DEFINE docs == Pipeline[r.targets[i]]
  <2>2. PICK found \in SUBSET FoundAt(ToSet(docs), r.rules) :
          Judged(r, ToSet(docs), found) /\ pair[2] \in Deduped(docs, found)
    BY <2>1 DEF FromTarget
  <2>3. docs \in Seq(Document)
    BY TargetPipeline
  <2>4. pair[1] = r.targets[i] /\ pair = <<pair[1], pair[2]>>
    <3>1. r.all \subseteq File \X Finding
      BY DEF Run
    <3> QED
      BY <2>1, <3>1 DEF FromTarget
  <2> HIDE DEF docs
  <2>5. PICK q \in present, file \in File :
          /\ q.rule \in r.rules /\ pair[2] = FindingIn(q, file)
          /\ Reports(q, docs, file) \/ Concealed(q, docs, file, found)
    BY <2>2, <2>3, DedupedFrom
  <2>6. CASE r.mode = "newonly"
    <3>1. Concealed(q, docs, file, found) => HiddenElsewhere(q.rule, file, r.day)
      BY <2>2, <2>3, <2>5, <2>6, ConcealedIsHidden
    <3> QED
      BY <2>4, <2>5, <2>6, <3>1 DEF docs
  <2>7. CASE r.mode = "generate"
    <3>1. \A f : ~Silent(f, r)
      BY <2>7 DEF Silent
    <3>2. ~Concealed(q, docs, file, found)
      <4> SUFFICES ASSUME NEW other \in File, Reports(q, docs, other), FindingIn(q, other) \notin found
                   PROVE  FALSE
        BY DEF Concealed
      <4>1. FindingIn(q, other) \in FoundAt(ToSet(docs), r.rules)
        BY <2>5, ReportsShown, FoundIs
      <4> QED
        BY <2>2, <3>1, <4>1 DEF Judged
    <3> QED
      BY <2>4, <2>5, <3>2 DEF docs
  <2> QED
    BY <2>6, <2>7
<1> QED
  BY <1>2, <1>3, <1>4 DEF FindsAll

(* The entries stay those of the problems while dates are given. *)
LEMMA KeepRemembered ==
  ASSUME TypeOK, TypeOK', Forward, BasisRight, Remembered, UNCHANGED basis
  PROVE  Remembered'
<1> SUFFICES ASSUME basis # None, basis.writes = writes'
             PROVE  \E S \in SUBSET (1 .. Len(basis.targets)), at \in [File -> Nat] : Accepts(basis, S, at, ignore')
  BY DEF Remembered
<1>1. writes' = writes
  <2>1. basis.writes \in Nat /\ basis.writes <= writes
    BY DEF TypeOK, Baseline, BasisRight
  <2>2. writes \in Nat /\ writes' \in Nat /\ writes <= writes'
    BY DEF TypeOK, Forward
  <2> QED
    BY <2>1, <2>2
<1>2. SameEntries
  BY <1>1 DEF Forward
<1>3. PICK S \in SUBSET (1 .. Len(basis.targets)), at \in [File -> Nat] : Accepts(basis, S, at, ignore)
  BY <1>1 DEF Remembered
<1>4. \A i \in DOMAIN ignore : Legible(ignore'[i]) <=> Legible(ignore[i])
  BY <1>2 DEF SameEntries, Legible
<1>5. Accepts(basis, S, at, ignore')
  BY <1>2, <1>3, <1>4 DEF Accepts, SameEntries
<1> QED
  BY <1>5

(* The documents of the targets are those of the pipelines that were       *)
(* scanned.                                                                *)
LEMMA ScannedFile ==
  ASSUME NEW r \in Run, NEW S, Consistent(r.targets, Len(r.targets), S), NEW d \in DocumentsOf(r.targets)
  PROVE  \E i \in S : d \in ToSet(Pipeline[r.targets[i]]) /\ d.file \in Files(Pipeline[r.targets[i]])
<1>1. r.targets \in Seq(File)
  BY DEF Run
<1>2. RootsOf(r.targets) = S
  BY <1>1, RootsAre
<1> QED
  BY <1>2 DEF DocumentsOf, Files

(* The entries that --generate-ignore writes are those of the problems.    *)
LEMMA WriteRemembers ==
  ASSUME IInv, NEW p \in Proc, Write(p)
  PROVE  Remembered'
<1> DEFINE r == run[p]
<1>1. TypeOK /\ r \in Run /\ RunInv(r)
  BY DEF IInv, TypeOK
<1>2. r.at = "torn" /\ r.mode = "generate" /\ r.left = << >> /\ ~r.errors
  BY <1>1 DEF Write, At, RunInv, Progress
<1>3. /\ ignore' = NewIgnore(r)
      /\ basis' = IF r.edits = edits
                  THEN [targets |-> r.targets, rules |-> r.rules, present |-> present,
                        edits |-> edits, writes |-> writes']
                  ELSE None
  BY DEF Write
<1> HIDE DEF r
<1> SUFFICES ASSUME basis' # None
             PROVE  \E S \in SUBSET (1 .. Len(r.targets)), at \in [File -> Nat] : Accepts(basis', S, at, ignore')
  BY <1>3 DEF Remembered
<1>4. r.edits = edits /\ basis'.targets = r.targets /\ basis'.rules = r.rules /\ basis'.present = present
  BY <1>3
<1>5. PICK S \in SUBSET (1 .. Len(r.targets)) : FindsAll(r, S)
  BY <1>1, <1>2, <1>4, AllIs
<1>6. r.mode # "newonly" /\ \A f : ~Silent(f, r)
  BY <1>2 DEF Silent
<1>7. /\ Consistent(r.targets, Len(r.targets), S)
      /\ \A i \in S : Files(Pipeline[r.targets[i]]) \subseteq r.scanned
      /\ \A i \in S, q \in present, file \in File :
           q.rule \in r.rules /\ Reports(q, Pipeline[r.targets[i]], file)
           => <<r.targets[i], FindingIn(q, file)>> \in r.all
      /\ \A pair \in r.all : \E i \in S, q \in present, file \in File :
           /\ q.rule \in r.rules /\ Reports(q, Pipeline[r.targets[i]], file)
           /\ pair = <<r.targets[i], FindingIn(q, file)>>
  BY <1>5, <1>6 DEF FindsAll
<1>8. r.old \in Seq(Entry) /\ r.all \subseteq File \X Finding /\ r.targets \in Seq(File)
  BY <1>1 DEF Run
<1>9. ASSUME NEW q \in present, NEW file \in File, q.rule \in r.rules, Tells(r.targets, S, q, file)
      PROVE  \E i \in DOMAIN ignore' :
               /\ ignore'[i].rule = q.rule /\ ignore'[i].file = file
               /\ ignore'[i].line = LineIn(q, file) + shift[file]
  <2>1. PICK i \in S : <<r.targets[i], FindingIn(q, file)>> \in r.all
    BY <1>7, <1>9 DEF Tells
  <2> DEFINE f == FindingIn(q, file)
             place == [file |-> f.file, line |-> f.line, rule |-> f.rule]
  <2>2. f.file = file /\ f.line = LineIn(q, file) + shift[file] /\ f.rule = q.rule
    BY DEF FindingIn
  <2> HIDE DEF f
  <2>3. place \in FoundPlaces(r)
    BY <2>1 DEF FoundPlaces, f
  <2>4. Lines(r, place) \in ToSet(ignore')
    BY <1>1, <1>3, <2>3, NewIgnoreRight
  <2>5. /\ Lines(r, place).file = place.file /\ Lines(r, place).line = place.line
        /\ Lines(r, place).rule = place.rule
    BY <1>8, <2>3, LinesOf
  <2>6. PICK k \in DOMAIN ignore' : ignore'[k] = Lines(r, place)
    BY <2>4 DEF ToSet
  <2> QED
    BY <2>2, <2>5, <2>6
<1>10. ASSUME NEW i \in DOMAIN ignore', Legible(ignore'[i]), ignore'[i].rule \in r.rules,
             NEW d \in DocumentsOf(r.targets), d.file = ignore'[i].file
      PROVE  \E q \in present :
               /\ q.rule = ignore'[i].rule /\ Tells(r.targets, S, q, ignore'[i].file)
               /\ ignore'[i].line = LineIn(q, ignore'[i].file) + shift[ignore'[i].file]
  <2> DEFINE e == ignore'[i]
  <2>1. PICK j \in S : d.file \in Files(Pipeline[r.targets[j]])
    BY <1>1, <1>7, ScannedFile
  <2>2. e.file \in r.scanned
    BY <1>7, <1>10, <2>1
  <2>3. Covered(r, e)
    BY <1>10, <2>2 DEF Covered
  <2>4. PICK place \in FoundPlaces(r) : e = Lines(r, place)
    BY <1>1, <1>3, <2>3, NewIgnoreRight
  <2>5. e.file = place.file /\ e.line = place.line /\ e.rule = place.rule
    BY <1>8, <2>4, LinesOf
  <2> HIDE DEF e
  <2>6. PICK pair \in r.all : place = [file |-> pair[2].file, line |-> pair[2].line, rule |-> pair[2].rule]
    BY DEF FoundPlaces
  <2>7. PICK k \in S, q \in present, file \in File :
          /\ Reports(q, Pipeline[r.targets[k]], file)
          /\ pair = <<r.targets[k], FindingIn(q, file)>>
    BY <1>7
  <2>8. place.file = file /\ place.line = LineIn(q, file) + shift[file] /\ place.rule = q.rule
    BY <2>6, <2>7 DEF FindingIn
  <2>9. Tells(r.targets, S, q, file)
    BY <2>7 DEF Tells
  <2> QED
    BY <2>5, <2>8, <2>9 DEF e
<1>11. Accepts(basis', S, shift, ignore')
  BY <1>4, <1>7, <1>9, <1>10 DEF Accepts
<1>12. shift \in [File -> Nat]
  BY <1>1 DEF TypeOK
<1> QED
  BY <1>11, <1>12

(* Each step remembers, or forgets for good. *)
LEMMA StepRemembered ==
  ASSUME IInv, [Next]_vars, Remembered
  PROVE  Remembered'
<1>1. TypeOK /\ TypeOK' /\ BasisRight /\ Forward
  BY StepIInv, StepForward DEF IInv
<1>2. CASE UNCHANGED basis
  BY <1>1, <1>2, KeepRemembered
<1>3. CASE \E p \in Proc : Write(p)
  BY <1>3, WriteRemembers
<1>4. UNCHANGED basis \/ \E p \in Proc : Write(p)
  BY ZenonT(40) DEF Next, Start, SkipTarget, TargetFails, Collect, CheckDocument, DocumentFails, EndTarget,
         EndScan, EndNewOnly, NoBaseline, RefuseToWrite, ReadIgnore, Truncate, WriteFails, Quit,
         Introduce, Fix, MoveDown, SetExpiry, Midnight, vars
<1> QED
  BY <1>2, <1>3, <1>4

-----------------------------------------------------------------------------
(* Counting entries against findings. *)

(* The entries that accept findings of the rule in the file. *)
Accepting(rule, file) ==
  {i \in DOMAIN ignore :
     Legible(ignore[i]) /\ ~Expired(ignore[i]) /\ ignore[i].rule = rule /\ ignore[i].file = file}

(* What --new-only finds in the targets S, before it counts. *)
Counts(r, S) ==
  /\ \A i \in S, q \in present, file \in File :
       q.rule \in r.rules /\ Reports(q, Pipeline[r.targets[i]], file)
       => <<r.targets[i], FindingIn(q, file)>> \in r.all \/ Silent(FindingIn(q, file), r)
  /\ \A pair \in r.all : \E i \in S, q \in present, file \in File :
       /\ q.rule \in r.rules /\ pair = <<r.targets[i], FindingIn(q, file)>>
       /\ Reports(q, Pipeline[r.targets[i]], file) \/ HiddenElsewhere(q.rule, file, r.day)

(* The run r does not change, but this is what it compares with. *)
Compares(r, S, at) ==
  /\ TypeOK /\ IsFiniteSet(r.all) /\ r.mode = "newonly"
  /\ S \in SUBSET (1 .. Len(r.targets)) /\ at \in [File -> Nat]
  /\ basis # None /\ basis.targets = r.targets /\ r.rules \subseteq basis.rules
  /\ Accepts(basis, S, at, ignore) /\ Counts(r, S)

LEMMA AcceptingFinite ==
  ASSUME TypeOK, NEW rule, NEW file
  PROVE  /\ IsFiniteSet(Accepting(rule, file))
         /\ Accepted(rule, file) = Cardinality(Accepting(rule, file)) /\ Accepted(rule, file) \in Nat
<1>1. Len(ignore) \in Nat /\ Accepting(rule, file) \in SUBSET (1 .. Len(ignore))
  BY DEF TypeOK, Accepting
<1>2. IsFiniteSet(1 .. Len(ignore))
  BY <1>1, FS_Interval
<1>3. IsFiniteSet(Accepting(rule, file))
  BY <1>1, <1>2, FS_Subset
<1>4. Accepted(rule, file) = Cardinality(Accepting(rule, file))
  BY DEF Accepted, Accepting
<1> QED
  BY <1>3, <1>4, FS_CardinalityType

(* How many findings of the rule in the file --new-only leaves.            *)
LEMMA LeftOver ==
  ASSUME TypeOK, NEW all \in SUBSET (File \X Finding), IsFiniteSet(all), NEW new, NewOnly(all, new),
         NEW rule \in Rule, NEW file \in File
  PROVE  /\ IsFiniteSet(Alike(all, rule, file)) /\ Cardinality(Alike(all, rule, file)) \in Nat
         /\ Alike(new, rule, file) = {} <=> Cardinality(Alike(all, rule, file)) <= Accepted(rule, file)
<1>1. /\ IsFiniteSet(Alike(all, rule, file)) /\ Cardinality(Alike(all, rule, file)) \in Nat
      /\ IsFiniteSet(Alike(new, rule, file))
  <2>1. Alike(all, rule, file) \in SUBSET all /\ Alike(new, rule, file) \in SUBSET all
    BY DEF Alike, NewOnly
  <2> QED
    BY <2>1, FS_Subset, FS_CardinalityType
<1>2. Cardinality(Alike(new, rule, file)) =
        Max({0, Cardinality(Alike(all, rule, file)) - Accepted(rule, file)})
  BY DEF NewOnly
<1>3. Accepted(rule, file) \in Nat
  BY AcceptingFinite
<1>4. Alike(new, rule, file) = {} <=> Cardinality(Alike(new, rule, file)) = 0
  BY <1>1, FS_EmptySet
<1>5. ASSUME NEW d \in Int
      PROVE  Max({0, d}) = 0 <=> d <= 0
  <2>1. \E x \in {0, d} : \A y \in {0, d} : x >= y
    BY <1>5
  <2>2. Max({0, d}) \in {0, d} /\ \A y \in {0, d} : Max({0, d}) >= y
    BY <2>1 DEF Max
  <2> QED
    BY <2>2
<1>6. Cardinality(Alike(all, rule, file)) - Accepted(rule, file) \in Int
  BY <1>1, <1>3
<1>7. Max({0, Cardinality(Alike(all, rule, file)) - Accepted(rule, file)}) = 0
        <=> Cardinality(Alike(all, rule, file)) - Accepted(rule, file) <= 0
  BY <1>5, <1>6
<1> QED
  BY <1>1, <1>2, <1>3, <1>4, <1>7

(* Where no entry has to stand for two findings, each finding on what was  *)
(* there before has an entry of its own.                                   *)
LEMMA NoneLeft ==
  ASSUME NEW r \in Run, NEW S, NEW at, Compares(r, S, at), present \subseteq basis.present,
         NEW rule \in Rule, NEW file \in File \ Unwritable,
         ~ \E i \in DOMAIN ignore : ignore[i].rule = rule /\ ignore[i].file = file /\ Expired(ignore[i]),
         ~Crowded(rule, file), ~Repeated(file, r.targets), ~HiddenElsewhere(rule, file, r.day)
  PROVE  Cardinality(Alike(r.all, rule, file)) <= Accepted(rule, file)
<1>0. TypeOK /\ present \subseteq Problem /\ r.targets \in Seq(File) /\ S \subseteq 1 .. Len(r.targets)
      /\ at \in [File -> Nat] /\ at[file] \in Nat
  BY DEF Compares, TypeOK, Run
<1> DEFINE A == Alike(r.all, rule, file)
           B == Accepting(rule, file)
           Stands(z, k) == \E i \in S, q \in present :
             /\ q.rule = rule /\ Reports(q, Pipeline[r.targets[i]], file)
             /\ z = <<r.targets[i], FindingIn(q, file)>>
             /\ ignore[k].line = LineIn(q, file) + at[file]
<1>1. ASSUME NEW z \in A
      PROVE  \E k \in B : Stands(z, k)
  <2>1. z \in r.all /\ z[2].rule = rule /\ z[2].file = file
    BY DEF Alike
  <2>2. PICK i \in S, q \in present, other \in File :
          /\ q.rule \in r.rules /\ z = <<r.targets[i], FindingIn(q, other)>>
          /\ Reports(q, Pipeline[r.targets[i]], other) \/ HiddenElsewhere(q.rule, other, r.day)
    BY <2>1 DEF Compares, Counts
  <2>3. q.rule = rule /\ other = file
    BY <2>1, <2>2 DEF FindingIn
  <2>4. Reports(q, Pipeline[r.targets[i]], file)
    BY <2>2, <2>3
  <2>5. q \in basis.present /\ q.rule \in basis.rules /\ Tells(basis.targets, S, q, file)
    BY <2>2, <2>4 DEF Compares, Tells
  <2>6. PICK k \in DOMAIN ignore :
          ignore[k].rule = q.rule /\ ignore[k].file = file /\ ignore[k].line = LineIn(q, file) + at[file]
    BY <2>5 DEF Compares, Accepts
  <2>7. k \in B
    BY <2>3, <2>6 DEF Accepting, Legible
  <2> QED
    BY <2>2, <2>3, <2>6, <2>7, <2>4
<1>2. ASSUME NEW y \in A, NEW z \in A, NEW k \in B, Stands(y, k), Stands(z, k)
      PROVE  y = z
  <2>1. PICK i \in S, q \in present :
          /\ q.rule = rule /\ Reports(q, Pipeline[r.targets[i]], file)
          /\ y = <<r.targets[i], FindingIn(q, file)>>
          /\ ignore[k].line = LineIn(q, file) + at[file]
    BY <1>2
  <2>2. PICK j \in S, x \in present :
          /\ x.rule = rule /\ Reports(x, Pipeline[r.targets[j]], file)
          /\ z = <<r.targets[j], FindingIn(x, file)>>
          /\ ignore[k].line = LineIn(x, file) + at[file]
    BY <1>2
  <2>3. LineIn(q, file) \in Nat /\ LineIn(x, file) \in Nat
    BY <1>0, PlaceOf DEF LineIn
  <2>4. LineIn(q, file) = LineIn(x, file)
    BY <1>0, <2>1, <2>2, <2>3
  <2>5. /\ ShownOn(q, file, LineIn(q, file)) /\ ShownOn(x, file, LineIn(x, file))
        /\ file \in Files(Pipeline[r.targets[i]]) /\ file \in Files(Pipeline[r.targets[j]])
    BY <2>1, <2>2, ReportsShown DEF Files
  <2>6. q = x
    <3>1. q \in basis.present /\ x \in basis.present /\ LineIn(q, file) \in {q.line, 1}
      BY DEF LineIn
    <3> QED
      BY <2>1, <2>2, <2>4, <2>5, <3>1 DEF Crowded
  <2>7. i = j
    <3>1. Consistent(r.targets, Len(r.targets), S)
      BY DEF Compares, Accepts
    <3>2. i \in DOMAIN r.targets /\ j \in DOMAIN r.targets /\ i \in Nat /\ j \in Nat
      BY <1>0
    <3>3. S = RootsOf(r.targets)
      BY <1>0, <3>1, RootsAre
    <3>4. ~(i < j) /\ ~(j < i)
      BY <2>5, <3>2, <3>3 DEF Repeated
    <3> QED
      BY <3>2, <3>4
  <2> QED
    BY <2>1, <2>2, <2>6, <2>7
<1> HIDE DEF A, B, Stands
<1> DEFINE h == [z \in A |-> CHOOSE k \in B : Stands(z, k)]
<1>3. \A z \in A : h[z] \in B /\ Stands(z, h[z])
  BY <1>1
<1>4. h \in [A -> B]
  BY <1>3
<1> HIDE DEF h
<1>5. h \in Injection(A, B)
  <2>1. \A y, z \in A : h[y] = h[z] => y = z
    BY <1>2, <1>3
  <2> QED
    BY <1>4, <2>1 DEF Injection, IsInjective
<1>6. IsFiniteSet(B) /\ Accepted(rule, file) = Cardinality(B)
  BY <1>0, AcceptingFinite DEF B
<1>7. Cardinality(A) <= Cardinality(B)
  BY <1>5, <1>6, FS_Injection
<1> QED
  BY <1>6, <1>7 DEF A

(* A problem that was not there before is one more than there are entries, *)
(* if each entry is for a finding that --new-only still counts.            *)
LEMMA OneMore ==
  ASSUME NEW r \in Run, NEW S, NEW at, Compares(r, S, at), Apart(ignore),
         basis.present \subseteq present,
         NEW q \in present \ basis.present,
         NEW d \in DocumentsOf(r.targets), ShownInFile(q, d, r.rules),
         ~Commented(q.rule, q.file, Line(q), r.day),
         ~ \E x \in basis.present, e \in DocumentsOf(r.targets) :
             x.rule = q.rule /\ e.file = q.file /\ LeavesOut(x, e, r),
         IsFiniteSet(Alike(r.all, q.rule, q.file))
  PROVE  Accepted(q.rule, q.file) < Cardinality(Alike(r.all, q.rule, q.file))
<1>0. /\ TypeOK /\ present \subseteq Problem /\ q \in Problem /\ q.file \in File
      /\ q.rule \in r.rules /\ q.rule \in basis.rules
      /\ r.targets \in Seq(File) /\ S \subseteq 1 .. Len(r.targets)
      /\ Consistent(r.targets, Len(r.targets), S) /\ basis.targets = r.targets
      /\ Accepts(basis, S, at, ignore) /\ Counts(r, S)
  <2>1. TypeOK /\ Accepts(basis, S, at, ignore) /\ Counts(r, S) /\ basis.targets = r.targets
    BY DEF Compares
  <2>2. present \subseteq Problem /\ q \in Problem /\ q.file \in File
    BY <2>1, PlaceOf DEF TypeOK
  <2>3. q.rule \in r.rules /\ q.rule \in basis.rules
    BY DEF Compares, ShownInFile, RuleRuns
  <2>4. r.targets \in Seq(File) /\ S \subseteq 1 .. Len(r.targets)
    BY DEF Compares, Run
  <2>5. Consistent(r.targets, Len(r.targets), S)
    BY <2>1 DEF Accepts
  <2> QED
    BY <2>1, <2>2, <2>3, <2>4, <2>5
<1> DEFINE A == Alike(r.all, q.rule, q.file)
           B == Accepting(q.rule, q.file)
           For(k, z) == \E j \in S, x \in basis.present :
             /\ x.rule = q.rule /\ z = <<r.targets[j], FindingIn(x, q.file)>>
             /\ ignore[k].line = LineIn(x, q.file) + at[q.file]
<1>1. d.file = q.file /\ OwnDoc(q, d) /\ r.mode = "newonly"
  BY DEF ShownInFile, OwnDoc, Runs, RuleRuns, Compares
<1>2. PICK i \in S : <<r.targets[i], FindingIn(q, q.file)>> \in A
  <2>1. PICK i \in S : d \in ToSet(Pipeline[r.targets[i]])
    BY <1>0, ScannedFile
  <2>2. Reports(q, Pipeline[r.targets[i]], q.file)
    BY <1>1, <2>1 DEF Reports
  <2> DEFINE f == FindingIn(q, q.file)
  <2>3. f.rule = q.rule /\ f.file = q.file /\ f.line = Line(q) /\ f.origin = None
    BY DEF FindingIn, LineIn, Line
  <2>4. <<r.targets[i], f>> \in r.all \/ Silent(f, r)
    BY <1>0, <2>2 DEF Counts
  <2> HIDE DEF f
  <2>5. ~Silent(f, r)
    BY <1>1, <2>3 DEF Silent
  <2>6. <<r.targets[i], f>> \in A
    BY <2>3, <2>4, <2>5 DEF Alike
  <2> QED
    BY <2>6 DEF f
<1> DEFINE own == <<r.targets[i], FindingIn(q, q.file)>>
<1>3. ASSUME NEW k \in B
      PROVE  \E z \in A \ {own} : For(k, z)
  <2>1. k \in DOMAIN ignore /\ Legible(ignore[k]) /\ ignore[k].rule = q.rule /\ ignore[k].file = q.file
    BY DEF Accepting
  <2>2. PICK x \in basis.present :
          /\ x.rule = q.rule /\ Tells(r.targets, S, x, q.file)
          /\ ignore[k].line = LineIn(x, q.file) + at[q.file]
    BY <1>0, <1>1, <2>1 DEF Accepts
  <2>3. PICK j \in S : Reports(x, Pipeline[r.targets[j]], q.file)
    BY <2>2 DEF Tells
  <2> DEFINE f == FindingIn(x, q.file)
  <2>4. PICK e \in ToSet(Pipeline[r.targets[j]]) : e.file = q.file /\ (OwnDoc(x, e) \/ JobDoc(x, e))
    BY <2>3, ReportsShown
  <2>5. ~Silent(f, r)
    <3>1. e \in DocumentsOf(r.targets)
      <4>1. S = RootsOf(r.targets)
        BY <1>0, RootsAre
      <4> QED
        BY <2>4, <4>1 DEF DocumentsOf
    <3>2. ~LeavesOut(x, e, r)
      BY <2>2, <2>4, <3>1
    <3>3. x.rule \in r.rules
      BY <1>0, <2>2
    <3>4. CASE OwnDoc(x, e)
      <4>1. f.rule = x.rule /\ f.file = x.file /\ f.line = Line(x) /\ f.origin = None
        BY <2>4, <3>4 DEF OwnDoc, FindingIn, LineIn, Line
      <4>2. ShownInFile(x, e, r.rules)
        BY <3>3, <3>4 DEF ShownInFile, OwnDoc, Runs, RuleRuns
      <4> HIDE DEF f
      <4> QED
        BY <1>1, <3>2, <4>1, <4>2 DEF Silent, LeavesOut
    <3>5. CASE JobDoc(x, e)
      <4>1. /\ f.rule = x.rule /\ f.file = e.file /\ f.line = JobLine(e.file)
            /\ f.origin.file = x.file /\ f.origin.line = Line(x)
        BY <2>4, <3>5 DEF JobDoc, FindingIn, LineIn, JobLine
      <4>2. ShownAtJob(x, e, r.rules)
        BY <3>3, <3>5 DEF ShownAtJob, JobDoc, Runs, RuleRuns
      <4> HIDE DEF f
      <4> QED
        BY <1>1, <3>2, <4>1, <4>2 DEF Silent, LeavesOut
    <3> QED
      BY <2>4, <3>4, <3>5
  <2>6. <<r.targets[j], FindingIn(x, q.file)>> \in r.all
    BY <1>0, <2>2, <2>3, <2>5 DEF Counts
  <2>7. FindingIn(x, q.file).rule = q.rule /\ FindingIn(x, q.file).file = q.file
    BY <2>2 DEF FindingIn
  <2>8. <<r.targets[j], FindingIn(x, q.file)>> \in A
    BY <2>6, <2>7 DEF Alike
  <2>9. <<r.targets[j], FindingIn(x, q.file)>> # own
    <3>1. x # q /\ x \in Problem
      BY <1>0
    <3>2. FindingIn(x, q.file) # FindingIn(q, q.file)
      BY <1>0, <3>1, FindingTells
    <3> QED
      BY <3>2
  <2> QED
    BY <2>2, <2>8, <2>9
<1>4. ASSUME NEW k \in B, NEW m \in B, NEW z, For(k, z), For(m, z)
      PROVE  k = m
  <2>1. PICK j \in S, x \in basis.present :
          /\ x.rule = q.rule /\ z = <<r.targets[j], FindingIn(x, q.file)>>
          /\ ignore[k].line = LineIn(x, q.file) + at[q.file]
    BY <1>4
  <2>2. PICK n \in S, y \in basis.present :
          /\ y.rule = q.rule /\ z = <<r.targets[n], FindingIn(y, q.file)>>
          /\ ignore[m].line = LineIn(y, q.file) + at[q.file]
    BY <1>4
  <2>3. FindingIn(x, q.file) = FindingIn(y, q.file)
    BY <2>1, <2>2
  <2>4. x = y
    BY <1>0, <2>3, FindingTells
  <2>5. ignore[k].line = ignore[m].line
    BY <2>1, <2>2, <2>4
  <2> QED
    BY <2>5 DEF Apart, Accepting
<1> HIDE DEF A, B, For, own
<1> DEFINE h == [k \in B |-> CHOOSE z \in A \ {own} : For(k, z)]
<1>5. \A k \in B : h[k] \in A \ {own} /\ For(k, h[k])
  BY <1>3
<1>6. h \in [B -> A \ {own}]
  BY <1>5
<1> HIDE DEF h
<1>7. h \in Injection(B, A \ {own})
  <2>1. \A k, m \in B : h[k] = h[m] => k = m
    BY <1>4, <1>5
  <2> QED
    BY <1>6, <2>1 DEF Injection, IsInjective
<1>8. own \in A /\ IsFiniteSet(A)
  BY <1>2 DEF own, A
<1>9. /\ IsFiniteSet(A \ {own}) /\ Cardinality(A \ {own}) = Cardinality(A) - 1
      /\ Cardinality(A) \in Nat
  BY <1>8, FS_RemoveElement, FS_CardinalityType
<1>10. Cardinality(B) <= Cardinality(A \ {own})
  BY <1>7, <1>9, FS_Injection
<1>11. Accepted(q.rule, q.file) = Cardinality(B) /\ Cardinality(B) \in Nat
  BY <1>0, AcceptingFinite DEF B
<1>12. Cardinality(B) < Cardinality(A)
  BY <1>9, <1>10, <1>11
<1> QED
  BY <1>11, <1>12 DEF A

-----------------------------------------------------------------------------
(* DiffReportsNew, for one run. *)

AfterBaseline(r) ==
  /\ r.at = "done" /\ r.mode = "newonly" /\ r.exit # 2
  /\ r.edits = edits /\ r.writes = writes
  /\ basis # None
  /\ basis.writes = writes
  /\ basis.targets = r.targets
  /\ r.rules \subseteq basis.rules

Exempt(f, r) ==
  \/ \E i \in DOMAIN ignore : ignore[i].rule = f.rule /\ ignore[i].file = f.file /\ Expired(ignore[i])
  \/ f.file \in Unwritable
  \/ Crowded(f.rule, f.file)
  \/ Repeated(f.file, r.targets)
  \/ HiddenElsewhere(f.rule, f.file, r.day)

Quiet(r) == present \subseteq basis.present => \A pair \in r.all : Exempt(pair[2], r)

MissedBy(q, r) ==
  /\ q \in present \ basis.present
  /\ \E d \in DocumentsOf(r.targets) : ShownInFile(q, d, r.rules)
  /\ ~Commented(q.rule, q.file, Line(q), r.day)
  /\ \A pair \in r.all : ~(pair[2].rule = q.rule /\ pair[2].file = q.file)

Thrown(r) ==
  basis.present \subseteq present =>
    \A q \in Problem : MissedBy(q, r) =>
      \E x \in basis.present, d \in DocumentsOf(r.targets) :
        x.rule = q.rule /\ d.file = q.file /\ LeavesOut(x, d, r)

DiffRight(r) == AfterBaseline(r) => Quiet(r) /\ Thrown(r)

LEMMA DiffOfRuns == DiffReportsNew <=> \A p \in Proc : DiffRight(run[p])
<1>1. \A p \in Proc : OverAfterBaseline(p, "newonly") <=> AfterBaseline(run[p])
  BY DEF OverAfterBaseline, AfterBaseline, At
<1>2. \A p \in Proc, q \in Problem : IsMissed(q, p) <=> MissedBy(q, run[p])
  BY DEF IsMissed, MissedBy
<1>3. NothingNewIsQuiet <=> \A p \in Proc : AfterBaseline(run[p]) => Quiet(run[p])
  BY <1>1 DEF NothingNewIsQuiet, Quiet, Exempt
<1>4. NewOccurrenceReported <=> \A p \in Proc : AfterBaseline(run[p]) => Thrown(run[p])
  BY <1>1, <1>2 DEF NewOccurrenceReported, Thrown
<1> QED
  BY <1>3, <1>4 DEF DiffReportsNew, DiffRight

(* What a run compares with at its end. *)
LEMMA ComparesAtEnd ==
  ASSUME TypeOK, Remembered, NEW r \in Run, RunInv(r),
         r.at = "target", r.left = << >>, r.mode = "newonly", ~r.errors, r.edits = edits,
         basis # None, basis.writes = writes, basis.targets = r.targets, r.rules \subseteq basis.rules
  PROVE  \E S, at : Compares(r, S, at)
<1>1. PICK S \in SUBSET (1 .. Len(basis.targets)), at \in [File -> Nat] : Accepts(basis, S, at, ignore)
  BY DEF Remembered
<1>2. PICK T \in SUBSET (1 .. Len(r.targets)) : FindsAll(r, T)
  BY AllIs
<1>6. Consistent(r.targets, Len(r.targets), T) /\ Counts(r, T)
  BY <1>2 DEF FindsAll, Counts
<1>3. S = T
  <2>1. Len(r.targets) \in Nat
    BY DEF Run
  <2>2. Consistent(r.targets, Len(r.targets), S)
    BY <1>1 DEF Accepts
  <2> QED
    BY <1>6, <2>1, <2>2, ConsistentOne
<1>4. IsFiniteSet(r.all)
  BY DEF RunInv, Scope
<1>5. Compares(r, S, at)
  BY <1>1, <1>3, <1>4, <1>6 DEF Compares
<1> QED
  BY <1>5

(* The end of a --new-only run. *)
LEMMA EndRight ==
  ASSUME IInv, Remembered, NEW r \in Run, RunInv(r), r.at = "target", r.left = << >>, r.mode = "newonly",
         NEW new, NewOnly(r.all, new), NEW x \in Run,
         x = [r EXCEPT !.at = "done", !.all = new, !.exit = ExitCode(r, new)]
  PROVE  DiffRight(x)
<1> SUFFICES ASSUME AfterBaseline(x)
             PROVE  Quiet(x) /\ Thrown(x)
  BY DEF DiffRight
<1>0. TypeOK /\ Apart(ignore)
  BY DEF IInv
<1>1. /\ x.targets = r.targets /\ x.rules = r.rules /\ x.all = new /\ x.edits = r.edits
      /\ x.day = r.day /\ x.exit = ExitCode(r, new)
  BY DEF Run
<1>2. ~r.errors
  BY <1>1 DEF AfterBaseline, ExitCode
<1>3. PICK S, at : Compares(r, S, at)
  BY <1>0, <1>1, <1>2, ComparesAtEnd DEF AfterBaseline
<1>4. r.all \in SUBSET (File \X Finding) /\ IsFiniteSet(r.all) /\ new \subseteq r.all
  BY <1>3 DEF Run, Compares, NewOnly
<1>5. ASSUME NEW rule \in Rule, NEW file \in File
      PROVE  /\ IsFiniteSet(Alike(r.all, rule, file)) /\ Cardinality(Alike(r.all, rule, file)) \in Nat
             /\ Alike(new, rule, file) = {} <=> Cardinality(Alike(r.all, rule, file)) <= Accepted(rule, file)
             /\ Accepted(rule, file) \in Nat
  BY <1>0, <1>4, LeftOver, AcceptingFinite
<1>6. Quiet(x)
  <2> SUFFICES ASSUME present \subseteq basis.present, NEW pair \in new, ~Exempt(pair[2], x)
               PROVE  FALSE
    BY <1>1 DEF Quiet
  <2> DEFINE rule == pair[2].rule
             file == pair[2].file
  <2>1. rule \in Rule /\ file \in File
    BY <1>4 DEF Finding
  <2>2. /\ ~ \E i \in DOMAIN ignore : ignore[i].rule = rule /\ ignore[i].file = file /\ Expired(ignore[i])
        /\ file \notin Unwritable /\ ~Crowded(rule, file) /\ ~Repeated(file, r.targets)
        /\ ~HiddenElsewhere(rule, file, r.day)
    BY <1>1 DEF Exempt
  <2>3. pair \in Alike(new, rule, file)
    BY DEF Alike
  <2> HIDE DEF rule, file
  <2>4. Cardinality(Alike(r.all, rule, file)) <= Accepted(rule, file)
    BY <1>3, <2>1, <2>2, NoneLeft
  <2> QED
    BY <1>5, <2>1, <2>3, <2>4
<1>7. Thrown(x)
  <2> SUFFICES ASSUME basis.present \subseteq present, NEW q \in Problem, MissedBy(q, x),
                      ~ \E y \in basis.present, d \in DocumentsOf(x.targets) :
                          y.rule = q.rule /\ d.file = q.file /\ LeavesOut(y, d, x)
               PROVE  FALSE
    BY DEF Thrown
  <2>1. /\ q \in present \ basis.present /\ ~Commented(q.rule, q.file, Line(q), r.day)
        /\ \E d \in DocumentsOf(r.targets) : ShownInFile(q, d, r.rules)
        /\ ~ \E y \in basis.present, d \in DocumentsOf(r.targets) :
                y.rule = q.rule /\ d.file = q.file /\ LeavesOut(y, d, r)
    BY <1>1 DEF MissedBy, LeavesOut
  <2>2. q.rule \in Rule /\ q.file \in File
    BY RunsAssumption DEF ProblemType
  <2>3. Alike(new, q.rule, q.file) = {}
    BY <1>1 DEF MissedBy, Alike
  <2>4. Accepted(q.rule, q.file) < Cardinality(Alike(r.all, q.rule, q.file))
    BY <1>0, <1>3, <1>5, <2>1, <2>2, OneMore
  <2> QED
    BY <1>5, <2>2, <2>3, <2>4
<1> QED
  BY <1>6, <1>7

(* While others take steps. *)
LEMMA KeepDiff ==
  ASSUME IInv, TypeOK', [Next]_vars, NEW r \in Run, RunInv(r), DiffRight(r)
  PROVE  DiffRight(r)'
<1> SUFFICES ASSUME AfterBaseline(r)'
             PROVE  (Quiet(r) /\ Thrown(r))'
  BY DEF DiffRight
<1>1. TypeOK /\ Forward
  BY StepForward DEF IInv
<1>2. edits' = edits /\ writes' = writes
  <2>1. r.edits <= edits /\ r.writes <= writes /\ r.edits = edits' /\ r.writes = writes'
    BY DEF RunInv, Counted, AfterBaseline
  <2>2. edits \in Nat /\ writes \in Nat /\ edits' \in Nat /\ writes' \in Nat /\ r.edits \in Nat /\ r.writes \in Nat
    BY <1>1 DEF TypeOK, Run
  <2> QED
    BY <1>1, <2>1, <2>2 DEF Forward
<1>3. UNCHANGED basis
  <2>1. ASSUME NEW p \in Proc, Write(p)
        PROVE  FALSE
    <3>1. writes' = writes + 1 /\ writes \in Nat
      BY <1>1, <2>1 DEF Write, TypeOK
    <3> QED
      BY <1>2, <3>1
  <2> QED
    BY ZenonT(40), <2>1 DEF Next, Start, SkipTarget, TargetFails, Collect, CheckDocument, DocumentFails, EndTarget,
         EndScan, EndNewOnly, NoBaseline, RefuseToWrite, ReadIgnore, Truncate, WriteFails, Quit,
         Introduce, Fix, MoveDown, SetExpiry, Midnight, vars
<1>4. UNCHANGED <<present, shift>> /\ SameEntries
  BY <1>1, <1>2 DEF Forward
<1>5. AfterBaseline(r)
  BY <1>2, <1>3 DEF AfterBaseline
<1>6. Quiet(r) /\ Thrown(r)
  BY <1>5 DEF DiffRight
<1>7. ASSUME NEW f, Exempt(f, r)
      PROVE  Exempt(f, r)'
  <2>1. ASSUME NEW i \in DOMAIN ignore, Expired(ignore[i])
        PROVE  Expired(ignore[i])'
    <3>1. ignore'[i].until = ignore[i].until
      BY <1>4, <2>1 DEF SameEntries, Expired, InForce
    <3>2. PICK e \in Entry : e = ignore[i]
      BY <1>1 DEF TypeOK
    <3>3. Expired(e)'
      BY <1>1, <2>1, <3>2, StaysExpired DEF Forward
    <3> QED
      BY <3>1, <3>2, <3>3 DEF Expired, InForce
  <2>2. Crowded(f.rule, f.file)' <=> Crowded(f.rule, f.file)
    BY <1>3 DEF Crowded
  <2>3. HiddenElsewhere(f.rule, f.file, r.day)' <=> HiddenElsewhere(f.rule, f.file, r.day)
    BY <1>4 DEF HiddenElsewhere, Commented, Line, JobLine
  <2> QED
    BY <1>4, <1>7, <2>1, <2>2, <2>3 DEF Exempt, SameEntries
<1>8. Quiet(r)'
  BY <1>3, <1>4, <1>6, <1>7 DEF Quiet
<1>9. Thrown(r)'
  <2>1. \A rule, file, line, day : Commented(rule, file, line, day)' <=> Commented(rule, file, line, day)
    BY <1>4 DEF Commented, Line
  <2>2. \A q, d : LeavesOut(q, d, r)' <=> LeavesOut(q, d, r)
    BY <1>4, <2>1 DEF LeavesOut, Line, JobLine
  <2>3. \A q : MissedBy(q, r)' <=> MissedBy(q, r)
    BY <1>3, <1>4, <2>1 DEF MissedBy, Line
  <2> QED
    BY <1>3, <1>4, <1>6, <2>2, <2>3 DEF Thrown
<1> QED
  BY <1>8, <1>9

(* Only EndNewOnly ends a --new-only run with findings. *)
LEMMA WhoEnds ==
  ASSUME TypeOK, [Next]_vars, NEW p \in Proc, run'[p] # run[p],
         run'[p].at = "done", run'[p].mode = "newonly", run'[p].exit # 2, run[p].at = "torn" => run[p].mode = "generate"
  PROVE  EndNewOnly(p)
<1>1. run \in [Proc -> Run]
  BY DEF TypeOK
<1>2. PICK q \in Proc :
        \/ Start(q)
        \/ SkipTarget(q) \/ TargetFails(q) \/ Collect(q)
        \/ CheckDocument(q) \/ DocumentFails(q) \/ EndTarget(q)
        \/ EndScan(q) \/ EndNewOnly(q) \/ NoBaseline(q)
        \/ RefuseToWrite(q) \/ ReadIgnore(q) \/ Truncate(q) \/ Write(q) \/ WriteFails(q)
        \/ Quit(q)
  BY DEF Next, Introduce, Fix, MoveDown, SetExpiry, Midnight, vars, World
<1>3. q = p
  BY <1>1, <1>2 DEF Start, SkipTarget, TargetFails, Collect, CheckDocument, DocumentFails, EndTarget,
         EndScan, EndNewOnly, NoBaseline, RefuseToWrite, ReadIgnore, Truncate, Write, WriteFails, Quit
<1>4. run[p] \in Run
  BY <1>1
<1>5. ~Start(p)
  <2> SUFFICES ASSUME Start(p)
               PROVE  run'[p].at # "done"
    OBVIOUS
  <2>1. PICK mode \in Modes, rules \in RuleSets, targets \in TargetLists :
          run' = [run EXCEPT ![p] = [Idle EXCEPT !.at = "target", !.mode = mode, !.rules = rules,
                 !.targets = targets, !.left = targets, !.day = today, !.edits = edits,
                   !.writes = writes]]
    BY DEF Start
  <2>2. run'[p] = [Idle EXCEPT !.at = "target", !.mode = mode, !.rules = rules,
                 !.targets = targets, !.left = targets, !.day = today, !.edits = edits,
                   !.writes = writes]
    BY <1>1, <2>1
  <2> QED
    BY <2>2 DEF Idle
<1>6. ~SkipTarget(p)
  <2> SUFFICES ASSUME SkipTarget(p)
               PROVE  run'[p].at # "done"
    OBVIOUS
  <2>1. run[p].at = "target" /\ run'[p] = [run[p] EXCEPT !.left = Tail(@)]
    BY <1>1 DEF SkipTarget, HasTarget, At
  <2> QED
    BY <1>4, <2>1 DEF Run
<1>7. ~TargetFails(p)
  <2> SUFFICES ASSUME TargetFails(p)
               PROVE  run'[p].at # "done"
    OBVIOUS
  <2>1. run[p].at = "target" /\ run'[p] = [run[p] EXCEPT !.left = Tail(@), !.errors = TRUE]
    BY <1>1 DEF TargetFails, HasTarget, At
  <2> QED
    BY <1>4, <2>1 DEF Run
<1>8. ~Collect(p)
  BY <1>1, <1>4 DEF Collect, Run
<1>9. ~CheckDocument(p)
  <2> SUFFICES ASSUME CheckDocument(p)
               PROVE  run'[p].at # "done"
    OBVIOUS
  <2>1. \E docs, found : run[p].at = "document" /\ run'[p] = [run[p] EXCEPT !.docs = docs, !.found = found]
    BY <1>1, <1>4 DEF CheckDocument, At
  <2> QED
    BY <1>4, <2>1 DEF Run
<1>10. ~DocumentFails(p)
  BY <1>1, <1>4 DEF DocumentFails, Run, At
<1>11. ~EndTarget(p)
  BY <1>1, <1>4 DEF EndTarget, Run
<1>12. ~EndScan(p)
  <2> SUFFICES ASSUME EndScan(p)
               PROVE  run'[p].mode # "newonly"
    OBVIOUS
  <2>1. /\ run[p].mode \in {"scan", "audit"}
        /\ run'[p] = [run[p] EXCEPT !.at = "done", !.exit = ExitCode(run[p], run[p].all)]
    BY <1>1 DEF EndScan
  <2> QED
    BY <1>4, <2>1 DEF Run
<1>13. ~NoBaseline(p)
  BY <1>1, <1>4 DEF NoBaseline, Run
<1>14. ~RefuseToWrite(p)
  BY <1>1, <1>4 DEF RefuseToWrite, Run
<1>15. ~ReadIgnore(p)
  BY <1>1, <1>4 DEF ReadIgnore, Run
<1>16. ~Truncate(p)
  BY <1>1, <1>4 DEF Truncate, Run, At
<1>17. ~Write(p)
  <2> SUFFICES ASSUME Write(p)
               PROVE  run'[p].mode # "newonly"
    OBVIOUS
  <2>1. run[p].mode = "generate" /\ run'[p] = [run[p] EXCEPT !.at = "done", !.exit = 0]
    BY <1>1 DEF Write, At
  <2> QED
    BY <1>4, <2>1 DEF Run
<1>18. ~WriteFails(p)
  BY <1>1, <1>4 DEF WriteFails, Run, At
<1>19. ~Quit(p)
  BY <1>1, <1>4 DEF Quit, Run, Idle
<1> QED
  BY <1>2, <1>3, <1>5, <1>6, <1>7, <1>8, <1>9, <1>10, <1>11, <1>12, <1>13, <1>14, <1>15, <1>16, <1>17, <1>18, <1>19

LEMMA StepDiff ==
  ASSUME IInv, Remembered, DiffReportsNew, [Next]_vars
  PROVE  DiffReportsNew'
<1>1. IInv' /\ TypeOK /\ TypeOK' /\ run \in [Proc -> Run] /\ run' \in [Proc -> Run]
  BY StepIInv DEF IInv, TypeOK
<1>2. ASSUME NEW p \in Proc
      PROVE  DiffRight(run[p])'
  <2>1. PICK r \in Run : r = run[p] /\ RunInv(r) /\ DiffRight(r)
    BY <1>1, DiffOfRuns DEF IInv
  <2>2. CASE run'[p] = run[p]
    <3>1. DiffRight(r)'
      BY <1>1, <2>1, KeepDiff
    <3> QED
      BY <2>1, <2>2, <3>1
  <2>3. CASE run'[p] # run[p]
    <3> SUFFICES ASSUME run'[p].at = "done", run'[p].mode = "newonly", run'[p].exit # 2
                 PROVE  DiffRight(run[p])'
      BY DEF DiffRight, AfterBaseline
    <3>1. EndNewOnly(p)
      <4>1. run[p].at = "torn" => run[p].mode = "generate"
        BY <2>1 DEF RunInv, Progress
      <4> QED
        BY <1>1, <2>3, <4>1, WhoEnds
    <3>2. PICK new : /\ NewOnly(r.all, new)
                     /\ run' = [run EXCEPT ![p].at = "done", ![p].all = new, ![p].exit = ExitCode(run[p], new)]
      BY <2>1, <3>1 DEF EndNewOnly
    <3>3. PICK x \in Run : x = run'[p]
      BY <1>1
    <3>4. x = [r EXCEPT !.at = "done", !.all = new, !.exit = ExitCode(r, new)]
      BY <1>1, <2>1, <3>2, <3>3
    <3>5. r.at = "target" /\ r.left = << >> /\ r.mode = "newonly"
      BY <2>1, <3>1 DEF EndNewOnly, AllTargetsDone, At
    <3>6. DiffRight(x)
      BY <2>1, <3>2, <3>4, <3>5, EndRight
    <3>7. UNCHANGED <<present, shift, today, edits, ignore, writes, basis>>
      BY <3>1 DEF EndNewOnly, World
    <3>8. DiffRight(x)'
      <4>1. \A rule, file, line, day : Commented(rule, file, line, day)' <=> Commented(rule, file, line, day)
        BY <3>7 DEF Commented, Line
      <4>2. \A f : Exempt(f, x)' <=> Exempt(f, x)
        <5>1. \A rule, file : Crowded(rule, file)' <=> Crowded(rule, file)
          BY <3>7 DEF Crowded
        <5>2. \A rule, file, day : HiddenElsewhere(rule, file, day)' <=> HiddenElsewhere(rule, file, day)
          BY <3>7, <4>1 DEF HiddenElsewhere, Line, JobLine
        <5> QED
          BY <3>7, <5>1, <5>2 DEF Exempt, Expired, InForce
      <4>3. \A q, d : LeavesOut(q, d, x)' <=> LeavesOut(q, d, x)
        BY <3>7, <4>1 DEF LeavesOut, Line, JobLine
      <4>4. \A q : MissedBy(q, x)' <=> MissedBy(q, x)
        BY <3>7, <4>1 DEF MissedBy, Line
      <4>5. Quiet(x)' <=> Quiet(x)
        BY <3>7, <4>2 DEF Quiet
      <4>6. Thrown(x)' <=> Thrown(x)
        BY <3>7, <4>3, <4>4 DEF Thrown
      <4> QED
        BY <3>6, <3>7, <4>5, <4>6 DEF DiffRight, AfterBaseline
    <3> QED
      BY <3>3, <3>8
  <2> QED
    BY <2>2, <2>3
<1>3. DiffReportsNew' <=> (\A p \in Proc : DiffRight(run[p]))'
  BY DiffOfRuns, PTL
<1> QED
  BY <1>2, <1>3

(* --new-only after a baseline: nothing on what was there, something on    *)
(* each problem that was not (filterNewOnly, baseline.Snapshot.IsNew, with *)
(* what writeIgnoreFile wrote).                                            *)
THEOREM DiffIsNew == Spec => []DiffReportsNew
<1>1. Init => Remembered /\ DiffReportsNew
  BY DEF Init, Remembered, DiffReportsNew, NothingNewIsQuiet, NewOccurrenceReported, OverAfterBaseline
<1>2. IInv /\ Remembered /\ DiffReportsNew /\ [Next]_vars => Remembered' /\ DiffReportsNew'
  BY StepRemembered, StepDiff
<1> QED
  BY <1>1, <1>2, Inductive, PTL DEF Spec
=============================================================================
