------------------------- MODULE MergeContextProofs -------------------------
(***************************************************************************)
(* What holds of MergeContext for every set of files, every way to include *)
(* them, every content, and mappings of any depth, checked by TLAPS.       *)
(***************************************************************************)
EXTENDS MergeContext, SequenceFacts, SequenceTheorems, WellFoundedInduction, TLAPS

-----------------------------------------------------------------------------
(* Facts about paths and numbers.                                          *)

(* The paths above p are at the same top-level key, and a content that has *)
(* p has that key as well.                                                 *)
LEMMA SameTop ==
  ASSUME NEW p \in Path
  PROVE  /\ \A q \in Above(p) : Top(q) = Top(p)
         /\ p = <<Top(p)>> \/ <<Top(p)>> \in Above(p)
  <1>1. p \in Seq(STRING) /\ p # << >>
    BY MergeAssumption DEF MergeAssumption
  <1>2. Len(p) \in Nat \ {0} /\ \A i \in 1 .. Len(p) : p[i] \in STRING
    BY <1>1, EmptySeq, ElementOfSeq, LenProperties
  <1>3. ASSUME NEW n \in 1 .. Len(p) - 1
        PROVE  /\ SubSeq(p, 1, n) \in Seq(STRING)
               /\ Len(SubSeq(p, 1, n)) = n
               /\ SubSeq(p, 1, n)[1] = p[1]
    <2>1. 1 \in Int /\ n \in Int /\ \A i \in 1 .. n : p[i] \in STRING
      BY <1>2
    <2>2. /\ SubSeq(p, 1, n) \in Seq(STRING)
          /\ Len(SubSeq(p, 1, n)) = IF 1 <= n THEN n - 1 + 1 ELSE 0
          /\ \A i \in 1 .. n - 1 + 1 : SubSeq(p, 1, n)[i] = p[1 + i - 1]
      BY <2>1, SubSeqProperties
    <2> QED BY <2>2, <1>2
  <1>4. \A q \in Above(p) : Top(q) = Top(p)
    BY <1>3 DEF Above, Top
  <1>5. CASE Len(p) = 1
    <2>1. p = <<p[1]>>
      BY <1>1, <1>2, <1>5
    <2> QED BY <1>4, <2>1 DEF Top
  <1>6. CASE Len(p) > 1
    <2>1. 1 \in 1 .. Len(p) - 1
      BY <1>2, <1>6
    <2>2. SubSeq(p, 1, 1) \in Above(p)
      BY <2>1 DEF Above
    <2>3. SubSeq(p, 1, 1) = <<p[1]>>
      <3>1. SubSeq(p, 1, 1) \in Seq(STRING) /\ Len(SubSeq(p, 1, 1)) = 1 /\ SubSeq(p, 1, 1)[1] = p[1]
        BY <2>1, <1>3
      <3>2. <<p[1]>> \in Seq(STRING) /\ Len(<<p[1]>>) = 1 /\ <<p[1]>>[1] = p[1]
        BY <1>2
      <3>3. \A i \in 1 .. Len(SubSeq(p, 1, 1)) : SubSeq(p, 1, 1)[i] = <<p[1]>>[i]
        BY <3>1, <3>2
      <3> QED BY <3>1, <3>2, <3>3, SeqEqual
    <2> QED BY <1>4, <2>2, <2>3 DEF Top
  <1>7. Len(p) = 1 \/ Len(p) > 1
    BY <1>2
  <1> QED BY <1>5, <1>6, <1>7

(* Max is the maximum of a bounded set of numbers. *)
LEMMA MaxOfBounded ==
  ASSUME NEW b \in Nat, NEW S, S \subseteq 0 .. b, S # {}
  PROVE  Max(S) \in S /\ \A y \in S : Max(S) >= y
  <1> DEFINE Gap == { b - y : y \in S }
  <1>1. Gap \subseteq Nat /\ Gap # {}
    <2>1. \A y \in S : b - y \in Nat /\ b - y \in Gap
      OBVIOUS
    <2> QED BY <2>1
  <1>2. \E g \in Gap : \A h \in Gap : <<h, g>> \notin OpToRel(<, Nat)
    BY <1>1, NatLessThanWellFounded, WFMin
  <1>3. PICK g \in Gap : \A h \in Gap : <<h, g>> \notin OpToRel(<, Nat)
    BY <1>2
  <1>4. \A h \in Gap : ~(h < g)
    BY <1>1, <1>3 DEF OpToRel
  <1>5. PICK x \in S : g = b - x
    BY <1>3
  <1>6. \A y \in S : x >= y
    <2> TAKE y \in S
    <2>1. b - y \in Gap
      OBVIOUS
    <2>2. ~(b - y < b - x)
      BY <2>1, <1>4, <1>5
    <2>3. x \in Int /\ y \in Int
      OBVIOUS
    <2> QED BY <2>2, <2>3
  <1> QED BY <1>5, <1>6 DEF Max

-----------------------------------------------------------------------------
(* The merge of the first m files, for the pipeline x in the order o. *)

Mine(x, d, k) == ContextKey(k) \/ <<k>> \in DOMAIN x.content[d]

KeywordJobIn(x, d, k) ==
  /\ k \in Keyword
  /\ <<k>> \in DOMAIN x.content[d] /\ x.content[d][<<k>>].mapping
  /\ <<k, Script>> \in DOMAIN x.content[d]
SharedIn(x, o, k) == k # Include /\ \A n \in 1 .. Len(o) : ~KeywordJobIn(x, o[n], k)

MappingsAbove(t, p) == \A q \in Above(p) \cap DOMAIN t : t[q].mapping

WinnerTo(x, o, m, p) ==
  { n \in 1 .. m :
      /\ p \in DOMAIN x.content[o[n]]
      /\ \A k \in n + 1 .. m : /\ p \notin DOMAIN x.content[o[k]]
                               /\ MappingsAbove(x.content[o[k]], p) }

(* The files of r lead from the entry e back to what the n-th file has for *)
(* p: its lines lie between the base of the file and that of the next.     *)
Traceable(x, o, r, e, n, p) ==
  LET c == x.content[o[n]][p]
  IN  c \in Entry /\ \E f \in 1 .. Len(r.files) :
        /\ r.files[f].file = o[n]
        /\ e.line = ContextLine + r.files[f].base + c.line
        /\ r.files[f].base + End(c) < Room
        /\ r.files[f].base + End(c) <= r.limit
        /\ \A g \in f + 1 .. Len(r.files) : r.files[f].base + End(c) <= r.files[g].base

(* e is what the file d has for p when the n-th file sets it. *)
FromFile(x, o, r, e, d, n, p) ==
  /\ e.value = x.content[o[n]][p].value
  /\ e.mapping = x.content[o[n]][p].mapping
  /\ e.breaks = x.content[o[n]][p].breaks
  /\ o[n] = d => e.line = x.content[o[n]][p].line
  /\ o[n] # d => IsContextLine(e.line)
  /\ o[n] # d /\ e.line # ContextLine => Traceable(x, o, r, e, n, p)

MergedAt(x, o, r, t, d, m, p) ==
  /\ p \in DOMAIN t <=> Mine(x, d, Top(p)) /\ WinnerTo(x, o, m, p) # {}
  /\ Mine(x, d, Top(p)) => \A n \in WinnerTo(x, o, m, p) : FromFile(x, o, r, t[p], d, n, p)

Merged(x, o, r, t, d, m) ==
  \A p \in Path : SharedIn(x, o, Top(p)) => MergedAt(x, o, r, t, d, m, p)

LEMMA NothingMerged ==
  ASSUME NEW x, NEW o, NEW r, NEW t, NEW d, DOMAIN t = {}
  PROVE  Merged(x, o, r, t, d, 0)
BY DEF Merged, MergedAt, WinnerTo

(* With one file more, the winner is that file, or the one before unless   *)
(* the file replaces a mapping above.                                      *)
LEMMA WinnerStep ==
  ASSUME NEW x, NEW o, NEW m \in Nat, NEW p
  PROVE  /\ p \in DOMAIN x.content[o[m + 1]] => WinnerTo(x, o, m + 1, p) = {m + 1}
         /\ p \notin DOMAIN x.content[o[m + 1]] =>
              WinnerTo(x, o, m + 1, p)
                = IF MappingsAbove(x.content[o[m + 1]], p) THEN WinnerTo(x, o, m, p) ELSE {}
  <1>1. CASE p \in DOMAIN x.content[o[m + 1]]
    BY <1>1 DEF WinnerTo
  <1>2. CASE p \notin DOMAIN x.content[o[m + 1]]
    <2>1. \A n \in 1 .. m : m + 1 \in n + 1 .. m + 1
      OBVIOUS
    <2>2. \A n \in 1 .. m : n + 1 .. m + 1 = (n + 1 .. m) \cup {m + 1}
      OBVIOUS
    <2>3. 1 .. m + 1 = (1 .. m) \cup {m + 1}
      OBVIOUS
    <2> QED BY <1>2, <2>1, <2>2, <2>3 DEF WinnerTo
  <1> QED BY <1>1, <1>2

(* Merging what the next file gives keeps Merged. *)
LEMMA OverMerges ==
  ASSUME NEW x, IsPipeline(x), NEW o \in Seq(Doc), NEW r, NEW m \in Nat, m + 1 <= Len(o),
         NEW d \in Doc, NEW low, NEW high,
         Merged(x, o, r, low, d, m),
         DOMAIN high \subseteq DOMAIN x.content[o[m + 1]],
         \A p \in Path : SharedIn(x, o, Top(p)) =>
            (p \in DOMAIN high <=> p \in DOMAIN x.content[o[m + 1]] /\ Mine(x, d, Top(p))),
         \A p \in DOMAIN high : FromFile(x, o, r, high[p], d, m + 1, p)
  PROVE  Merged(x, o, r, Over(low, high), d, m + 1)
  <1> DEFINE t == Over(low, high)
             c == x.content[o[m + 1]]
  <1> SUFFICES ASSUME NEW p \in Path, SharedIn(x, o, Top(p))
               PROVE  MergedAt(x, o, r, t, d, m + 1, p)
    BY DEF Merged
  <1>1. DOMAIN t = DOMAIN high \cup Kept(low, high)
    BY DEF Over
  <1>2. MergedAt(x, o, r, low, d, m, p)
    BY DEF Merged
  <1>3. o[m + 1] \in Doc
    BY ElementOfSeq
  <1>4. DOMAIN c \subseteq Path
    BY <1>3 DEF IsPipeline, IsTree
  <1>5. \A q \in Above(p) \cap DOMAIN c : Mine(x, d, Top(p)) => q \in DOMAIN high
    BY <1>4, SameTop
  <1>6. CASE p \in DOMAIN c /\ Mine(x, d, Top(p))
    <2>1. p \in DOMAIN high /\ WinnerTo(x, o, m + 1, p) = {m + 1}
      BY <1>6, WinnerStep
    <2>2. p \in DOMAIN t /\ t[p] = high[p]
      BY <2>1, <1>1 DEF Over
    <2> QED BY <2>1, <2>2, <1>6 DEF MergedAt
  <1>7. CASE p \notin DOMAIN c /\ Mine(x, d, Top(p))
    <2>1. p \notin DOMAIN high
      BY <1>7
    <2>2. p \in DOMAIN t <=> p \in Kept(low, high)
      BY <1>1, <2>1
    <2>3. \A q \in DOMAIN high : high[q].mapping = c[q].mapping
      BY DEF FromFile
    <2>4. (\A q \in Above(p) \cap DOMAIN high : high[q].mapping) <=> MappingsAbove(c, p)
      BY <2>3, <1>5, <1>7 DEF MappingsAbove
    <2>5. p \in DOMAIN t <=> p \in DOMAIN low /\ MappingsAbove(c, p)
      BY <2>2, <2>4 DEF Kept
    <2>6. p \in DOMAIN t => t[p] = low[p]
      BY <2>1, <1>1 DEF Over
    <2>7. WinnerTo(x, o, m + 1, p) = IF MappingsAbove(c, p) THEN WinnerTo(x, o, m, p) ELSE {}
      BY <1>7, WinnerStep
    <2>8. CASE MappingsAbove(c, p)
      BY <2>5, <2>6, <2>7, <2>8, <1>2, <1>7 DEF MergedAt
    <2>9. CASE ~MappingsAbove(c, p)
      BY <2>5, <2>7, <2>9, <1>7 DEF MergedAt
    <2> QED BY <2>8, <2>9
  <1>8. CASE ~Mine(x, d, Top(p))
    <2>1. p \notin DOMAIN low /\ p \notin DOMAIN high
      BY <1>2, <1>8 DEF MergedAt
    <2> QED BY <2>1, <1>1, <1>8 DEF MergedAt, Kept
  <1> QED BY <1>6, <1>7, <1>8

(* A file more after the lines given away so far, or lines more, lead back *)
(* as before.                                                              *)
LEMMA MoreLines ==
  ASSUME NEW x, NEW o, NEW t, NEW d, NEW m,
         NEW fs \in Seq([file : Doc, base : Nat]), NEW limit \in Nat, NEW g \in Doc, NEW more \in Nat,
         Merged(x, o, [files |-> fs, limit |-> limit], t, d, m)
  PROVE  Merged(x, o, [files |-> Append(fs, [file |-> g, base |-> limit]), limit |-> limit + more],
                t, d, m)
  <1> DEFINE old == [files |-> fs, limit |-> limit]
             gs == Append(fs, [file |-> g, base |-> limit])
             new == [files |-> gs, limit |-> limit + more]
  <1>1. /\ Len(fs) \in Nat /\ Len(gs) = Len(fs) + 1
        /\ \A f \in 1 .. Len(fs) : gs[f] = fs[f]
        /\ gs[Len(fs) + 1].base = limit
    <2>1. [file |-> g, base |-> limit] \in [file : Doc, base : Nat]
      OBVIOUS
    <2> QED BY <2>1, LenProperties
  <1>2. ASSUME NEW e, NEW n, NEW p, Traceable(x, o, old, e, n, p)
        PROVE  Traceable(x, o, new, e, n, p)
    <2> DEFINE c == x.content[o[n]][p]
    <2>5. c \in Entry
      BY <1>2 DEF Traceable
    <2>1. PICK f \in 1 .. Len(fs) :
            /\ fs[f].file = o[n]
            /\ e.line = ContextLine + fs[f].base + c.line
            /\ fs[f].base + End(c) < Room
            /\ fs[f].base + End(c) <= limit
            /\ \A h \in f + 1 .. Len(fs) : fs[f].base + End(c) <= fs[h].base
      BY <1>2 DEF Traceable
    <2>6. End(c) \in Int /\ fs[f].base \in Nat
      <3>1. fs[f] \in [file : Doc, base : Nat]
        BY ElementOfSeq
      <3>2. fs[f].base \in Nat
        BY <3>1
      <3> HIDE DEF c
      <3>3. End(c) \in Int
        BY <2>5 DEF Entry, End
      <3> QED BY <3>2, <3>3
    <2> HIDE DEF gs, c
    <2>2. f \in 1 .. Len(gs) /\ gs[f] = fs[f]
      BY <1>1
    <2>3. ASSUME NEW h \in f + 1 .. Len(gs) PROVE fs[f].base + End(c) <= gs[h].base
      <3>1. CASE h = Len(fs) + 1
        BY <3>1, <1>1, <2>1
      <3>2. CASE h # Len(fs) + 1
        <4> DEFINE k == Len(fs)
        <4>2. k \in Nat /\ f \in 1 .. k /\ h \in f + 1 .. k + 1 /\ h # k + 1
          BY <3>2, <1>1
        <4> HIDE DEF k
        <4>3. h \in f + 1 .. k /\ h \in 1 .. k
          BY <4>2
        <4>1. h \in f + 1 .. Len(fs) /\ h \in 1 .. Len(fs)
          BY <4>3 DEF k
        <4> QED BY <4>1, <1>1, <2>1
      <3> QED BY <3>1, <3>2
    <2>4. fs[f].base + End(c) <= limit + more
      BY <2>1, <2>6
    <2>7. new.files = gs /\ new.limit = limit + more
      OBVIOUS
    <2> HIDE DEF new
    <2> QED BY <2>1, <2>2, <2>3, <2>4, <2>5, <2>7 DEF Traceable, c
  <1> HIDE DEF old, new
  <1>3. \A e, n, p : FromFile(x, o, old, e, d, n, p) => FromFile(x, o, new, e, d, n, p)
    BY <1>2 DEF FromFile
  <1>4. Merged(x, o, old, t, d, m)
    BY DEF old
  <1>5. Merged(x, o, new, t, d, m)
    BY <1>3, <1>4 DEF Merged, MergedAt
  <1> QED BY <1>5 DEF new

(* All lines that were given away are within the room. *)
LEMMA LinesInRoom ==
  ASSUME NEW x, NEW o, NEW t, NEW d, NEW m,
         NEW fs \in Seq([file : Doc, base : Nat]), NEW limit,
         Merged(x, o, [files |-> fs, limit |-> limit], t, d, m)
  PROVE  Merged(x, o, [files |-> fs, limit |-> Room], t, d, m)
  <1> DEFINE old == [files |-> fs, limit |-> limit]
             new == [files |-> fs, limit |-> Room]
  <1>1. ASSUME NEW e, NEW n, NEW p, Traceable(x, o, old, e, n, p)
        PROVE  Traceable(x, o, new, e, n, p)
    <2>1. ASSUME NEW f \in 1 .. Len(fs), NEW c \in Entry, fs[f].base + End(c) < Room
          PROVE  fs[f].base + End(c) <= Room
      <3>1. fs[f] \in [file : Doc, base : Nat]
        BY ElementOfSeq
      <3>2. c.line \in Int /\ c.breaks \in Nat
        BY DEF Entry
      <3>3. End(c) \in Int /\ fs[f].base \in Nat /\ Room \in Nat
        BY <3>1, <3>2, MergeAssumption DEF End, MergeAssumption
      <3> QED BY <2>1, <3>3
    <2> QED BY <1>1, <2>1 DEF Traceable
  <1> HIDE DEF old, new
  <1>2. \A e, n, p : FromFile(x, o, old, e, d, n, p) => FromFile(x, o, new, e, d, n, p)
    BY <1>1 DEF FromFile
  <1>3. Merged(x, o, old, t, d, m)
    BY DEF old
  <1>4. Merged(x, o, new, t, d, m)
    BY <1>2, <1>3 DEF Merged, MergedAt
  <1> QED BY <1>4 DEF new

-----------------------------------------------------------------------------
(* The inductive invariant. *)

(* No file is merged before the walk is over. *)
Waiting ==
  stack # << >> => at = [doc |-> 1, file |-> 1] /\ merge = Nothing

(* The lines that are given away so far for the current file, and those of *)
(* a file that is done.                                                    *)
Lines == [files |-> merge.files, limit |-> merge.base + merge.last]
LinesOf(d) == [files |-> out[d].files, limit |-> Room]

(* What is merged so far for the current file, and for those before. *)
SoFar ==
  /\ at.doc <= Len(order) =>
       Merged(pipeline, order, Lines, merge.entries, order[at.doc], at.file - 1)
  /\ \A d \in DOMAIN out :
       Merged(pipeline, order, LinesOf(d), out[d].entries, d, Len(order))

(* Without anything from another file the current file is still as it was. *)
AsRead ==
  at.doc <= Len(order) /\ ~merge.foreign =>
    merge.entries = IF at.file > at.doc THEN Content(order[at.doc]) ELSE << >>

IInv == TypeOK /\ Waiting /\ SoFar /\ AsRead

(* The types of what a step reads. *)
LEMMA Typed ==
  ASSUME TypeOK
  PROVE  /\ Len(order) \in Nat /\ DOMAIN order = 1 .. Len(order)
         /\ \A n \in 1 .. Len(order) : order[n] \in Doc
         /\ \A m, n \in 1 .. Len(order) : order[m] = order[n] => m = n
         /\ \A d \in Doc : IsTree(Content(d)) /\ Len(Includes(d)) \in Nat
         /\ \A d \in Doc : \A n \in 1 .. Len(Includes(d)) : Includes(d)[n] \in Doc
  <1>1. order \in Seq(Doc) /\ IsInjective(order)
    BY DEF TypeOK
  <1>2. Len(order) \in Nat /\ DOMAIN order = 1 .. Len(order)
    BY <1>1, LenProperties
  <1>3. \A n \in 1 .. Len(order) : order[n] \in Doc
    BY <1>1, ElementOfSeq
  <1>4. \A m, n \in 1 .. Len(order) : order[m] = order[n] => m = n
    BY <1>1, <1>2 DEF IsInjective
  <1>5. \A d \in Doc : IsTree(Content(d)) /\ Includes(d) \in Seq(Doc)
    BY DEF TypeOK, IsPipeline, Content, Includes
  <1>6. \A d \in Doc : Len(Includes(d)) \in Nat
    BY <1>5, LenProperties
  <1>7. \A d \in Doc : \A n \in 1 .. Len(Includes(d)) : Includes(d)[n] \in Doc
    BY <1>5, ElementOfSeq
  <1> QED BY <1>2, <1>3, <1>4, <1>5, <1>6, <1>7

LEMMA InitIInv == Init => IInv
  <1> SUFFICES ASSUME Init PROVE IInv
    OBVIOUS
  <1>1. IsPipeline(pipeline) /\ Root \in Doc
    BY MergeAssumption DEF Init, MergeAssumption
  <1>2. Len(Includes(Root)) \in Nat
    BY <1>1, LenProperties DEF IsPipeline, Includes
  <1>3. IsTree(<< >>)
    BY DEF IsTree
  <1>4. merge = Nothing /\ at = [doc |-> 1, file |-> 1] /\ out = << >> /\ order = <<Root>> /\ seen = {Root}
    BY DEF Init
  <1>5. TypeOK
    <2>1. /\ stack \in Seq([doc : Doc, left : Nat])
          /\ \A n \in DOMAIN stack : stack[n].left <= Len(Includes(stack[n].doc))
      BY <1>1, <1>2 DEF Init
    <2>2. order \in Seq(Doc) /\ IsInjective(order) /\ ToSet(order) = seen /\ seen \subseteq Doc
      BY <1>1, <1>4 DEF IsInjective, ToSet
    <2>3. at \in [doc : 1 .. Len(order) + 1, file : 1 .. Len(order) + 1]
      BY <1>4
    <2>4. /\ IsTree(merge.entries)
          /\ merge.files \in Seq([file : Doc, base : Nat])
          /\ merge.base \in Nat /\ merge.last \in 0 .. Room /\ merge.foreign \in BOOLEAN
      BY <1>3, <1>4, MergeAssumption DEF Nothing, MergeAssumption
    <2>5. /\ DOMAIN out = { order[n] : n \in 1 .. at.doc - 1 }
          /\ \A d \in DOMAIN out :
               IsTree(out[d].entries) /\ out[d].files \in Seq([file : Doc, base : Nat])
      BY <1>4
    <2> QED BY <1>1, <2>1, <2>2, <2>3, <2>4, <2>5 DEF TypeOK
  <1>6. Waiting
    BY <1>4 DEF Waiting
  <1>7. SoFar
    <2>1. DOMAIN out = {} /\ DOMAIN merge.entries = {} /\ at.file - 1 = 0
      BY <1>4 DEF Nothing
    <2> QED BY <2>1, NothingMerged DEF SoFar
  <1>8. AsRead
    BY <1>4 DEF AsRead, Nothing
  <1> QED BY <1>5, <1>6, <1>7, <1>8 DEF IInv

LEMMA StackTyped ==
  ASSUME TypeOK, stack # << >>
  PROVE  /\ Caller \in [doc : Doc, left : Nat]
         /\ Caller.left <= Len(Includes(Caller.doc))
         /\ Front(stack) \in Seq([doc : Doc, left : Nat])
         /\ \A n \in DOMAIN Front(stack) :
              Front(stack)[n].left <= Len(Includes(Front(stack)[n].doc))
  <1> DEFINE Frame == [doc : Doc, left : Nat]
  <1>1. stack \in Seq(Frame) /\ \A n \in DOMAIN stack : stack[n].left <= Len(Includes(stack[n].doc))
    BY DEF TypeOK
  <1>2. Len(stack) \in Nat \ {0} /\ DOMAIN stack = 1 .. Len(stack)
    BY <1>1, EmptySeq, LenProperties
  <1>3. Caller \in Frame /\ Caller.left <= Len(Includes(Caller.doc))
    <2>1. Len(stack) \in 1 .. Len(stack)
      BY <1>2
    <2> QED BY <2>1, <1>1, <1>2, ElementOfSeq DEF Caller, Last
  <1>4. /\ Front(stack) \in Seq(Frame)
        /\ Len(Front(stack)) = Len(stack) - 1
        /\ \A n \in 1 .. Len(stack) - 1 : Front(stack)[n] = stack[n]
    <2>1. 1 \in Int /\ Len(stack) - 1 \in Int /\ \A n \in 1 .. Len(stack) - 1 : stack[n] \in Frame
      <3>1. \A n \in 1 .. Len(stack) : stack[n] \in Frame
        BY <1>1, ElementOfSeq
      <3> HIDE DEF Frame
      <3> QED BY <3>1, <1>2
    <2>2. /\ SubSeq(stack, 1, Len(stack) - 1) \in Seq(Frame)
          /\ Len(SubSeq(stack, 1, Len(stack) - 1))
               = IF 1 <= Len(stack) - 1 THEN Len(stack) - 1 - 1 + 1 ELSE 0
          /\ \A n \in 1 .. Len(stack) - 1 - 1 + 1 :
               SubSeq(stack, 1, Len(stack) - 1)[n] = stack[1 + n - 1]
      BY <2>1, SubSeqProperties
    <2> QED BY <2>2, <1>2 DEF Front
  <1>5. DOMAIN Front(stack) = 1 .. Len(stack) - 1
    BY <1>4, LenProperties
  <1>6. ASSUME NEW n \in DOMAIN Front(stack)
        PROVE  Front(stack)[n].left <= Len(Includes(Front(stack)[n].doc))
    <2>1. n \in DOMAIN stack /\ Front(stack)[n] = stack[n]
      BY <1>2, <1>4, <1>5
    <2> QED BY <2>1, <1>1
  <1> QED BY <1>3, <1>4, <1>6

(* What Walk does to the stack and the order. *)
LEMMA WalkTyped ==
  ASSUME TypeOK, Walk
  PROVE  /\ stack' \in Seq([doc : Doc, left : Nat])
         /\ \A n \in DOMAIN stack' : stack'[n].left <= Len(Includes(stack'[n].doc))
         /\ seen' \subseteq Doc
         /\ order' \in Seq(Doc) /\ IsInjective(order') /\ ToSet(order') = seen'
         /\ Len(order') >= Len(order)
  <1> DEFINE Frame == [doc : Doc, left : Nat]
             Fine(s) == /\ s \in Seq(Frame)
                        /\ \A n \in DOMAIN s : s[n].left <= Len(Includes(s[n].doc))
  <1>1. stack # << >> /\ Caller.left > 0
    BY DEF Walk
  <1>2. /\ Caller \in Frame /\ Caller.left <= Len(Includes(Caller.doc)) /\ Fine(Front(stack))
    BY <1>1, StackTyped
  <1>3. NextInclude \in Doc
    <2>1. Caller.left \in 1 .. Len(Includes(Caller.doc)) /\ Caller.doc \in Doc
      BY <1>1, <1>2, Typed
    <2> QED BY <2>1, Typed DEF NextInclude
  <1>4. ASSUME NEW s, Fine(s), NEW f \in Frame, f.left <= Len(Includes(f.doc))
        PROVE  Fine(s \o <<f>>) /\ Fine(Append(s, f))
    <2>1. s \in Seq(Frame) /\ Len(s) \in Nat /\ DOMAIN s = 1 .. Len(s)
      BY <1>4, LenProperties
    <2>2. /\ Append(s, f) \in Seq(Frame) /\ DOMAIN Append(s, f) = 1 .. Len(s) + 1
          /\ \A n \in 1 .. Len(s) + 1 : Append(s, f)[n] = IF n <= Len(s) THEN s[n] ELSE f
      BY <2>1
    <2>3. s \o <<f>> = Append(s, f)
      BY <2>1
    <2> QED BY <2>1, <2>2, <2>3, <1>4
  <1>5. Fine(Continue)
    <2>1. [Caller EXCEPT !.left = @ - 1] \in Frame
      BY <1>1, <1>2
    <2>2. /\ [Caller EXCEPT !.left = @ - 1].left <= Len(Includes([Caller EXCEPT !.left = @ - 1].doc))
      BY <1>1, <1>2, Typed
    <2> QED BY <2>1, <2>2, <1>2, <1>4 DEF Continue
  <1>6. order \in Seq(Doc) /\ IsInjective(order) /\ ToSet(order) = seen /\ seen \subseteq Doc
    BY DEF TypeOK
  <1>7. CASE Visited(NextInclude)
    BY <1>7, <1>5, <1>6, Typed DEF Walk
  <1>8. CASE ~Visited(NextInclude)
    <2>1. /\ stack' = Append(Continue, [doc |-> NextInclude, left |-> Len(Includes(NextInclude))])
          /\ seen' = seen \cup {NextInclude}
          /\ order' = <<NextInclude>> \o order
      BY <1>8 DEF Walk
    <2>2. [doc |-> NextInclude, left |-> Len(Includes(NextInclude))] \in Frame
      BY <1>3, Typed
    <2>3. Fine(stack')
      BY <2>1, <2>2, <1>4, <1>5
    <2>4. NextInclude \notin ToSet(order)
      BY <1>6, <1>8 DEF Visited
    <2>5. /\ order' \in Seq(Doc) /\ Len(order') = Len(order) + 1
          /\ \A n \in 1 .. Len(order) + 1 :
               order'[n] = IF n = 1 THEN NextInclude ELSE order[n - 1]
      BY <1>3, <1>6, <2>1, Typed
    <2>6. DOMAIN order' = 1 .. Len(order) + 1
      BY <2>5, LenProperties
    <2>7. \A n \in 1 .. Len(order) : order[n] # NextInclude
      BY <2>4, Typed DEF ToSet
    <2>8. IsInjective(order')
      <3>1. ASSUME NEW m \in 1 .. Len(order) + 1, NEW n \in 1 .. Len(order) + 1,
                   order'[m] = order'[n]
            PROVE  m = n
        <4>1. m # 1 => m - 1 \in 1 .. Len(order)
          BY Typed
        <4>2. n # 1 => n - 1 \in 1 .. Len(order)
          BY Typed
        <4>3. m # 1 /\ n # 1 => m - 1 = n - 1
          BY <4>1, <4>2, <3>1, <2>5, Typed
        <4> QED BY <4>1, <4>2, <4>3, <3>1, <2>5, <2>7
      <3> QED BY <3>1, <2>6 DEF IsInjective
    <2>9. ToSet(order') = seen'
      <3>1. seen = { order[n] : n \in 1 .. Len(order) }
        BY <1>6, Typed DEF ToSet
      <3>2. ASSUME NEW n \in 1 .. Len(order) PROVE order[n] \in ToSet(order')
        <4>1. n + 1 \in 1 .. Len(order) + 1 /\ order'[n + 1] = order[n]
          BY <2>5, Typed
        <4> QED BY <4>1, <2>6 DEF ToSet
      <3>3. NextInclude \in ToSet(order')
        <4>1. 1 \in 1 .. Len(order) + 1
          BY Typed
        <4> QED BY <4>1, <2>5, <2>6 DEF ToSet
      <3>4. ASSUME NEW n \in 1 .. Len(order) + 1 PROVE order'[n] \in seen'
        <4>1. CASE n = 1
          BY <4>1, <2>1, <2>5
        <4>2. CASE n # 1
          <5>1. n - 1 \in 1 .. Len(order)
            BY <4>2, Typed
          <5> QED BY <4>2, <5>1, <2>1, <2>5, <3>1
        <4> QED BY <4>1, <4>2
      <3> QED BY <2>1, <2>6, <3>1, <3>2, <3>3, <3>4 DEF ToSet
    <2>10. seen' \subseteq Doc /\ Len(order') >= Len(order)
      BY <1>3, <1>6, <2>1, <2>5, Typed
    <2> QED BY <2>3, <2>5, <2>8, <2>9, <2>10
  <1> QED BY <1>7, <1>8

LEMMA WalkIInv == IInv /\ Walk => IInv'
  <1> SUFFICES ASSUME IInv, Walk PROVE IInv'
    OBVIOUS
  <1>1. TypeOK /\ at = [doc |-> 1, file |-> 1] /\ merge = Nothing
    BY DEF IInv, Waiting, Walk
  <1>2. pipeline' = pipeline /\ at' = at /\ merge' = merge /\ out' = out
    BY DEF Walk
  <1>3. DOMAIN out = {}
    BY <1>1 DEF TypeOK
  <1>4. TypeOK'
    <2>1. Len(order') \in Nat
      BY <1>1, WalkTyped, LenProperties
    <2>2. at' \in [doc : 1 .. Len(order') + 1, file : 1 .. Len(order') + 1]
      BY <1>1, <1>2, <2>1
    <2>3. DOMAIN out' = { order'[n] : n \in 1 .. at'.doc - 1 }
      BY <1>1, <1>2, <1>3
    <2> QED BY <1>1, <1>2, <2>2, <2>3, WalkTyped DEF TypeOK, Includes
  <1>5. Waiting'
    BY <1>1, <1>2 DEF Waiting, Nothing
  <1>6. SoFar'
    <2>1. DOMAIN merge.entries = {} /\ at.file - 1 = 0
      BY <1>1 DEF Nothing
    <2> QED BY <1>2, <1>3, <2>1, NothingMerged DEF SoFar
  <1>7. AsRead'
    BY <1>1, <1>2 DEF AsRead, Nothing
  <1> QED BY <1>4, <1>5, <1>6, <1>7 DEF IInv

LEMMA ReturnIInv == IInv /\ Return => IInv'
  <1> SUFFICES ASSUME IInv, Return PROVE IInv'
    OBVIOUS
  <1>1. TypeOK /\ stack # << >> /\ stack' = Front(stack)
    BY DEF IInv, Return
  <1>2. UNCHANGED <<pipeline, seen, order, at, merge, out>>
    BY DEF Return
  <1>3. TypeOK'
    BY <1>1, <1>2, StackTyped DEF TypeOK, Includes
  <1>4. Waiting'
    BY <1>1, <1>2 DEF IInv, Waiting, Nothing
  <1>5. SoFar' /\ AsRead'
    BY <1>2 DEF IInv, SoFar, AsRead, Content, Lines, LinesOf
  <1> QED BY <1>3, <1>4, <1>5 DEF IInv

LEMMA OverTree ==
  ASSUME NEW low, NEW high, IsTree(low), IsTree(high)
  PROVE  IsTree(Over(low, high))
  <1>1. DOMAIN Over(low, high) = DOMAIN high \cup Kept(low, high)
    BY DEF Over
  <1>2. Kept(low, high) \subseteq DOMAIN low
    BY DEF Kept
  <1>3. \A p \in DOMAIN Over(low, high) :
           Over(low, high)[p] = IF p \in DOMAIN high THEN high[p] ELSE low[p]
    BY DEF Over
  <1>4. Over(low, high) = [p \in DOMAIN Over(low, high) |-> Over(low, high)[p]]
    BY DEF Over
  <1> QED BY <1>1, <1>2, <1>3, <1>4 DEF IsTree

(* The step that merges a file reads typed values. *)
LEMMA Places ==
  ASSUME TypeOK, Merging, at.file <= Len(order)
  PROVE  /\ at.doc \in 1 .. Len(order) /\ at.file \in 1 .. Len(order)
         /\ Current \in Doc /\ File \in Doc
         /\ IsTree(Content(File)) /\ IsTree(Content(Current))
         /\ Own <=> at.file = at.doc
  <1>1. at \in [doc : 1 .. Len(order) + 1, file : 1 .. Len(order) + 1]
    BY DEF TypeOK
  <1>2. at.doc \in 1 .. Len(order) /\ at.file \in 1 .. Len(order)
    BY <1>1, Typed DEF Merging
  <1> QED BY <1>2, Typed DEF Current, File, Own

(* Of a shared key, the file gives what it has if doc is to have the key. *)
LEMMA TakesRight ==
  ASSUME TypeOK, Merging, at.file <= Len(order),
         NEW p \in Path, SharedIn(pipeline, order, Top(p))
  PROVE  p \in Taken <=> p \in DOMAIN Content(File) /\ Mine(pipeline, Current, Top(p))
  <1>1. Top(p) # Include /\ ~IsKeywordJob(File, Top(p))
    BY Places DEF SharedIn, KeywordJobIn, IsKeywordJob, Content, File
  <1>2. Mine(pipeline, Current, Top(p))
          <=> ContextKey(Top(p)) \/ <<Top(p)>> \in DOMAIN Content(Current)
    BY DEF Mine, Content
  <1>3. CASE Own
    <2>1. p \in DOMAIN Content(File) => <<Top(p)>> \in DOMAIN Content(Current)
      <3>1. IsPipeline(pipeline) /\ Current \in Doc
        BY Places DEF TypeOK
      <3>2. p \in DOMAIN Content(Current) => \A q \in Above(p) : q \in DOMAIN Content(Current)
        BY <3>1 DEF IsPipeline, Content
      <3> QED BY <1>3, <3>2, SameTop DEF Own
    <2> QED BY <1>2, <1>3, <2>1 DEF Taken, Takes
  <1>4. CASE ~Own
    BY <1>1, <1>2, <1>4 DEF Taken, Takes, ContextKey
  <1> QED BY <1>3, <1>4

(* Base and LastLine are within the room, and LastLine covers every entry  *)
(* that fits.                                                              *)
LEMMA BaseTyped ==
  ASSUME TypeOK, Merging, at.file <= Len(order)
  PROVE  /\ Base \in Nat /\ LastLine \in 0 .. Room
         /\ \A p \in Taken :
              ~Own /\ Fits(Base, Content(File)[p]) => End(Content(File)[p]) <= LastLine
  <1>1. merge.base \in Nat /\ merge.last \in 0 .. Room /\ Room \in Nat
    BY MergeAssumption DEF TypeOK, MergeAssumption
  <1>2. Base \in Nat
    BY <1>1 DEF Base
  <1>3. CASE Own
    <2>1. LastLine = merge.last
      BY <1>3 DEF LastLine
    <2> QED BY <1>1, <1>2, <1>3, <2>1
  <1>4. CASE ~Own
    <2> DEFINE Ends == { End(Content(File)[p]) : p \in {r \in Taken : Fits(Base, Content(File)[r])} }
    <2>1. ASSUME NEW p \in Taken, Fits(Base, Content(File)[p])
          PROVE  End(Content(File)[p]) \in 0 .. Room
      <3>1. Content(File)[p] \in Entry
        BY Places DEF Taken, IsTree
      <3>2. Content(File)[p].line \in Int /\ Content(File)[p].breaks \in Nat
        BY <3>1 DEF Entry
      <3>3. Content(File)[p].line > 0 /\ Base + End(Content(File)[p]) < Room
        BY <2>1 DEF Fits
      <3> QED BY SMTT(30), <3>2, <3>3, <1>1, <1>2 DEF End
    <2>2. Ends \subseteq 0 .. Room
      BY <2>1
    <2>3. {0} \cup Ends \subseteq 0 .. Room /\ {0} \cup Ends # {}
      BY <2>2, <1>1
    <2>4. Max({0} \cup Ends) \in {0} \cup Ends /\ \A y \in {0} \cup Ends : Max({0} \cup Ends) >= y
      <3> HIDE DEF Ends
      <3> QED BY <2>3, <1>1, MaxOfBounded
    <2>5. LastLine = Max({0} \cup Ends)
      BY <1>4 DEF LastLine
    <2>6. \A p \in Taken : Fits(Base, Content(File)[p]) => End(Content(File)[p]) \in Ends
      OBVIOUS
    <2>7. LastLine \in 0 .. Room
      <3> HIDE DEF Ends
      <3> QED BY <2>3, <2>4, <2>5
    <2>8. ASSUME NEW p \in Taken, Fits(Base, Content(File)[p])
          PROVE  End(Content(File)[p]) <= LastLine
      <3> HIDE DEF Ends
      <3>1. End(Content(File)[p]) \in Ends /\ End(Content(File)[p]) \in 0 .. Room
        BY <2>1, <2>6, <2>8
      <3> QED BY <3>1, <2>4, <2>5, <2>7
    <2> QED BY <2>7, <2>8, <1>2
  <1> QED BY <1>3, <1>4

(* The lines that are given away after this step. *)
NewFiles == IF Own THEN merge.files ELSE Append(merge.files, [file |-> File, base |-> Base])
NewLines == [files |-> NewFiles, limit |-> Base + LastLine]

(* A copied entry is what its file has, on its own line or on a context    *)
(* line from which the files lead back.                                    *)
LEMMA CopyRight ==
  ASSUME TypeOK, Merging, at.file <= Len(order)
  PROVE  /\ IsTree(Copy(Base))
         /\ DOMAIN Copy(Base) = Taken /\ Taken \subseteq DOMAIN Content(File)
         /\ \A p \in Taken : FromFile(pipeline, order, NewLines, Copy(Base)[p], Current, at.file, p)
  <1>1. Taken \subseteq DOMAIN Content(File)
    BY DEF Taken
  <1>2. DOMAIN Copy(Base) = Taken /\ \A p \in Taken : Copy(Base)[p] = Node(Base, Content(File)[p])
    BY DEF Copy
  <1>3. \A p \in Taken : Content(File)[p] \in Entry /\ p \in Path
    BY <1>1, Places DEF IsTree
  <1>4. Base \in Nat /\ LastLine \in 0 .. Room
    BY BaseTyped
  <1>5. ASSUME NEW e \in Entry
        PROVE  /\ Node(Base, e) \in Entry
               /\ Node(Base, e).value = e.value /\ Node(Base, e).mapping = e.mapping
               /\ Node(Base, e).breaks = e.breaks
               /\ Own => Node(Base, e).line = e.line
               /\ ~Own => /\ IsContextLine(Node(Base, e).line)
                          /\ Node(Base, e).line # ContextLine =>
                               Fits(Base, e) /\ Node(Base, e).line = ContextLine + Base + e.line
    <2>1. e.line \in Int /\ e.breaks \in Nat /\ Room \in Nat \ {0}
      BY MergeAssumption DEF Entry, MergeAssumption
    <2>2. Placed(Base, e) \in Int /\ IsContextLine(Placed(Base, e))
      <3>1. CASE Fits(Base, e)
        <4>1. Base + (e.line + e.breaks + 1) < Room
          BY <3>1 DEF Fits, End
        <4>2. Placed(Base, e) = -2 * Room + Base + e.line
          BY <3>1 DEF Placed, ContextLine
        <4> QED BY <4>1, <4>2, <2>1, <1>4 DEF IsContextLine
      <3>2. CASE ~Fits(Base, e)
        BY <3>2, <2>1 DEF Placed, ContextLine, IsContextLine
      <3> QED BY <3>1, <3>2
    <2>3. CASE Own
      BY <2>3 DEF Node
    <2>4. CASE ~Own
      <3>1. Node(Base, e) = [e EXCEPT !.line = Placed(Base, e)]
        BY <2>4 DEF Node
      <3>2. Placed(Base, e) # ContextLine => Fits(Base, e) /\ Placed(Base, e) = ContextLine + Base + e.line
        BY DEF Placed
      <3> QED BY <2>4, <2>2, <3>1, <3>2 DEF Entry
    <2> QED BY <2>3, <2>4
  <1>6. IsTree(Copy(Base))
    <2>1. Copy(Base) = [p \in DOMAIN Copy(Base) |-> Copy(Base)[p]]
      BY DEF Copy
    <2> QED BY <2>1, <1>2, <1>3, <1>5 DEF IsTree
  <1>7. ASSUME NEW p \in Taken
        PROVE  FromFile(pipeline, order, NewLines, Copy(Base)[p], Current, at.file, p)
    <2> DEFINE c == Content(File)[p]
    <2>1. c \in Entry /\ Copy(Base)[p] = Node(Base, c)
      BY <1>2, <1>3
    <2>2. c = pipeline.content[order[at.file]][p]
      BY DEF Content, File
    <2>3. Own <=> order[at.file] = Current
      BY DEF Own, File
    <2>4. ASSUME ~Own, Node(Base, c).line # ContextLine
          PROVE  Traceable(pipeline, order, NewLines, Node(Base, c), at.file, p)
      <3>1. Fits(Base, c) /\ Node(Base, c).line = ContextLine + Base + c.line
        BY <1>5, <2>1, <2>4
      <3>2. End(c) <= LastLine
        BY <2>4, <3>1, BaseTyped
      <3>3. NewLines.files = Append(merge.files, [file |-> File, base |-> Base])
            /\ NewLines.limit = Base + LastLine
        BY <2>4 DEF NewLines, NewFiles
      <3>4. merge.files \in Seq([file : Doc, base : Nat]) /\ [file |-> File, base |-> Base] \in [file : Doc, base : Nat]
        BY <1>4, Places DEF TypeOK
      <3>5. Len(merge.files) \in Nat /\ Len(NewLines.files) = Len(merge.files) + 1
            /\ NewLines.files[Len(merge.files) + 1] = [file |-> File, base |-> Base]
        BY <3>3, <3>4, LenProperties
      <3>6. End(c) \in Int
        BY <2>1 DEF Entry, End
      <3>7. Base + End(c) < Room /\ Base + End(c) <= NewLines.limit
        BY <1>4, <3>1, <3>2, <3>3, <3>6, MergeAssumption DEF Fits, MergeAssumption
      <3>8. Len(merge.files) + 1 \in 1 .. Len(NewLines.files)
            /\ Len(merge.files) + 1 + 1 .. Len(NewLines.files) = {}
        BY <3>5
      <3>9. File = order[at.file]
        BY DEF File
      <3>10. \E f \in 1 .. Len(NewLines.files) :
               /\ NewLines.files[f].file = order[at.file]
               /\ Node(Base, c).line = ContextLine + NewLines.files[f].base + c.line
               /\ NewLines.files[f].base + End(c) < Room
               /\ NewLines.files[f].base + End(c) <= NewLines.limit
               /\ \A g \in f + 1 .. Len(NewLines.files) :
                    NewLines.files[f].base + End(c) <= NewLines.files[g].base
        <4> DEFINE f == Len(merge.files) + 1
        <4>1. NewLines.files[f].file = order[at.file] /\ NewLines.files[f].base = Base
          BY <3>5, <3>9
        <4> HIDE DEF c
        <4>2. f \in 1 .. Len(NewLines.files) /\ f + 1 .. Len(NewLines.files) = {}
          BY <3>8
        <4> HIDE DEF f
        <4> QED BY <3>1, <3>7, <4>1, <4>2
      <3> QED BY <3>10, <2>1, <2>2 DEF Traceable
    <2> HIDE DEF c
    <2>5. /\ Node(Base, c).value = c.value /\ Node(Base, c).mapping = c.mapping
          /\ Node(Base, c).breaks = c.breaks
          /\ Own => Node(Base, c).line = c.line
          /\ ~Own => IsContextLine(Node(Base, c).line)
      BY <1>5, <2>1
    <2> QED BY <2>1, <2>2, <2>3, <2>4, <2>5 DEF FromFile
  <1> QED BY <1>1, <1>2, <1>6, <1>7

LEMMA MergeFileIInv == IInv /\ MergeFile => IInv'
  <1> SUFFICES ASSUME IInv, MergeFile PROVE IInv'
    OBVIOUS
  <1> DEFINE copied == Copy(Base)
  <1>1. TypeOK /\ Merging /\ at.file <= Len(order)
    BY DEF IInv, MergeFile
  <1>2. UNCHANGED <<pipeline, stack, seen, order, out>>
    BY DEF MergeFile
  <1>3. /\ merge'.entries = Over(merge.entries, copied)
        /\ merge'.files = NewFiles
        /\ merge'.base = Base /\ merge'.last = LastLine
        /\ merge'.foreign = (merge.foreign \/ (~Own /\ Taken # {}))
    BY DEF MergeFile, NewFiles
  <1>4. at \in [doc : 1 .. Len(order) + 1, file : 1 .. Len(order) + 1] /\ Len(order) \in Nat
    BY <1>1, Typed DEF TypeOK
  <1>5. at'.doc = at.doc /\ at'.file = at.file + 1
        /\ at' \in [doc : 1 .. Len(order) + 1, file : 1 .. Len(order) + 1]
    BY <1>1, <1>4 DEF MergeFile
  <1>6. Base \in Nat /\ LastLine \in 0 .. Room
    BY <1>1, BaseTyped
  <1>7. /\ IsTree(copied) /\ DOMAIN copied = Taken /\ Taken \subseteq DOMAIN Content(File)
        /\ \A p \in Taken : FromFile(pipeline, order, NewLines, copied[p], Current, at.file, p)
    BY <1>1, CopyRight
  <1>8. TypeOK'
    <2>1. IsTree(merge'.entries)
      BY <1>1, <1>3, <1>7, OverTree DEF TypeOK
    <2>2. merge'.files \in Seq([file : Doc, base : Nat])
      <3>1. merge.files \in Seq([file : Doc, base : Nat]) /\ [file |-> File, base |-> Base] \in [file : Doc, base : Nat]
        BY <1>1, <1>6, Places DEF TypeOK
      <3>2. CASE Own
        BY <3>1, <3>2, <1>3 DEF NewFiles
      <3>3. CASE ~Own
        BY <3>1, <3>3, <1>3 DEF NewFiles
      <3> QED BY <3>2, <3>3
    <2>3. merge'.foreign \in BOOLEAN /\ merge'.base \in Nat /\ merge'.last \in 0 .. Room
      BY <1>3, <1>6
    <2>4. DOMAIN out' = { order'[n] : n \in 1 .. at'.doc - 1 }
      BY <1>1, <1>2, <1>5 DEF TypeOK
    <2> QED BY <1>1, <1>2, <1>5, <2>1, <2>2, <2>3, <2>4 DEF TypeOK, Includes
  <1>9. Waiting'
    BY <1>1, <1>2 DEF Waiting, Merging
  <1>10. SoFar'
    <2>1. Merged(pipeline, order, NewLines, merge.entries, Current, at.file - 1)
      <3>1. Merged(pipeline, order, Lines, merge.entries, Current, at.file - 1)
        BY <1>1 DEF IInv, SoFar, Merging, Current
      <3>2. merge.files \in Seq([file : Doc, base : Nat]) /\ merge.base \in Nat /\ merge.last \in Nat
        BY <1>1, MergeAssumption DEF TypeOK, MergeAssumption
      <3>3. CASE Own
        BY <3>1, <3>3 DEF Lines, NewLines, NewFiles, Base, LastLine
      <3>4. CASE ~Own
        <4>1. Base = merge.base + merge.last /\ Base \in Nat /\ LastLine \in Nat /\ File \in Doc
          BY <3>4, <1>1, <1>6, Places DEF Base
        <4>2. Lines = [files |-> merge.files, limit |-> Base]
          BY <4>1 DEF Lines
        <4>3. NewLines = [files |-> Append(merge.files, [file |-> File, base |-> Base]),
                          limit |-> Base + LastLine]
          BY <3>4 DEF NewLines, NewFiles
        <4> QED BY <3>1, <3>2, <4>1, <4>2, <4>3, MoreLines
      <3> QED BY <3>3, <3>4
    <2>2. at.file - 1 \in Nat /\ at.file - 1 + 1 = at.file /\ at.file - 1 + 1 <= Len(order)
      BY <1>1, <1>4
    <2>3. \A p \in Path : SharedIn(pipeline, order, Top(p)) =>
             (p \in Taken <=> p \in DOMAIN Content(File) /\ Mine(pipeline, Current, Top(p)))
      BY <1>1, TakesRight
    <2>4. Content(File) = pipeline.content[order[at.file]]
      BY DEF Content, File
    <2>5. IsPipeline(pipeline) /\ order \in Seq(Doc) /\ Current \in Doc
      BY <1>1, Places DEF TypeOK
    <2>6. Merged(pipeline, order, NewLines, Over(merge.entries, copied), Current, at.file - 1 + 1)
      <3> HIDE DEF copied
      <3> QED BY <2>1, <2>2, <2>3, <2>4, <2>5, <1>7, OverMerges
    <2>7. Merged(pipeline, order, Lines', merge'.entries, order[at.doc], at'.file - 1)
      <3>1. Lines' = NewLines
        BY <1>3 DEF Lines, NewLines
      <3> QED BY <1>3, <1>4, <1>5, <2>2, <2>6, <3>1 DEF Current
    <2>8. \A d \in DOMAIN out : Merged(pipeline, order, LinesOf(d), out[d].entries, d, Len(order))
      BY DEF IInv, SoFar
    <2> QED BY <1>2, <1>5, <2>7, <2>8 DEF SoFar, LinesOf
  <1>11. AsRead'
    <2> SUFFICES ASSUME ~merge'.foreign
                 PROVE  merge'.entries = IF at.file + 1 > at.doc THEN Content(Current) ELSE << >>
      BY <1>2, <1>5 DEF AsRead, Content, Current
    <2>1. ~merge.foreign /\ (Own \/ Taken = {})
      BY <1>3
    <2>2. merge.entries = IF at.file > at.doc THEN Content(Current) ELSE << >>
      BY <1>1, <2>1 DEF IInv, AsRead, Merging, Current
    <2>3. CASE Own
      <3>1. at.file = at.doc /\ File = Current /\ merge.entries = << >>
        BY <1>1, <1>4, <2>2, <2>3, Places DEF Own
      <3>2. Taken = DOMAIN Content(Current) /\ \A p \in Taken : copied[p] = Content(Current)[p]
        BY <2>3, <3>1 DEF Taken, Takes, Copy, Node
      <3>3. IsTree(Content(Current))
        BY <1>1, Places
      <3>4. Over(<< >>, copied) = Content(Current)
        <4>1. Kept(<< >>, copied) = {}
          BY DEF Kept
        <4>2. Over(<< >>, copied) = [p \in DOMAIN copied |-> copied[p]]
          BY <4>1 DEF Over
        <4>3. [p \in DOMAIN copied |-> copied[p]] = [p \in DOMAIN Content(Current) |-> Content(Current)[p]]
          BY <1>7, <3>2
        <4> QED BY <4>2, <4>3, <3>3 DEF IsTree
      <3> QED BY <1>3, <1>4, <3>1, <3>4
    <2>4. CASE ~Own
      <3>1. Taken = {} /\ at.file # at.doc
        BY <1>1, <2>1, <2>4, Places
      <3>2. Over(merge.entries, copied) = merge.entries
        <4>1. DOMAIN copied = {} /\ Kept(merge.entries, copied) = DOMAIN merge.entries
          BY <1>7, <3>1 DEF Kept
        <4>2. Over(merge.entries, copied) = [p \in DOMAIN merge.entries |-> merge.entries[p]]
          BY <4>1 DEF Over
        <4>3. IsTree(merge.entries)
          BY <1>1 DEF TypeOK
        <4> QED BY <4>2, <4>3 DEF IsTree
      <3>3. at.file + 1 > at.doc <=> at.file > at.doc
        BY <1>4, <3>1
      <3> QED BY <1>3, <2>2, <3>2, <3>3
    <2> QED BY <2>3, <2>4
  <1> QED BY <1>8, <1>9, <1>10, <1>11 DEF IInv

LEMMA FinishIInv == IInv /\ Finish => IInv'
  <1> SUFFICES ASSUME IInv, Finish PROVE IInv'
    OBVIOUS
  <1>1. TypeOK /\ Merging /\ at.file > Len(order)
    BY DEF IInv, Finish
  <1>2. UNCHANGED <<pipeline, stack, seen, order>>
    BY DEF Finish
  <1>3. /\ out' = [d \in DOMAIN out \cup {Current} |-> IF d = Current THEN Result ELSE out[d]]
        /\ at' = [doc |-> at.doc + 1, file |-> 1]
        /\ merge' = Nothing
    BY DEF Finish
  <1>4. /\ at \in [doc : 1 .. Len(order) + 1, file : 1 .. Len(order) + 1]
        /\ Len(order) \in Nat /\ DOMAIN order = 1 .. Len(order)
    BY <1>1, Typed DEF TypeOK
  <1>5. at.file = Len(order) + 1 /\ at.doc \in 1 .. Len(order) /\ Current \in Doc
    BY <1>1, <1>4, Typed DEF Merging, Current
  <1>6. Result.entries = merge.entries
    <2>1. CASE merge.foreign
      BY <2>1 DEF Result
    <2>2. CASE ~merge.foreign
      BY <2>2, <1>4, <1>5 DEF Result, IInv, AsRead, Current
    <2> QED BY <2>1, <2>2
  <1>7. Result.files \in Seq([file : Doc, base : Nat])
    <2>1. << >> \in Seq([file : Doc, base : Nat])
      BY EmptySeq
    <2> QED BY <1>1, <2>1 DEF Result, TypeOK
  <1>8. TypeOK'
    <2>1. DOMAIN out' = { order'[n] : n \in 1 .. at'.doc - 1 }
      <3>1. DOMAIN out = { order[n] : n \in 1 .. at.doc - 1 }
        BY <1>1 DEF TypeOK
      <3>2. at'.doc - 1 = at.doc /\ 1 .. at.doc = (1 .. at.doc - 1) \cup {at.doc}
        BY <1>3, <1>4
      <3>3. DOMAIN out' = DOMAIN out \cup {order[at.doc]}
        BY <1>3 DEF Current
      <3> QED BY <1>2, <3>1, <3>2, <3>3
    <2>2. at' \in [doc : 1 .. Len(order) + 1, file : 1 .. Len(order) + 1]
      BY <1>3, <1>4, <1>5
    <2>3. \A d \in DOMAIN out' :
             IsTree(out'[d].entries) /\ out'[d].files \in Seq([file : Doc, base : Nat])
      BY <1>1, <1>3, <1>6, <1>7 DEF TypeOK
    <2>4. /\ IsTree(merge'.entries)
          /\ merge'.files \in Seq([file : Doc, base : Nat])
          /\ merge'.base \in Nat /\ merge'.last \in 0 .. Room /\ merge'.foreign \in BOOLEAN
      <3>1. IsTree(<< >>)
        BY DEF IsTree
      <3> QED BY <1>3, <3>1, EmptySeq, MergeAssumption DEF Nothing, MergeAssumption
    <2> QED BY <1>1, <1>2, <2>1, <2>2, <2>3, <2>4 DEF TypeOK, Includes
  <1>9. Waiting'
    BY <1>1, <1>2 DEF Waiting, Merging
  <1>10. SoFar'
    <2>1. DOMAIN merge'.entries = {} /\ at'.file - 1 = 0
      BY <1>3 DEF Nothing
    <2>2. Merged(pipeline, order, Lines, merge.entries, Current, Len(order))
      BY <1>4, <1>5 DEF IInv, SoFar, Current
    <2>3. Merged(pipeline, order, [files |-> merge.files, limit |-> Room], merge.entries,
                 Current, Len(order))
      BY <1>1, <2>2, LinesInRoom DEF Lines, TypeOK
    <2>4. Merged(pipeline, order, [files |-> Result.files, limit |-> Room], Result.entries,
                 Current, Len(order))
      <3>1. CASE merge.foreign
        BY <3>1, <2>3 DEF Result
      <3>2. CASE ~merge.foreign
        <4>1. Result.entries = Content(Current) /\ Result.files = << >>
          BY <3>2 DEF Result
        <4>2. IsTree(Content(Current)) /\ \A p \in DOMAIN Content(Current) : Content(Current)[p].line > 0
          BY <1>1, <1>5 DEF TypeOK, IsPipeline, Content
        <4>3. \A p \in DOMAIN Content(Current) : ~IsContextLine(Content(Current)[p].line)
          BY <4>2, MergeAssumption DEF IsTree, Entry, IsContextLine, MergeAssumption
        <4>4. \A p \in DOMAIN Content(Current) : \A n :
                 FromFile(pipeline, order, [files |-> merge.files, limit |-> Room],
                          Content(Current)[p], Current, n, p)
                 => FromFile(pipeline, order, [files |-> << >>, limit |-> Room],
                             Content(Current)[p], Current, n, p)
          BY <4>3 DEF FromFile
        <4>5. Merged(pipeline, order, [files |-> merge.files, limit |-> Room], Content(Current),
                     Current, Len(order))
          BY <2>3, <1>6, <4>1
        <4> QED BY <4>1, <4>4, <4>5 DEF Merged, MergedAt
      <3> QED BY <3>1, <3>2
    <2>5. \A d \in DOMAIN out' :
             Merged(pipeline, order, [files |-> out'[d].files, limit |-> Room], out'[d].entries,
                    d, Len(order))
      BY <1>3, <2>4 DEF IInv, SoFar, LinesOf
    <2>6. Merged(pipeline, order, Lines', merge'.entries, order[at'.doc], at'.file - 1)
      BY <2>1, NothingMerged
    <2> QED BY <1>2, <2>5, <2>6 DEF SoFar, LinesOf
  <1>11. AsRead'
    BY <1>3, <1>4 DEF AsRead, Nothing
  <1> QED BY <1>8, <1>9, <1>10, <1>11 DEF IInv

LEMMA Inductive == Spec => []IInv
  <1>1. IInv /\ [Next]_vars => IInv'
    <2>1. IInv /\ UNCHANGED vars => IInv'
      BY DEF vars, IInv, TypeOK, Waiting, SoFar, AsRead, Lines, LinesOf, Content, Includes
    <2> QED BY <2>1, WalkIInv, ReturnIInv, MergeFileIInv, FinishIInv DEF Next
  <1> QED BY <1>1, InitIInv, PTL DEF Spec

-----------------------------------------------------------------------------
(* The properties of the run follow from the invariant. *)

LEMMA SameWinner ==
  ASSUME TypeOK, NEW p \in Path
  PROVE  /\ Winner(p) = WinnerTo(pipeline, order, Len(order), p)
         /\ Shared(Top(p)) => SharedIn(pipeline, order, Top(p))
  <1>1. DOMAIN order = 1 .. Len(order)
    BY Typed
  <1>2. Winner(p) = WinnerTo(pipeline, order, Len(order), p)
    BY <1>1 DEF Winner, WinnerTo, MappingsAbove, Content
  <1>3. ASSUME Shared(Top(p)) PROVE SharedIn(pipeline, order, Top(p))
    <2>1. \A n \in 1 .. Len(order) : order[n] \in ToSet(order)
      BY <1>1 DEF ToSet
    <2> QED BY <1>3, <2>1 DEF Shared, SharedIn, KeywordJobIn, IsKeywordJob, Content
  <1> QED BY <1>2, <1>3

(* What a file that is done has for a path of a shared key. *)
LEMMA DoneAt ==
  ASSUME IInv, NEW d \in DOMAIN out, NEW p \in Path, Shared(Top(p))
  PROVE  /\ p \in DOMAIN out[d].entries <=> Mine(pipeline, d, Top(p)) /\ Winner(p) # {}
         /\ Mine(pipeline, d, Top(p)) => \A n \in Winner(p) :
              FromFile(pipeline, order, LinesOf(d), out[d].entries[p], d, n, p)
  BY SameWinner DEF IInv, SoFar, Merged, MergedAt

(* The entry of a winner is typed, and its file has the top-level key. *)
LEMMA WinnerEntry ==
  ASSUME TypeOK, NEW p \in Path, NEW n \in Winner(p)
  PROVE  /\ n \in 1 .. Len(order) /\ order[n] \in Doc
         /\ Content(order[n])[p] \in Entry /\ Content(order[n])[p].line > 0
         /\ Mine(pipeline, order[n], Top(p))
  <1>1. n \in 1 .. Len(order) /\ p \in DOMAIN Content(order[n]) /\ order[n] \in Doc
    BY Typed DEF Winner
  <1>2. /\ IsTree(Content(order[n])) /\ Content(order[n])[p].line > 0
        /\ \A q \in Above(p) : q \in DOMAIN Content(order[n])
    BY <1>1 DEF TypeOK, IsPipeline, Content
  <1>3. <<Top(p)>> \in DOMAIN Content(order[n])
    BY <1>1, <1>2, SameTop
  <1> QED BY <1>1, <1>2, <1>3 DEF IsTree, Mine, Content

(* The types of the walk, the merge and its results, for every pipeline. *)
THEOREM TypeCorrect == Spec => []TypeOK
  BY Inductive, PTL DEF IInv

(* However many files a pipeline has and however deep their mappings are,  *)
(* each file sees of every shared key what GitLab merges.  The tests of    *)
(* context_test.go try this with two or three files.                       *)
THEOREM MergesAsGitLab == Spec => []AsGitLabMerges
  <1>1. IInv => AsGitLabMerges
    <2> SUFFICES ASSUME IInv, NEW d \in DOMAIN out, NEW p \in Path, Shared(Top(p))
                 PROVE  /\ p \in DOMAIN out[d].entries <=>
                             (ContextKey(Top(p)) \/ <<Top(p)>> \in DOMAIN Content(d)) /\ Winner(p) # {}
                        /\ \A n \in Winner(p) :
                             ContextKey(Top(p)) \/ <<Top(p)>> \in DOMAIN Content(d) =>
                               /\ out[d].entries[p].value = Content(order[n])[p].value
                               /\ out[d].entries[p].mapping = Content(order[n])[p].mapping
      BY DEF AsGitLabMerges
    <2>1. Mine(pipeline, d, Top(p)) <=> ContextKey(Top(p)) \/ <<Top(p)>> \in DOMAIN Content(d)
      BY DEF Mine, Content
    <2> QED BY <2>1, DoneAt DEF FromFile, Content
  <1> QED BY <1>1, Inductive, PTL

(* Every value of a shared key that GitLab uses is on a line of its own in *)
(* exactly one file, the one that sets it last, so findings on it are      *)
(* neither lost nor doubled, in pipelines of any size.                     *)
THEOREM ReportedByOneFile == Spec => []OneFileReports
  <1>1. IInv => OneFileReports
    <2> SUFFICES ASSUME IInv, at.doc > Len(order), NEW p \in Path, Shared(Top(p))
                 PROVE  Reporters(p) = { order[n] : n \in Winner(p) }
      BY DEF OneFileReports
    <2>1. TypeOK
      BY DEF IInv
    <2>2. DOMAIN out = { order[n] : n \in 1 .. Len(order) }
      <3>1. at.doc - 1 = Len(order)
        BY <2>1, Typed DEF TypeOK
      <3> QED BY <2>1, <3>1 DEF TypeOK
    <2>3. ASSUME NEW d \in Reporters(p) PROVE \E n \in Winner(p) : d = order[n]
      <3>1. d \in DOMAIN out /\ p \in DOMAIN out[d].entries /\ ~IsContextLine(out[d].entries[p].line)
        BY <2>3 DEF Reporters
      <3>2. PICK n \in Winner(p) : FromFile(pipeline, order, LinesOf(d), out[d].entries[p], d, n, p)
        BY <3>1, DoneAt
      <3> QED BY <3>1, <3>2 DEF FromFile
    <2>4. ASSUME NEW n \in Winner(p) PROVE order[n] \in Reporters(p)
      <3>1. order[n] \in DOMAIN out /\ Mine(pipeline, order[n], Top(p))
        BY <2>1, <2>2, WinnerEntry
      <3>2. /\ p \in DOMAIN out[order[n]].entries
            /\ FromFile(pipeline, order, LinesOf(order[n]), out[order[n]].entries[p], order[n], n, p)
        BY <3>1, DoneAt
      <3>3. out[order[n]].entries[p].line = Content(order[n])[p].line
        BY <3>2 DEF FromFile, Content
      <3>4. Content(order[n])[p].line \in Int /\ Content(order[n])[p].line > 0
        BY <2>1, WinnerEntry DEF Entry
      <3>5. ~IsContextLine(out[order[n]].entries[p].line)
        BY <3>3, <3>4, MergeAssumption DEF IsContextLine, MergeAssumption
      <3> QED BY <3>1, <3>2, <3>5 DEF Reporters
    <2> QED BY <2>3, <2>4
  <1> QED BY <1>1, Inductive, PTL

(* The origin of a context line is the last file whose base lies below it. *)
BasesBelow(files, rel) == { n \in DOMAIN files : rel > files[n].base }
LastBelow(files, rel) ==
  { m \in BasesBelow(files, rel) : \A o \in BasesBelow(files, rel) : o <= m }

LEMMA Origin ==
  ASSUME NEW files, NEW len \in Nat, DOMAIN files = 1 .. len,
         NEW line, NEW rel, line - ContextLine = rel,
         NEW f \in 1 .. len, rel > files[f].base,
         \A g \in f + 1 .. len : ~ (rel > files[g].base)
  PROVE  ContextOrigin(files, line)
           = {[file |-> files[f].file, line |-> rel - files[f].base]}
  <1>1. ContextOrigin(files, line)
          = { [file |-> files[n].file, line |-> rel - files[n].base] :
                n \in LastBelow(files, rel) }
    <2>1. ContextOrigin(files, line)
            = { [file |-> files[n].file, line |-> (line - ContextLine) - files[n].base] :
                  n \in LastBelow(files, line - ContextLine) }
      BY Zenon DEF ContextOrigin, LastBelow, BasesBelow
    <2> QED BY <2>1, Zenon
  <1>2. f \in BasesBelow(files, rel) /\ \A g \in BasesBelow(files, rel) : g <= f
    BY DEF BasesBelow
  <1>3. BasesBelow(files, rel) \subseteq 1 .. len
    BY DEF BasesBelow
  <1>4. LastBelow(files, rel) = {f}
    BY <1>2, <1>3 DEF LastBelow
  <1> QED BY <1>1, <1>4

(* The lines of different files never overlap, so a finding on any line of *)
(* an entry from another file is traced to that file and its line there,   *)
(* unless the room was used up.                                            *)
THEOREM OriginIsKnown == Spec => []OriginKnown
  <1>1. IInv => OriginKnown
    <2> SUFFICES ASSUME IInv, NEW d \in DOMAIN out, NEW p \in DOMAIN out[d].entries, Shared(Top(p)),
                        NEW n \in Winner(p), order[n] # d, out[d].entries[p].line # ContextLine,
                        NEW row \in 0 .. out[d].entries[p].breaks + 1
                 PROVE  /\ IsContextLine(out[d].entries[p].line + row)
                        /\ ContextOrigin(out[d].files, out[d].entries[p].line + row)
                             = {[file |-> order[n], line |-> Content(order[n])[p].line + row]}
      BY DEF OriginKnown
    <2> DEFINE e == out[d].entries[p]
               c == Content(order[n])[p]
               fs == out[d].files
    <2>1. TypeOK /\ p \in Path
      BY DEF IInv, TypeOK, IsTree
    <2>2. FromFile(pipeline, order, LinesOf(d), e, d, n, p)
      BY <2>1, DoneAt
    <2>3. c \in Entry /\ c.line > 0 /\ e.breaks = c.breaks
      BY <2>1, <2>2, WinnerEntry DEF FromFile, Content
    <2>4. c.line \in Int /\ c.breaks \in Nat /\ row \in Int /\ 0 <= row /\ row <= c.breaks + 1
      BY <2>3 DEF Entry
    <2>5. Traceable(pipeline, order, LinesOf(d), e, n, p)
      BY <2>2 DEF FromFile
    <2>6. PICK f \in 1 .. Len(fs) :
            /\ fs[f].file = order[n]
            /\ e.line = ContextLine + fs[f].base + c.line
            /\ fs[f].base + End(c) < Room
            /\ \A g \in f + 1 .. Len(fs) : fs[f].base + End(c) <= fs[g].base
      BY <2>5 DEF Traceable, LinesOf, Content
    <2>7. /\ fs \in Seq([file : Doc, base : Nat])
          /\ \A g \in 1 .. Len(fs) : fs[g] \in [file : Doc, base : Nat]
          /\ DOMAIN fs = 1 .. Len(fs) /\ Len(fs) \in Nat
      BY <2>1, ElementOfSeq, LenProperties DEF TypeOK
    <2> HIDE DEF e, c, fs
    <2>8. fs[f].base \in Nat /\ Room \in Nat \ {0}
      BY <2>6, <2>7, MergeAssumption DEF MergeAssumption
    <2> DEFINE rel == fs[f].base + c.line + row
    <2>9. /\ rel > fs[f].base /\ rel <= fs[f].base + End(c) /\ rel < Room
          /\ e.line + row = ContextLine + rel /\ (e.line + row) - ContextLine = rel
          /\ rel - fs[f].base = c.line + row
      <3>1. ContextLine = -2 * Room /\ End(c) = c.line + c.breaks + 1
        BY DEF ContextLine, End
      <3> DEFINE b == fs[f].base
                 l == c.line
                 k == c.breaks
      <3>2. b \in Nat /\ l \in Int /\ l > 0 /\ k \in Nat /\ row \in Int /\ 0 <= row /\ row <= k + 1
        BY <2>3, <2>4, <2>8
      <3>3. e.line = ContextLine + b + l /\ b + (l + k + 1) < Room /\ Room \in Nat
        BY <3>1, <2>6, <2>8
      <3>4. rel = b + l + row /\ End(c) = l + k + 1
        BY <3>1
      <3> HIDE DEF b, l, k, rel
      <3>5. rel > b /\ rel <= b + (l + k + 1) /\ rel < Room /\ rel - b = l + row
        BY <3>2, <3>3, <3>4
      <3>6. e.line + row = ContextLine + rel /\ (e.line + row) - ContextLine = rel
        BY <3>1, <3>2, <3>3, <3>4
      <3> QED BY <3>4, <3>5, <3>6 DEF b, l
    <2>10. IsContextLine(e.line + row)
      BY <2>4, <2>8, <2>9 DEF IsContextLine, ContextLine
    <2>11. ContextOrigin(fs, e.line + row) = {[file |-> order[n], line |-> c.line + row]}
      <3>1. \A g \in f + 1 .. Len(fs) : ~ (rel > fs[g].base)
        <4> SUFFICES ASSUME NEW g \in f + 1 .. Len(fs) PROVE ~ (rel > fs[g].base)
          OBVIOUS
        <4>1. fs[f].base + End(c) <= fs[g].base
          BY <2>6
        <4>2. End(c) \in Int /\ rel \in Int
          BY SMTT(30), <2>4, <2>8 DEF End
        <4>3. fs[g].base \in Nat
          <5>1. g \in 1 .. Len(fs)
            BY <2>7
          <5>2. fs[g] \in [file : Doc, base : Nat]
            BY <2>7, <5>1
          <5> QED BY <5>2
        <4> HIDE DEF rel
        <4> QED BY SMTT(30), <4>1, <4>2, <4>3, <2>8, <2>9
      <3> HIDE DEF rel
      <3>2. ContextOrigin(fs, e.line + row) = {[file |-> fs[f].file, line |-> rel - fs[f].base]}
        <4>1. (e.line + row) - ContextLine = rel /\ rel > fs[f].base
          BY <2>9
        <4>2. DOMAIN fs = 1 .. Len(fs) /\ Len(fs) \in Nat
          BY <2>7, Zenon
        <4> QED BY <4>1, <4>2, <3>1, Origin
      <3> QED BY <3>2, <2>6, <2>9
    <2> QED BY <2>10, <2>11 DEF e, c, fs
  <1> QED BY <1>1, Inductive, PTL

-----------------------------------------------------------------------------
(* The order of the files. *)

LEMMA ReachableClosed ==
  ASSUME NEW inc \in [Doc -> Seq(Doc)]
  PROVE  /\ Reachable(inc) \subseteq Doc /\ Root \in Reachable(inc)
         /\ \A d \in Reachable(inc) : ToSet(inc[d]) \subseteq Reachable(inc)
         /\ \A S \in SUBSET Doc :
              Root \in S /\ (\A e \in S : ToSet(inc[e]) \subseteq S) => Reachable(inc) \subseteq S
<1>1. Root \in Doc
  BY MergeAssumption DEF MergeAssumption
<1>2. \A d \in Doc : ToSet(inc[d]) \subseteq Doc
  BY ElementOfSeq DEF ToSet
<1>3. ASSUME NEW d \in Reachable(inc), NEW e \in ToSet(inc[d])
      PROVE  e \in Reachable(inc)
  <2>1. d \in Doc /\ e \in Doc
    BY <1>2 DEF Reachable
  <2>2. ASSUME NEW S \in SUBSET Doc, Root \in S, \A x \in S : ToSet(inc[x]) \subseteq S
        PROVE  e \in S
    BY <2>2, <1>3 DEF Reachable
  <2> QED
    BY <2>1, <2>2 DEF Reachable
<1> QED
  BY <1>1, <1>3 DEF Reachable

(* One file of the unfolding, given the others. *)
Step(inc, f, d) == FlattenSeq([i \in DOMAIN inc[d] |-> f[inc[d][i]]]) \o <<d>>
ClosedUnder(inc, D) == D \subseteq Reachable(inc) /\ \A d \in D : ToSet(inc[d]) \subseteq D
Solves(inc, D, f) == \A d \in D : f[d] = Step(inc, f, d)

LEMMA StepUses ==
  ASSUME NEW inc \in [Doc -> Seq(Doc)], NEW d \in Doc, NEW f, NEW g,
         \A e \in ToSet(inc[d]) : f[e] = g[e]
  PROVE  Step(inc, f, d) = Step(inc, g, d)
<1>1. \A i \in DOMAIN inc[d] : inc[d][i] \in ToSet(inc[d])
  BY DEF ToSet
<1>2. [i \in DOMAIN inc[d] |-> f[inc[d][i]]] = [i \in DOMAIN inc[d] |-> g[inc[d][i]]]
  BY <1>1
<1> QED
  BY <1>2 DEF Step

(* Without a cycle there is an end to every set of files.                  *)
LEMMA Acyclic ==
  ASSUME NEW inc \in [Doc -> Seq(Doc)], ~Cyclic(inc), NEW B \in SUBSET Reachable(inc), B # {}
  PROVE  \E d \in B : ToSet(inc[d]) \cap B = {}
BY DEF Cyclic

LEMMA OneSolution ==
  ASSUME NEW inc \in [Doc -> Seq(Doc)], ~Cyclic(inc),
         NEW D, ClosedUnder(inc, D), NEW f, Solves(inc, D, f),
         NEW E, ClosedUnder(inc, E), NEW g, Solves(inc, E, g)
  PROVE  \A d \in D \cap E : f[d] = g[d]
<1> DEFINE B == {d \in D \cap E : f[d] # g[d]}
<1> SUFFICES ASSUME B # {} PROVE FALSE
  OBVIOUS
<1>1. B \in SUBSET Reachable(inc)
  BY DEF ClosedUnder
<1>2. PICK d \in B : ToSet(inc[d]) \cap B = {}
  <2> HIDE DEF B
  <2> QED
    BY <1>1, Acyclic
<1>3. \A e \in ToSet(inc[d]) : f[e] = g[e]
  BY <1>2 DEF ClosedUnder
<1>4. d \in Doc
  BY <1>1, ReachableClosed
<1>5. Step(inc, f, d) = Step(inc, g, d)
  BY <1>3, <1>4, StepUses
<1> QED
  BY <1>2, <1>5 DEF Solves

LEMMA SolutionExists ==
  ASSUME NEW inc \in [Doc -> Seq(Doc)], ~Cyclic(inc)
  PROVE  \E f : f = [d \in Reachable(inc) |-> Step(inc, f, d)]
<1> DEFINE Partial(D, f) == ClosedUnder(inc, D) /\ Solves(inc, D, f)
           Good == {d \in Reachable(inc) : \E D, f : Partial(D, f) /\ d \in D}
           F == [d \in Reachable(inc) |-> CHOOSE v : \E D, f : Partial(D, f) /\ d \in D /\ v = f[d]]
<1>1. \A D, f : Partial(D, f) => D \subseteq Good
  BY DEF ClosedUnder
<1>2. ASSUME NEW D, NEW f, Partial(D, f), NEW d \in D
      PROVE  F[d] = f[d]
  <2>1. d \in Reachable(inc)
    BY <1>2 DEF ClosedUnder
  <2>2. \E v : \E E, g : Partial(E, g) /\ d \in E /\ v = g[d]
    BY <1>2
  <2>3. \E E, g : Partial(E, g) /\ d \in E /\ F[d] = g[d]
    BY <2>1, <2>2
  <2>4. PICK E, g : Partial(E, g) /\ d \in E /\ F[d] = g[d]
    BY <2>3
  <2> QED
    BY <1>2, <2>4, OneSolution
<1> HIDE DEF F
<1>3. ClosedUnder(inc, Good)
  BY <1>1 DEF ClosedUnder
<1>4. Solves(inc, Good, F)
  <2> SUFFICES ASSUME NEW d \in Good PROVE F[d] = Step(inc, F, d)
    BY DEF Solves
  <2>1. PICK D, f : Partial(D, f) /\ d \in D
    OBVIOUS
  <2>2. d \in Doc /\ ToSet(inc[d]) \subseteq D
    BY <2>1, ReachableClosed DEF ClosedUnder
  <2>3. \A e \in ToSet(inc[d]) : F[e] = f[e]
    BY <1>2, <2>1, <2>2
  <2>4. Step(inc, F, d) = Step(inc, f, d)
    BY <2>2, <2>3, StepUses
  <2> QED
    BY <1>2, <2>1, <2>4 DEF Solves
<1>5. Good = Reachable(inc)
  <2> SUFFICES ASSUME Reachable(inc) \ Good # {} PROVE FALSE
    OBVIOUS
  <2>1. PICK d \in Reachable(inc) \ Good : ToSet(inc[d]) \cap (Reachable(inc) \ Good) = {}
    <3>1. Reachable(inc) \ Good \in SUBSET Reachable(inc)
      OBVIOUS
    <3> HIDE DEF Good
    <3> QED
      BY <3>1, Acyclic
  <2>2. ToSet(inc[d]) \subseteq Good /\ d \in Doc
    BY <2>1, ReachableClosed
  <2> DEFINE More == Good \cup {d}
             g == [x \in More |-> IF x \in Good THEN F[x] ELSE Step(inc, F, x)]
  <2>3. ClosedUnder(inc, More)
    BY <1>3, <2>1, <2>2 DEF ClosedUnder
  <2>4. \A x \in Good : g[x] = F[x]
    OBVIOUS
  <2>5. g[d] = Step(inc, F, d)
    BY <2>1
  <2> HIDE DEF g
  <2>6. ASSUME NEW x \in More
        PROVE  g[x] = Step(inc, g, x)
    <3>1. x \in Doc /\ ToSet(inc[x]) \subseteq Good
      BY <1>3, <2>2, ReachableClosed DEF ClosedUnder
    <3>2. Step(inc, g, x) = Step(inc, F, x)
      <4>1. \A e \in ToSet(inc[x]) : g[e] = F[e]
        BY <2>4, <3>1
      <4> QED
        BY <3>1, <4>1, StepUses
    <3>3. CASE x = d
      BY <2>5, <3>2, <3>3
    <3>4. CASE x \in Good
      BY <1>4, <2>4, <3>2, <3>4 DEF Solves
    <3> QED
      BY <3>3, <3>4
  <2>7. Partial(More, g)
    BY <2>3, <2>6 DEF Solves
  <2> QED
    BY <1>1, <2>1, <2>7
<1>6. F = [d \in Reachable(inc) |-> F[d]]
  BY DEF F
<1>7. \A d \in Reachable(inc) : F[d] = Step(inc, F, d)
  BY <1>4, <1>5 DEF Solves
<1>8. F = [d \in Reachable(inc) |-> Step(inc, F, d)]
  BY <1>6, <1>7
<1> QED
  BY <1>8

(* What Unfold gives for a file. *)
LEMMA UnfoldStep ==
  ASSUME NEW inc \in [Doc -> Seq(Doc)], ~Cyclic(inc), NEW d \in Reachable(inc)
  PROVE  Unfold(inc)[d] = Step(inc, Unfold(inc), d)
<1> DEFINE U == CHOOSE f : f = [e \in Reachable(inc) |-> Step(inc, f, e)]
<1>1. U = [e \in Reachable(inc) |-> Step(inc, U, e)]
  BY SolutionExists
<1>2. Unfold(inc) = U
  BY DEF Unfold, Step
<1> HIDE DEF U
<1>3. U[d] = Step(inc, U, d)
  BY <1>1
<1> QED
  BY <1>2, <1>3

LEMMA UnfoldWithin ==
  ASSUME NEW inc \in [Doc -> Seq(Doc)], ~Cyclic(inc), NEW d \in Reachable(inc), NEW S, d \in S,
         \A e \in ToSet(inc[d]) : Unfold(inc)[e] \in Seq(S)
  PROVE  Unfold(inc)[d] \in Seq(S)
<1> DEFINE U == Unfold(inc)
           ss == [i \in DOMAIN inc[d] |-> U[inc[d][i]]]
<1> HIDE DEF U
<1>1. d \in Doc /\ inc[d] \in Seq(Doc)
  BY ReachableClosed
<1>2. Len(inc[d]) \in Nat /\ DOMAIN inc[d] = 1 .. Len(inc[d])
  BY <1>1, LenProperties
<1>3. \A i \in 1 .. Len(inc[d]) : ss[i] \in Seq(S)
  BY <1>2 DEF ToSet, U
<1>4. ss \in [1 .. Len(inc[d]) -> Seq(S)]
  BY <1>2, <1>3
<1>5. U[d] = FlattenSeq(ss) \o <<d>>
  BY UnfoldStep DEF U, Step
<1> HIDE DEF ss
<1>6. ss \in Seq(Seq(S))
  BY <1>2, <1>4, FunctionAsSeq
<1>7. << >> \in Seq(S) /\ \A s, t \in Seq(S) : s \o t \in Seq(S)
  BY EmptySeq, ConcatProperties
<1>8. FlattenSeq(ss) \in Seq(S)
  BY <1>6, <1>7, FlattenInto
<1>9. <<d>> \in Seq(S)
  OBVIOUS
<1> QED
  BY <1>5, <1>7, <1>8, <1>9 DEF U

LEMMA UnfoldTyped ==
  ASSUME NEW inc \in [Doc -> Seq(Doc)], ~Cyclic(inc)
  PROVE  \A d \in Reachable(inc) : Unfold(inc)[d] \in Seq(Doc)
<1> DEFINE B == {d \in Reachable(inc) : Unfold(inc)[d] \notin Seq(Doc)}
<1> SUFFICES ASSUME B # {} PROVE FALSE
  OBVIOUS
<1>1. B \in SUBSET Reachable(inc)
  OBVIOUS
<1>2. PICK d \in B : ToSet(inc[d]) \cap B = {}
  <2> HIDE DEF B
  <2> QED
    BY <1>1, Acyclic
<1>3. d \in Reachable(inc) /\ d \in Doc /\ ToSet(inc[d]) \subseteq Reachable(inc)
  BY <1>1, ReachableClosed
<1>4. \A e \in ToSet(inc[d]) : Unfold(inc)[e] \in Seq(Doc)
  BY <1>2, <1>3
<1>5. Unfold(inc)[d] \in Seq(Doc)
  BY <1>3, <1>4, UnfoldWithin
<1> QED
  BY <1>2, <1>5

(* s is what the first n includes of d unfold to. *)
IsPart(inc, d, n, s) ==
  \E g \in [0 .. n -> Seq(Doc)] :
    /\ g[0] = << >> /\ s = g[n]
    /\ \A i \in 1 .. n : g[i] = g[i - 1] \o Unfold(inc)[inc[d][i]]

LEMMA UnfoldParts ==
  ASSUME NEW inc \in [Doc -> Seq(Doc)], ~Cyclic(inc), NEW d \in Reachable(inc)
  PROVE  \E s \in Seq(Doc) : IsPart(inc, d, Len(inc[d]), s) /\ Unfold(inc)[d] = s \o <<d>>
<1> DEFINE U == Unfold(inc)
           ss == [i \in DOMAIN inc[d] |-> U[inc[d][i]]]
<1> HIDE DEF U
<1>1. d \in Doc /\ inc[d] \in Seq(Doc) /\ ToSet(inc[d]) \subseteq Reachable(inc)
  BY ReachableClosed
<1>2. Len(inc[d]) \in Nat /\ DOMAIN inc[d] = 1 .. Len(inc[d])
  BY <1>1, LenProperties
<1>3. \A i \in 1 .. Len(inc[d]) : ss[i] \in Seq(Doc)
  BY <1>1, <1>2, UnfoldTyped DEF ToSet, U
<1>4. ss \in [1 .. Len(inc[d]) -> Seq(Doc)]
  BY <1>2, <1>3
<1>5. U[d] = FlattenSeq(ss) \o <<d>>
  BY UnfoldStep DEF U, Step
<1>6. \A i \in 1 .. Len(inc[d]) : ss[i] = U[inc[d][i]]
  BY <1>2
<1> HIDE DEF ss
<1>7. ss \in Seq(Seq(Doc)) /\ Len(ss) = Len(inc[d])
  BY <1>2, <1>4, FunctionAsSeq
<1>8. PICK g \in [0 .. Len(inc[d]) -> Seq(Doc)] :
        /\ g[0] = << >>
        /\ \A i \in 1 .. Len(inc[d]) : g[i] = g[i - 1] \o ss[i]
        /\ FlattenSeq(ss) = g[Len(inc[d])]
  <2>1. \E g \in [0 .. Len(ss) -> Seq(Doc)] :
          /\ g[0] = << >>
          /\ \A i \in 1 .. Len(ss) : g[i] = g[i - 1] \o ss[i]
          /\ FlattenSeq(ss) = g[Len(ss)]
    BY <1>7, FlattenSteps
  <2> QED
    BY <1>7, <2>1
<1>9. IsPart(inc, d, Len(inc[d]), g[Len(inc[d])])
  BY <1>6, <1>8 DEF IsPart, U
<1>10. g[Len(inc[d])] \in Seq(Doc)
  BY <1>2, <1>8
<1> QED
  BY <1>5, <1>8, <1>9, <1>10 DEF U

LEMMA NoIncludes ==
  ASSUME NEW inc, NEW d, NEW s, IsPart(inc, d, 0, s)
  PROVE  s = << >>
BY DEF IsPart

(* The last of the includes ends it. *)
Ends(inc, d, n, s) ==
  \E t \in Seq(Doc) : IsPart(inc, d, n - 1, t) /\ s = t \o Unfold(inc)[inc[d][n]]

LEMMA FewerIncludes ==
  ASSUME NEW inc, NEW d, NEW n \in Nat, NEW s, IsPart(inc, d, n + 1, s)
  PROVE  Ends(inc, d, n + 1, s)
<1>1. PICK g \in [0 .. n + 1 -> Seq(Doc)] :
        /\ g[0] = << >> /\ s = g[n + 1]
        /\ \A i \in 1 .. n + 1 : g[i] = g[i - 1] \o Unfold(inc)[inc[d][i]]
  BY DEF IsPart
<1> DEFINE h == [i \in 0 .. n |-> g[i]]
<1>2. n \in 0 .. n + 1 /\ n + 1 \in 1 .. n + 1 /\ (n + 1) - 1 = n /\ \A i \in 0 .. n : i \in 0 .. n + 1
  OBVIOUS
<1>3. h \in [0 .. n -> Seq(Doc)] /\ h[0] = << >> /\ g[n] = h[n]
  BY <1>1, <1>2
<1>4. \A i \in 1 .. n : h[i] = h[i - 1] \o Unfold(inc)[inc[d][i]]
  <2> SUFFICES ASSUME NEW i \in 1 .. n PROVE h[i] = h[i - 1] \o Unfold(inc)[inc[d][i]]
    OBVIOUS
  <2>1. i \in 1 .. n + 1 /\ i \in 0 .. n /\ i - 1 \in 0 .. n
    OBVIOUS
  <2> QED
    BY <1>1, <2>1
<1> HIDE DEF h
<1>5. IsPart(inc, d, n, g[n])
  BY <1>3, <1>4 DEF IsPart
<1>6. g[n] \in Seq(Doc) /\ s = g[n] \o Unfold(inc)[inc[d][n + 1]]
  BY <1>1, <1>2
<1> QED
  BY <1>2, <1>5, <1>6 DEF Ends

-----------------------------------------------------------------------------
(* What MergeOrder has done: st is its stack, sn the files it has seen and *)
(* o their order.                                                          *)

WalkTypes(inc, st, sn, o) ==
  /\ inc \in [Doc -> Seq(Doc)]
  /\ Len(st) \in Nat /\ DOMAIN st = 1 .. Len(st)
  /\ \A n \in 1 .. Len(st) : st[n].doc \in Doc /\ st[n].left \in 0 .. Len(inc[st[n].doc])
  /\ o \in Seq(Doc) /\ ToSet(o) = sn

(* Only files that can be reached are seen, and the includes of a file are *)
(* seen unless there is a call for it that has them left.                  *)
Explored(inc, st, sn, o) ==
  /\ o # << >> /\ o[Len(o)] = Root
  /\ sn \subseteq Reachable(inc) /\ Root \in sn
  /\ \A n \in 1 .. Len(st) :
       /\ st[n].doc \in sn
       /\ \A i \in st[n].left + 1 .. Len(inc[st[n].doc]) : inc[st[n].doc][i] \in sn
  /\ \A d \in sn : ToSet(inc[d]) \subseteq sn \/ \E n \in 1 .. Len(st) : st[n].doc = d

(* The call on top takes its next include, and returns. *)
TopIn(st) == st[Len(st)]
NextOf(inc, st) == inc[TopIn(st).doc][TopIn(st).left]
TakesNext(st, st2) ==
  /\ Len(st) > 0 /\ TopIn(st).left > 0
  /\ \A n \in 1 .. Len(st) - 1 : st2[n] = st[n]
  /\ st2[Len(st)].doc = TopIn(st).doc /\ st2[Len(st)].left = TopIn(st).left - 1
Calls(inc, st, st2) ==
  /\ TakesNext(st, st2)
  /\ Len(st2) = Len(st) + 1
  /\ TopIn(st2).doc = NextOf(inc, st) /\ TopIn(st2).left = Len(inc[NextOf(inc, st)])
Returns(st, st2) ==
  /\ Len(st) > 0 /\ TopIn(st).left = 0
  /\ Len(st2) = Len(st) - 1
  /\ \A n \in 1 .. Len(st) - 1 : st2[n] = st[n]

LEMMA NextIsFile ==
  ASSUME NEW inc, NEW st, NEW sn, NEW o, WalkTypes(inc, st, sn, o), Len(st) > 0, TopIn(st).left > 0
  PROVE  /\ TopIn(st).doc \in Doc /\ TopIn(st).left \in 1 .. Len(inc[TopIn(st).doc])
         /\ NextOf(inc, st) \in ToSet(inc[TopIn(st).doc]) /\ NextOf(inc, st) \in Doc
<1>1. TopIn(st).doc \in Doc /\ TopIn(st).left \in 0 .. Len(inc[TopIn(st).doc])
  BY DEF WalkTypes, TopIn
<1>2. inc[TopIn(st).doc] \in Seq(Doc)
  BY <1>1 DEF WalkTypes
<1>3. /\ TopIn(st).left \in 1 .. Len(inc[TopIn(st).doc])
      /\ DOMAIN inc[TopIn(st).doc] = 1 .. Len(inc[TopIn(st).doc])
  BY <1>1, <1>2, LenProperties
<1> QED
  BY <1>1, <1>2, <1>3, ElementOfSeq DEF NextOf, ToSet

(* After a step the includes of the calls that stay are as before, and the *)
(* one that was taken is seen.                                             *)
LEMMA TakenIsSeen ==
  ASSUME NEW inc, NEW st, NEW sn, NEW o, WalkTypes(inc, st, sn, o), Explored(inc, st, sn, o),
         NEW st2, TakesNext(st, st2), NEW sn2, sn \subseteq sn2, NextOf(inc, st) \in sn2,
         NEW n \in 1 .. Len(st)
  PROVE  /\ st2[n].doc = st[n].doc /\ st2[n].doc \in sn2
         /\ \A i \in st2[n].left + 1 .. Len(inc[st2[n].doc]) : inc[st2[n].doc][i] \in sn2
<1>1. CASE n < Len(st)
  <2>1. n \in 1 .. Len(st) - 1
    BY <1>1 DEF WalkTypes
  <2> QED
    BY <2>1 DEF TakesNext, Explored
<1>2. CASE n = Len(st)
  <2>1. /\ st2[n].doc = st[n].doc /\ st2[n].left = st[n].left - 1
        /\ st[n].left \in 1 .. Len(inc[st[n].doc]) /\ Len(inc[st[n].doc]) \in Nat
    <3>1. inc[st[n].doc] \in Seq(Doc)
      BY DEF WalkTypes
    <3> QED
      BY <1>2, <3>1, NextIsFile, LenProperties DEF TakesNext, TopIn
  <2>2. \A i \in st2[n].left + 1 .. Len(inc[st2[n].doc]) :
          i = st[n].left \/ i \in st[n].left + 1 .. Len(inc[st[n].doc])
    BY <2>1
  <2>3. inc[st[n].doc][st[n].left] \in sn2
    BY <1>2 DEF NextOf, TopIn
  <2> QED
    BY <2>1, <2>2, <2>3 DEF Explored
<1>3. Len(st) \in Nat
  BY DEF WalkTypes
<1> QED
  BY <1>1, <1>2, <1>3

LEMMA ExploredSkip ==
  ASSUME NEW inc, NEW st, NEW sn, NEW o, WalkTypes(inc, st, sn, o), Explored(inc, st, sn, o),
         NEW st2, TakesNext(st, st2), Len(st2) = Len(st), NextOf(inc, st) \in sn
  PROVE  Explored(inc, st2, sn, o)
<1>1. \A n \in 1 .. Len(st) :
        /\ st2[n].doc = st[n].doc /\ st2[n].doc \in sn
        /\ \A i \in st2[n].left + 1 .. Len(inc[st2[n].doc]) : inc[st2[n].doc][i] \in sn
  BY TakenIsSeen
<1> QED
  BY <1>1 DEF Explored

(* What a file put before the others does to their order. *)
LEMMA FileBefore ==
  ASSUME NEW o \in Seq(Doc), NEW d \in Doc
  PROVE  /\ <<d>> \o o \in Seq(Doc) /\ Len(<<d>> \o o) = Len(o) + 1
         /\ (<<d>> \o o)[1] = d /\ \A n \in 1 .. Len(o) : (<<d>> \o o)[n + 1] = o[n]
         /\ ToSet(<<d>> \o o) = {d} \cup ToSet(o)
<1> DEFINE p == <<d>> \o o
<1>1. <<d>> \in Seq(Doc) /\ Len(<<d>>) = 1 /\ <<d>>[1] = d /\ Len(o) \in Nat /\ DOMAIN o = 1 .. Len(o)
  BY LenProperties
<1>2. /\ p \in Seq(Doc) /\ Len(p) = 1 + Len(o)
      /\ \A i \in 1 .. 1 : p[i] = <<d>>[i]
      /\ \A i \in 1 + 1 .. 1 + Len(o) : p[i] = o[i - 1]
  BY <1>1, ConcatProperties
<1> HIDE DEF p
<1>3. p[1] = d
  BY <1>1, <1>2
<1>4. \A n \in 1 .. Len(o) : p[n + 1] = o[n]
  <2> SUFFICES ASSUME NEW n \in 1 .. Len(o) PROVE p[n + 1] = o[n]
    OBVIOUS
  <2>1. n + 1 \in 1 + 1 .. 1 + Len(o) /\ (n + 1) - 1 = n
    BY <1>1
  <2> QED
    BY <1>2, <2>1
<1>5. DOMAIN p = 1 .. Len(o) + 1
  BY <1>1, <1>2, LenProperties
<1>6. ToSet(p) = {d} \cup ToSet(o)
  <2>1. \A n \in 1 .. Len(o) + 1 : n = 1 \/ \E m \in 1 .. Len(o) : n = m + 1
    <3> SUFFICES ASSUME NEW n \in 1 .. Len(o) + 1, n # 1 PROVE \E m \in 1 .. Len(o) : n = m + 1
      OBVIOUS
    <3>1. n - 1 \in 1 .. Len(o) /\ n = (n - 1) + 1
      BY <1>1
    <3> QED
      BY <3>1
  <2>2. 1 \in 1 .. Len(o) + 1 /\ \A m \in 1 .. Len(o) : m + 1 \in 1 .. Len(o) + 1
    BY <1>1
  <2> QED
    BY SMTT(30), <1>1, <1>3, <1>4, <1>5, <2>1, <2>2 DEF ToSet
<1> QED
  BY <1>2, <1>3, <1>4, <1>6 DEF p

LEMMA ExploredCall ==
  ASSUME NEW inc, NEW st, NEW sn, NEW o, WalkTypes(inc, st, sn, o), Explored(inc, st, sn, o),
         NEW st2, Calls(inc, st, st2)
  PROVE  Explored(inc, st2, sn \cup {NextOf(inc, st)}, <<NextOf(inc, st)>> \o o)
<1> DEFINE d == NextOf(inc, st)
           sn2 == sn \cup {d}
           o2 == <<d>> \o o
<1>1. d \in ToSet(inc[TopIn(st).doc]) /\ d \in Doc /\ o \in Seq(Doc) /\ Len(st) \in Nat /\ Len(st) > 0
  BY NextIsFile DEF Calls, TakesNext, WalkTypes
<1>2. o2 # << >> /\ o2[Len(o2)] = Root
  <2>1. Len(o) \in 1 .. Len(o) /\ Len(o2) = Len(o) + 1 /\ o2[Len(o) + 1] = o[Len(o)]
    BY <1>1, FileBefore, EmptySeq, LenProperties DEF Explored
  <2>2. Len(o2) # 0
    BY <2>1
  <2> QED
    BY <2>1, <2>2, EmptySeq DEF Explored
<1>3. sn2 \subseteq Reachable(inc) /\ Root \in sn2
  <2>1. TopIn(st).doc \in Reachable(inc)
    BY <1>1 DEF Explored, TopIn
  <2>2. d \in Reachable(inc)
    BY <1>1, <2>1, ReachableClosed DEF WalkTypes
  <2> QED
    BY <2>2 DEF Explored
<1>4. \A n \in 1 .. Len(st) :
        /\ st2[n].doc = st[n].doc /\ st2[n].doc \in sn2
        /\ \A i \in st2[n].left + 1 .. Len(inc[st2[n].doc]) : inc[st2[n].doc][i] \in sn2
  BY ZenonT(40), TakenIsSeen DEF Calls
<1>5. /\ st2[Len(st) + 1].doc = d /\ st2[Len(st) + 1].left = Len(inc[d]) /\ Len(st2) = Len(st) + 1
      /\ Len(inc[d]) \in Nat
  BY <1>1, LenProperties DEF Calls, TopIn, WalkTypes
<1>6. \A n \in 1 .. Len(st2) : n = Len(st) + 1 \/ n \in 1 .. Len(st)
  BY <1>1, <1>5
<1>7. Len(st) + 1 \in 1 .. Len(st2) /\ \A n \in 1 .. Len(st) : n \in 1 .. Len(st2)
  BY <1>1, <1>5
<1>8. ~ \E i \in Len(inc[d]) + 1 .. Len(inc[d]) : TRUE
  BY <1>5
<1> HIDE DEF d, o2
<1>9. \A n \in 1 .. Len(st2) :
       /\ st2[n].doc \in sn2
       /\ \A i \in st2[n].left + 1 .. Len(inc[st2[n].doc]) : inc[st2[n].doc][i] \in sn2
  BY <1>4, <1>5, <1>6, <1>8
<1>10. \A e \in sn2 : ToSet(inc[e]) \subseteq sn2 \/ \E n \in 1 .. Len(st2) : st2[n].doc = e
  BY <1>4, <1>5, <1>7 DEF Explored
<1> QED
  BY <1>2, <1>3, <1>9, <1>10 DEF Explored, d, o2

LEMMA ExploredReturn ==
  ASSUME NEW inc, NEW st, NEW sn, NEW o, WalkTypes(inc, st, sn, o), Explored(inc, st, sn, o),
         NEW st2, Returns(st, st2)
  PROVE  Explored(inc, st2, sn, o)
<1>1. Len(st) \in Nat /\ Len(st) > 0 /\ Len(st2) = Len(st) - 1
  BY DEF WalkTypes, Returns
<1>2. \A n \in 1 .. Len(st2) : n \in 1 .. Len(st) /\ st2[n] = st[n]
  BY <1>1 DEF Returns
<1>3. ASSUME NEW d \in sn
      PROVE  ToSet(inc[d]) \subseteq sn \/ \E n \in 1 .. Len(st2) : st2[n].doc = d
  <2>1. CASE d = TopIn(st).doc
    <3>1. /\ Len(st) \in 1 .. Len(st) /\ st[Len(st)].left = 0 /\ st[Len(st)].doc = d
          /\ inc[d] \in Seq(Doc)
      BY <1>1, <2>1 DEF Returns, TopIn, WalkTypes
    <3>2. \A i \in 0 + 1 .. Len(inc[d]) : inc[d][i] \in sn
      BY <3>1 DEF Explored
    <3>3. DOMAIN inc[d] = 1 .. Len(inc[d])
      BY <3>1, LenProperties
    <3> QED
      BY <3>2, <3>3 DEF ToSet
  <2>2. CASE d # TopIn(st).doc
    <3>1. ASSUME NEW n \in 1 .. Len(st), st[n].doc = d
          PROVE  n \in 1 .. Len(st2) /\ st2[n].doc = d
      <4>1. n # Len(st)
        BY <2>2, <3>1 DEF TopIn
      <4>2. n \in 1 .. Len(st2)
        BY <1>1, <4>1
      <4> QED
        BY <1>2, <3>1, <4>2
    <3> QED
      BY <3>1 DEF Explored
  <2> QED
    BY <2>1, <2>2
<1> QED
  BY <1>2, <1>3 DEF Explored

-----------------------------------------------------------------------------
(* What is left to read and what was read.                                 *)

(* o has the entries of s by their last places. *)
ByLastPlace(o, s) ==
  /\ \A n \in 1 .. Len(o) : \E j \in 1 .. Len(s) : s[j] = o[n]
  /\ \A m, n \in 1 .. Len(o) : m < n =>
       \E j \in 1 .. Len(s) : s[j] = o[n] /\ \A i \in 1 .. Len(s) : s[i] = o[m] => i < j

(* Files that were read before do not count. *)
LEMMA LastPlaceSkip ==
  ASSUME NEW o, NEW s \in Seq(Doc), ByLastPlace(o, s), NEW t \in Seq(Doc)
  PROVE  ByLastPlace(o, t \o s)
<1> DEFINE u == t \o s
<1>1. Len(s) \in Nat /\ Len(t) \in Nat
  BY LenProperties
<1>2. /\ u \in Seq(Doc) /\ Len(u) = Len(t) + Len(s)
      /\ \A i \in Len(t) + 1 .. Len(t) + Len(s) : u[i] = s[i - Len(t)]
  BY ConcatProperties
<1> HIDE DEF u
<1>3. ASSUME NEW j \in 1 .. Len(s)
      PROVE  Len(t) + j \in 1 .. Len(u) /\ u[Len(t) + j] = s[j]
  <2>1. Len(t) + j \in Len(t) + 1 .. Len(t) + Len(s) /\ (Len(t) + j) - Len(t) = j
    BY <1>1
  <2> QED
    BY SMTT(30), <1>1, <1>2, <2>1
<1>4. \A i \in 1 .. Len(u) : i <= Len(t) \/ \E j \in 1 .. Len(s) : i = Len(t) + j
  <2> SUFFICES ASSUME NEW i \in 1 .. Len(u), ~(i <= Len(t)) PROVE \E j \in 1 .. Len(s) : i = Len(t) + j
    OBVIOUS
  <2>1. i - Len(t) \in 1 .. Len(s) /\ i = Len(t) + (i - Len(t))
    BY <1>1, <1>2
  <2> QED
    BY <2>1
<1>5. \A n \in 1 .. Len(o) : \E j \in 1 .. Len(u) : u[j] = o[n]
  BY <1>3 DEF ByLastPlace
<1>6. ASSUME NEW m \in 1 .. Len(o), NEW n \in 1 .. Len(o), m < n
      PROVE  \E j \in 1 .. Len(u) : u[j] = o[n] /\ \A i \in 1 .. Len(u) : u[i] = o[m] => i < j
  <2>1. PICK j \in 1 .. Len(s) : s[j] = o[n] /\ \A i \in 1 .. Len(s) : s[i] = o[m] => i < j
    BY <1>6 DEF ByLastPlace
  <2>2. ASSUME NEW i \in 1 .. Len(u), u[i] = o[m]
        PROVE  i < Len(t) + j
    <3>1. CASE i <= Len(t)
      BY <1>1, <3>1
    <3>2. ASSUME NEW l \in 1 .. Len(s), i = Len(t) + l
          PROVE  i < Len(t) + j
      <4>1. s[l] = o[m]
        BY <1>3, <2>2, <3>2
      <4>2. l < j
        BY <2>1, <4>1
      <4> QED
        BY <1>1, <3>2, <4>2
    <3> QED
      BY <1>4, <3>1, <3>2
  <2> QED
    BY <1>3, <2>1, <2>2
<1> QED
  BY <1>5, <1>6 DEF ByLastPlace, u

(* A file that is read for the first time comes first. *)
LEMMA LastPlaceCall ==
  ASSUME NEW o \in Seq(Doc), NEW s \in Seq(Doc), ByLastPlace(o, s),
         NEW d \in Doc, d \notin ToSet(s)
  PROVE  ByLastPlace(<<d>> \o o, <<d>> \o s)
<1> DEFINE p == <<d>> \o o
           u == <<d>> \o s
<1>1. Len(s) \in Nat /\ Len(o) \in Nat /\ DOMAIN s = 1 .. Len(s)
  BY LenProperties
<1>2. Len(p) = Len(o) + 1 /\ p[1] = d /\ \A n \in 1 .. Len(o) : p[n + 1] = o[n]
  BY FileBefore
<1>3. Len(u) = Len(s) + 1 /\ u[1] = d /\ \A n \in 1 .. Len(s) : u[n + 1] = s[n]
  BY FileBefore
<1> HIDE DEF p, u
<1>4. 1 \in 1 .. Len(u) /\ \A n \in 1 .. Len(s) : n + 1 \in 1 .. Len(u)
  BY <1>1, <1>3
<1>5. \A n \in 1 .. Len(p) : n = 1 \/ \E m \in 1 .. Len(o) : n = m + 1
  <2> SUFFICES ASSUME NEW n \in 1 .. Len(p), n # 1 PROVE \E m \in 1 .. Len(o) : n = m + 1
    OBVIOUS
  <2>1. n - 1 \in 1 .. Len(o) /\ n = (n - 1) + 1
    BY <1>1, <1>2
  <2> QED
    BY <2>1
<1>6. \A n \in 1 .. Len(u) : n = 1 \/ \E m \in 1 .. Len(s) : n = m + 1
  <2> SUFFICES ASSUME NEW n \in 1 .. Len(u), n # 1 PROVE \E m \in 1 .. Len(s) : n = m + 1
    OBVIOUS
  <2>1. n - 1 \in 1 .. Len(s) /\ n = (n - 1) + 1
    BY <1>1, <1>3
  <2> QED
    BY <2>1
<1>7. ASSUME NEW n \in 1 .. Len(p)
      PROVE  \E j \in 1 .. Len(u) : u[j] = p[n]
  <2>1. CASE n = 1
    BY <1>2, <1>3, <1>4, <2>1
  <2>2. ASSUME NEW m \in 1 .. Len(o), n = m + 1
        PROVE  \E j \in 1 .. Len(u) : u[j] = p[n]
    <3>1. PICK j \in 1 .. Len(s) : s[j] = o[m]
      BY DEF ByLastPlace
    <3> QED
      BY <1>2, <1>3, <1>4, <2>2, <3>1
  <2> QED
    BY <1>5, <2>1, <2>2
<1>8. ASSUME NEW m \in 1 .. Len(p), NEW n \in 1 .. Len(p), m < n
      PROVE  \E j \in 1 .. Len(u) : u[j] = p[n] /\ \A i \in 1 .. Len(u) : u[i] = p[m] => i < j
  <2>1. PICK l \in 1 .. Len(o) : n = l + 1
    BY <1>5, <1>8
  <2>2. CASE m = 1
    <3>1. PICK j \in 1 .. Len(s) : s[j] = o[l]
      BY DEF ByLastPlace
    <3>2. \A i \in 1 .. Len(u) : u[i] = p[m] => i < j + 1
      <4> SUFFICES ASSUME NEW i \in 1 .. Len(u), u[i] = d PROVE i = 1
        BY <1>1, <1>2, <2>2
      <4>1. ASSUME NEW h \in 1 .. Len(s), i = h + 1 PROVE FALSE
        <5>1. s[h] = d
          BY <1>3, <4>1
        <5> QED
          BY <1>1, <5>1 DEF ToSet
      <4> QED
        BY <1>6, <4>1
    <3> QED
      BY <1>2, <1>3, <1>4, <2>1, <3>1, <3>2
  <2>3. ASSUME NEW k \in 1 .. Len(o), m = k + 1
        PROVE  \E j \in 1 .. Len(u) : u[j] = p[n] /\ \A i \in 1 .. Len(u) : u[i] = p[m] => i < j
    <3>1. k < l
      BY <1>8, <2>1, <2>3
    <3>2. PICK j \in 1 .. Len(s) : s[j] = o[l] /\ \A i \in 1 .. Len(s) : s[i] = o[k] => i < j
      BY <3>1 DEF ByLastPlace
    <3>3. ASSUME NEW i \in 1 .. Len(u), u[i] = o[k]
          PROVE  i < j + 1
      <4>1. CASE i = 1
        BY <4>1
      <4>2. ASSUME NEW h \in 1 .. Len(s), i = h + 1 PROVE i < j + 1
        <5>1. s[h] = o[k]
          BY <1>3, <3>3, <4>2
        <5>2. h < j
          BY <3>2, <5>1
        <5> QED
          BY <4>2, <5>2
      <4> QED
        BY <1>6, <4>1, <4>2
    <3> QED
      BY <1>2, <1>3, <1>4, <2>1, <2>3, <3>2, <3>3
  <2> QED
    BY <1>5, <2>2, <2>3
<1> QED
  BY <1>7, <1>8 DEF ByLastPlace, p, u

LEMMA Regroup == \A a, b, c \in Seq(Doc) : a \o (b \o c) = (a \o b) \o c
BY SMTT(30), ConcatAssociative

LEMMA RegroupPair ==
  ASSUME NEW a \in Seq(Doc), NEW b \in Seq(Doc), NEW c \in Seq(Doc), NEW pair, pair = b \o c
  PROVE  a \o pair = (a \o b) \o c
BY Regroup, Zenon

(* Each call is for an include of the one below it. *)
Chain(inc, st) == \A n \in 1 .. Len(st) - 1 : st[n + 1].doc \in ToSet(inc[st[n].doc])

(* Files whose call has returned are read with all they include.           *)
ReadWhole(inc, st, sn) ==
  \A d \in sn : (\E n \in 1 .. Len(st) : st[n].doc = d) \/ Unfold(inc)[d] \in Seq(sn)

(* acc[n] is what the first n calls have left to read. *)
Adds(inc, call, before, after) ==
  \E s : IsPart(inc, call.doc, call.left, s) /\ after = before \o s
LeftToRead(inc, st, acc) ==
  /\ acc \in [0 .. Len(st) -> Seq(Doc)] /\ acc[0] = << >>
  /\ \A n \in 1 .. Len(st) : Adds(inc, st[n], acc[n - 1], acc[n])

(* What is left to read and what was read make up the unfolding, and the   *)
(* order is that of the last places in what was read.                      *)
HalfRead(inc, st, sn, o) ==
  \E acc, read :
    /\ LeftToRead(inc, st, acc)
    /\ read \in Seq(sn)
    /\ acc[Len(st)] \o read = Unfold(inc)[Root]
    /\ ByLastPlace(o, read)

(* Without a cycle no file includes one that has a call below.             *)
LEMMA NotBelow ==
  ASSUME NEW inc, NEW st, NEW sn, NEW o, WalkTypes(inc, st, sn, o), Explored(inc, st, sn, o),
         ~Cyclic(inc), Chain(inc, st), Len(st) > 0, NEW e \in ToSet(inc[TopIn(st).doc])
  PROVE  \A m \in 1 .. Len(st) : st[m].doc # e
<1> SUFFICES ASSUME NEW m \in 1 .. Len(st), st[m].doc = e PROVE FALSE
  OBVIOUS
<1>1. Len(st) \in Nat
  BY DEF WalkTypes
<1> DEFINE c == { st[n].doc : n \in m .. Len(st) }
<1>2. c \in SUBSET Reachable(inc) /\ c # {}
  <2>1. \A n \in m .. Len(st) : st[n].doc \in Reachable(inc)
    BY <1>1 DEF Explored
  <2>2. m \in m .. Len(st)
    BY <1>1
  <2> QED
    BY <2>1, <2>2
<1>3. ASSUME NEW n \in m .. Len(st)
      PROVE  ToSet(inc[st[n].doc]) \cap c # {}
  <2>1. CASE n = Len(st)
    <3>1. m \in m .. Len(st)
      BY <1>1
    <3>2. e \in c
      BY <3>1
    <3> QED
      BY <2>1, <3>2 DEF TopIn
  <2>2. CASE n # Len(st)
    <3>1. n \in 1 .. Len(st) - 1 /\ n + 1 \in m .. Len(st)
      BY <1>1, <2>2
    <3>2. st[n + 1].doc \in ToSet(inc[st[n].doc])
      BY <3>1 DEF Chain
    <3> QED
      BY <3>1, <3>2
  <2> QED
    BY <2>1, <2>2
<1>4. \A d \in c : ToSet(inc[d]) \cap c # {}
  BY <1>3
<1> HIDE DEF c
<1> QED
  BY <1>2, <1>4 DEF Cyclic

(* The next include of the call on top is the end of what is left.         *)
LEMMA LastOfTheRest ==
  ASSUME NEW inc, NEW st, NEW sn, NEW o, WalkTypes(inc, st, sn, o), Explored(inc, st, sn, o),
         ~Cyclic(inc), Len(st) > 0, TopIn(st).left > 0, NEW acc, LeftToRead(inc, st, acc)
  PROVE  \E t \in Seq(Doc) :
           /\ IsPart(inc, TopIn(st).doc, TopIn(st).left - 1, t)
           /\ acc[Len(st) - 1] \in Seq(Doc)
           /\ Unfold(inc)[NextOf(inc, st)] \in Seq(Doc)
           /\ acc[Len(st)] = (acc[Len(st) - 1] \o t) \o Unfold(inc)[NextOf(inc, st)]
<1> DEFINE k == Len(st)
           top == st[k]
           u == Unfold(inc)[NextOf(inc, st)]
<1>1. k \in Nat /\ k \in 1 .. k /\ k - 1 \in 0 .. k
  BY DEF WalkTypes
<1>2. top.doc \in Doc /\ top.left \in Nat \ {0} /\ NextOf(inc, st) = inc[top.doc][top.left]
      /\ inc \in [Doc -> Seq(Doc)]
  <2>1. top.doc \in Doc /\ top.left \in Nat
    BY <1>1 DEF WalkTypes
  <2> QED
    BY <2>1 DEF TopIn, NextOf, WalkTypes
<1>3. PICK s : IsPart(inc, top.doc, top.left, s) /\ acc[k] = acc[k - 1] \o s
  BY <1>1 DEF LeftToRead, Adds
<1> HIDE DEF top
<1>4. PICK t \in Seq(Doc) : IsPart(inc, top.doc, top.left - 1, t) /\ s = t \o u
  <2>1. PICK n \in Nat : top.left = n + 1
    <3>1. top.left - 1 \in Nat /\ top.left = (top.left - 1) + 1
      BY <1>2
    <3> QED
      BY <3>1
  <2>2. IsPart(inc, top.doc, n + 1, s)
    BY <1>3, <2>1
  <2>3. Ends(inc, top.doc, n + 1, s)
    BY <2>2, FewerIncludes
  <2>4. Ends(inc, top.doc, top.left, s)
    BY <2>1, <2>3
  <2> QED
    BY <1>2, <2>4 DEF Ends
<1>5. acc[k - 1] \in Seq(Doc)
  BY <1>1 DEF LeftToRead
<1>6. u \in Seq(Doc)
  <2>1. NextOf(inc, st) \in ToSet(inc[top.doc]) /\ top.doc \in Reachable(inc)
    <3>1. NextOf(inc, st) \in ToSet(inc[TopIn(st).doc])
      BY NextIsFile
    <3> QED
      BY <1>1, <3>1 DEF Explored, TopIn, top
  <2>2. NextOf(inc, st) \in Reachable(inc)
    BY <1>2, <2>1, ReachableClosed
  <2> QED
    BY <1>2, <2>2, UnfoldTyped
<1> DEFINE below == acc[k - 1]
<1>7. below \o (t \o u) = (below \o t) \o u
  <2>1. below \in Seq(Doc) /\ t \in Seq(Doc) /\ u \in Seq(Doc)
    BY <1>5, <1>6
  <2> HIDE DEF u, below
  <2> QED
    BY <2>1, RegroupPair, SMTT(20)
<1> QED
  BY <1>3, <1>4, <1>5, <1>6, <1>7 DEF TopIn, top

LEMMA HalfReadSkip ==
  ASSUME NEW inc, NEW st, NEW sn, NEW o, WalkTypes(inc, st, sn, o), Explored(inc, st, sn, o),
         ~Cyclic(inc), Chain(inc, st), ReadWhole(inc, st, sn), HalfRead(inc, st, sn, o),
         NEW st2, TakesNext(st, st2), Len(st2) = Len(st), NextOf(inc, st) \in sn
  PROVE  HalfRead(inc, st2, sn, o)
<1> DEFINE k == Len(st)
           u == Unfold(inc)[NextOf(inc, st)]
<1>1. k \in Nat /\ k > 0 /\ TopIn(st).left > 0 /\ sn \subseteq Doc /\ inc \in [Doc -> Seq(Doc)]
  BY ReachableClosed DEF WalkTypes, TakesNext, Explored
<1>2. PICK acc, read : /\ LeftToRead(inc, st, acc) /\ read \in Seq(sn)
                       /\ acc[k] \o read = Unfold(inc)[Root] /\ ByLastPlace(o, read)
  BY DEF HalfRead
<1>3. PICK t \in Seq(Doc) : /\ IsPart(inc, TopIn(st).doc, TopIn(st).left - 1, t)
                            /\ acc[k - 1] \in Seq(Doc) /\ u \in Seq(Doc)
                            /\ acc[k] = (acc[k - 1] \o t) \o u
  BY <1>1, <1>2, LastOfTheRest
<1>4. u \in Seq(sn)
  <2>1. \A n \in 1 .. k : st[n].doc # NextOf(inc, st)
    BY <1>1, NextIsFile, NotBelow
  <2> QED
    BY <2>1 DEF ReadWhole
<1> DEFINE part == acc[k - 1] \o t
           acc2 == [n \in 0 .. k |-> IF n = k THEN part ELSE acc[n]]
<1>5. read \in Seq(Doc) /\ part \in Seq(Doc)
  BY <1>1, <1>2, <1>3, SeqMonotonic, ConcatProperties
<1>6. /\ acc2 \in [0 .. k -> Seq(Doc)] /\ acc2[0] = << >> /\ acc2[k] = part
      /\ \A n \in 0 .. k - 1 : acc2[n] = acc[n]
  BY SMTT(30), <1>1, <1>2, <1>5 DEF LeftToRead
<1> HIDE DEF acc2, u
<1>7. LeftToRead(inc, st2, acc2)
  <2>1. ASSUME NEW n \in 1 .. k - 1 PROVE Adds(inc, st2[n], acc2[n - 1], acc2[n])
    <3>1. n \in 1 .. k /\ n \in 0 .. k - 1 /\ n - 1 \in 0 .. k - 1
      BY <1>1
    <3>2. st2[n] = st[n] /\ acc2[n] = acc[n] /\ acc2[n - 1] = acc[n - 1]
      BY <1>6, <3>1 DEF TakesNext
    <3> QED
      BY <1>2, <3>1, <3>2 DEF LeftToRead
  <2>2. Adds(inc, st2[k], acc2[k - 1], acc2[k])
    <3>1. k - 1 \in 0 .. k - 1
      BY <1>1
    <3> QED
      BY <1>3, <1>6, <3>1 DEF TakesNext, Adds
  <2>3. \A n \in 1 .. k : n = k \/ n \in 1 .. k - 1
    BY <1>1
  <2> QED
    BY <1>6, <2>1, <2>2, <2>3 DEF LeftToRead
<1>8. part \o (u \o read) = Unfold(inc)[Root]
  <2>1. acc[k] = part \o u
    BY <1>3
  <2>2. part \in Seq(Doc) /\ u \in Seq(Doc) /\ read \in Seq(Doc)
    BY <1>3, <1>5
  <2> HIDE DEF part
  <2>3. part \o (u \o read) = (part \o u) \o read
    BY SMTT(30), <2>2, RegroupPair
  <2> QED
    BY <1>2, <2>1, <2>3
<1>9. u \o read \in Seq(sn)
  BY <1>2, <1>4, ConcatProperties
<1>10. ByLastPlace(o, u \o read)
  BY <1>2, <1>3, <1>5, LastPlaceSkip
<1> QED
  BY <1>6, <1>7, <1>8, <1>9, <1>10 DEF HalfRead

LEMMA HalfReadCall ==
  ASSUME NEW inc, NEW st, NEW sn, NEW o, WalkTypes(inc, st, sn, o), Explored(inc, st, sn, o),
         ~Cyclic(inc), HalfRead(inc, st, sn, o),
         NEW st2, Calls(inc, st, st2), NextOf(inc, st) \notin sn
  PROVE  HalfRead(inc, st2, sn \cup {NextOf(inc, st)}, <<NextOf(inc, st)>> \o o)
<1> DEFINE k == Len(st)
           e == NextOf(inc, st)
           u == Unfold(inc)[e]
           sn2 == sn \cup {e}
<1>1. /\ k \in Nat /\ k > 0 /\ TopIn(st).left > 0 /\ sn \subseteq Doc /\ inc \in [Doc -> Seq(Doc)]
      /\ o \in Seq(Doc)
  BY ReachableClosed DEF WalkTypes, TakesNext, Calls, Explored
<1>2. PICK acc, read : /\ LeftToRead(inc, st, acc) /\ read \in Seq(sn)
                       /\ acc[k] \o read = Unfold(inc)[Root] /\ ByLastPlace(o, read)
  BY DEF HalfRead
<1>3. PICK t \in Seq(Doc) : /\ IsPart(inc, TopIn(st).doc, TopIn(st).left - 1, t)
                            /\ acc[k - 1] \in Seq(Doc) /\ u \in Seq(Doc)
                            /\ acc[k] = (acc[k - 1] \o t) \o u
  BY <1>1, <1>2, LastOfTheRest
<1>4. e \in Reachable(inc) /\ e \in Doc
  <2>1. e \in ToSet(inc[TopIn(st).doc]) /\ TopIn(st).doc \in sn /\ e \in Doc
    <3>1. k \in 1 .. k
      BY <1>1
    <3> QED
      BY <1>1, <3>1, NextIsFile DEF Explored, TopIn
  <2> QED
    BY <1>1, <2>1, ReachableClosed DEF Explored
<1>5. PICK q \in Seq(Doc) : IsPart(inc, e, Len(inc[e]), q) /\ u = q \o <<e>>
  BY <1>1, <1>4, UnfoldParts
<1> DEFINE part == acc[k - 1] \o t
           more == part \o q
           acc2 == [n \in 0 .. k + 1 |-> IF n = k THEN part ELSE IF n = k + 1 THEN more ELSE acc[n]]
<1>6. /\ read \in Seq(Doc) /\ part \in Seq(Doc) /\ more \in Seq(Doc) /\ <<e>> \in Seq(Doc)
      /\ <<e>> \in Seq(sn2)
  BY <1>1, <1>2, <1>3, <1>4, <1>5, SeqMonotonic, ConcatProperties
<1> HIDE DEF u, more, e
<1>7. /\ acc2 \in [0 .. k + 1 -> Seq(Doc)] /\ acc2[0] = << >> /\ acc2[k] = part /\ acc2[k + 1] = more
      /\ \A n \in 0 .. k - 1 : acc2[n] = acc[n]
  <2>1. acc \in [0 .. k -> Seq(Doc)] /\ acc[0] = << >>
    BY <1>2 DEF LeftToRead
  <2> HIDE DEF part
  <2>2. \A n \in 0 .. k + 1 : n = k \/ n = k + 1 \/ n \in 0 .. k
    BY <1>1
  <2> QED
    BY <1>1, <1>6, <2>1, <2>2
<1> HIDE DEF acc2
<1>8. Len(st2) = k + 1 /\ st2[k + 1].doc = e /\ st2[k + 1].left = Len(inc[e]) /\ TakesNext(st, st2)
  BY DEF Calls, TopIn, e
<1>9. LeftToRead(inc, st2, acc2)
  <2>1. ASSUME NEW n \in 1 .. k - 1 PROVE Adds(inc, st2[n], acc2[n - 1], acc2[n])
    <3>1. n \in 1 .. k /\ n \in 0 .. k - 1 /\ n - 1 \in 0 .. k - 1
      BY <1>1
    <3>2. st2[n] = st[n] /\ acc2[n] = acc[n] /\ acc2[n - 1] = acc[n - 1]
      BY <1>7, <1>8, <3>1 DEF TakesNext
    <3> QED
      BY <1>2, <3>1, <3>2 DEF LeftToRead
  <2>2. Adds(inc, st2[k], acc2[k - 1], acc2[k])
    <3>1. k - 1 \in 0 .. k - 1
      BY <1>1
    <3> QED
      BY <1>3, <1>7, <1>8, <3>1 DEF TakesNext, Adds
  <2>3. Adds(inc, st2[k + 1], acc2[(k + 1) - 1], acc2[k + 1])
    <3>1. (k + 1) - 1 = k
      BY <1>1
    <3> QED
      BY <1>5, <1>7, <1>8, <3>1 DEF Adds, more
  <2>4. \A n \in 1 .. k + 1 : n = k \/ n = k + 1 \/ n \in 1 .. k - 1
    BY <1>1
  <2> QED
    BY <1>7, <1>8, <2>1, <2>2, <2>3, <2>4 DEF LeftToRead
<1>10. more \o (<<e>> \o read) = Unfold(inc)[Root]
  <2>1. PICK one \in Seq(Doc) : one = <<e>>
    BY <1>6
  <2> HIDE DEF part
  <2>2. part \o u = (part \o q) \o one
    BY <1>5, <1>6, <2>1, RegroupPair, SMTT(20)
  <2>3. more \o (one \o read) = (more \o one) \o read
    BY SMTT(30), <1>6, RegroupPair
  <2>4. acc[k] = part \o u
    BY <1>3 DEF part
  <2> QED
    BY <1>2, <2>1, <2>2, <2>3, <2>4 DEF more
<1>11. <<e>> \o read \in Seq(sn2)
  <2>1. sn \subseteq sn2
    OBVIOUS
  <2>2. read \in Seq(sn2)
    BY <1>2, <2>1, SeqMonotonic
  <2> QED
    BY <1>6, <2>2, ConcatProperties
<1>12. ByLastPlace(<<e>> \o o, <<e>> \o read)
  <2>1. e \notin ToSet(read)
    BY <1>2, ElementOfSeq DEF ToSet, e
  <2> QED
    BY <1>1, <1>2, <1>4, <1>6, <2>1, LastPlaceCall
<1> QED
  BY <1>7, <1>8, <1>9, <1>10, <1>11, <1>12 DEF HalfRead, e

LEMMA HalfReadReturn ==
  ASSUME NEW inc, NEW st, NEW sn, NEW o, WalkTypes(inc, st, sn, o), HalfRead(inc, st, sn, o),
         NEW st2, Returns(st, st2)
  PROVE  HalfRead(inc, st2, sn, o)
<1> DEFINE k == Len(st)
<1>1. k \in Nat /\ k > 0 /\ Len(st2) = k - 1 /\ st[k].left = 0
  BY DEF WalkTypes, Returns, TopIn
<1>2. PICK acc, read : /\ LeftToRead(inc, st, acc) /\ read \in Seq(sn)
                       /\ acc[k] \o read = Unfold(inc)[Root] /\ ByLastPlace(o, read)
  BY DEF HalfRead
<1> DEFINE acc2 == [n \in 0 .. k - 1 |-> acc[n]]
<1>3. /\ k \in 1 .. k /\ k - 1 \in 0 .. k
      /\ \A n \in 0 .. k - 1 : n \in 0 .. k
  BY <1>1
<1>4. acc[k] = acc[k - 1]
  <2>1. PICK s : IsPart(inc, st[k].doc, st[k].left, s) /\ acc[k] = acc[k - 1] \o s
    BY <1>2, <1>3 DEF LeftToRead, Adds
  <2>2. s = << >>
    BY <1>1, <2>1, NoIncludes
  <2>3. acc[k - 1] \in Seq(Doc)
    BY <1>2, <1>3 DEF LeftToRead
  <2> QED
    BY <2>1, <2>2, <2>3, ConcatEmptySeq
<1>5. /\ acc2 \in [0 .. k - 1 -> Seq(Doc)] /\ acc2[0] = << >> /\ acc2[k - 1] = acc[k]
      /\ \A n \in 0 .. k - 1 : acc2[n] = acc[n]
  BY <1>1, <1>2, <1>3, <1>4 DEF LeftToRead
<1> HIDE DEF acc2
<1>6. LeftToRead(inc, st2, acc2)
  <2>1. ASSUME NEW n \in 1 .. k - 1 PROVE Adds(inc, st2[n], acc2[n - 1], acc2[n])
    <3>1. n \in 1 .. k /\ n \in 0 .. k - 1 /\ n - 1 \in 0 .. k - 1
      BY <1>1
    <3>2. st2[n] = st[n] /\ acc2[n] = acc[n] /\ acc2[n - 1] = acc[n - 1]
      BY <1>5, <3>1 DEF Returns
    <3> QED
      BY <1>2, <3>1, <3>2 DEF LeftToRead
  <2> QED
    BY <1>1, <1>5, <2>1 DEF LeftToRead
<1> QED
  BY <1>1, <1>2, <1>5, <1>6 DEF HalfRead

LEMMA ChainKept ==
  ASSUME NEW inc, NEW st, NEW sn, NEW o, WalkTypes(inc, st, sn, o), Chain(inc, st), NEW st2
  PROVE  /\ TakesNext(st, st2) /\ Len(st2) = Len(st) => Chain(inc, st2)
         /\ Calls(inc, st, st2) => Chain(inc, st2)
         /\ Returns(st, st2) => Chain(inc, st2)
<1>1. Len(st) \in Nat
  BY DEF WalkTypes
<1>2. ASSUME TakesNext(st, st2), NEW n \in 1 .. Len(st) - 1
      PROVE  st2[n + 1].doc \in ToSet(inc[st2[n].doc])
  <2>1. n + 1 \in 1 .. Len(st) /\ n \in 1 .. Len(st)
    BY <1>1
  <2>2. \A i \in 1 .. Len(st) : st2[i].doc = st[i].doc
    <3>1. \A i \in 1 .. Len(st) : i = Len(st) \/ i \in 1 .. Len(st) - 1
      BY <1>1
    <3> QED
      BY <1>2, <3>1 DEF TakesNext, TopIn
  <2> QED
    BY <2>1, <2>2 DEF Chain
<1>3. ASSUME Calls(inc, st, st2), NEW n \in 1 .. Len(st2) - 1
      PROVE  st2[n + 1].doc \in ToSet(inc[st2[n].doc])
  <2>1. TakesNext(st, st2) /\ Len(st2) = Len(st) + 1
    BY <1>3 DEF Calls
  <2>2. CASE n = Len(st)
    <3>1. Len(st) > 0 /\ TopIn(st).left > 0
      BY <2>1 DEF TakesNext
    <3>2. NextOf(inc, st) \in ToSet(inc[TopIn(st).doc])
      BY <3>1, NextIsFile
    <3> QED
      BY <1>3, <2>1, <2>2, <3>2 DEF Calls, TakesNext, TopIn
  <2>3. CASE n # Len(st)
    <3>1. n \in 1 .. Len(st) - 1
      BY <1>1, <2>1, <2>3
    <3> QED
      BY <1>2, <2>1, <3>1
  <2> QED
    BY <2>2, <2>3
<1>4. ASSUME Returns(st, st2), NEW n \in 1 .. Len(st2) - 1
      PROVE  st2[n + 1].doc \in ToSet(inc[st2[n].doc])
  <2>1. n \in 1 .. Len(st) - 1 /\ n + 1 \in 1 .. Len(st) - 1
    BY <1>1, <1>4 DEF Returns
  <2> QED
    BY <1>4, <2>1 DEF Returns, Chain
<1> QED
  BY <1>2, <1>3, <1>4 DEF Chain

LEMMA ReadWholeStays ==
  ASSUME NEW inc, NEW st, NEW sn, NEW o, WalkTypes(inc, st, sn, o), ReadWhole(inc, st, sn),
         NEW st2, TakesNext(st, st2)
  PROVE  /\ Len(st2) = Len(st) => ReadWhole(inc, st2, sn)
         /\ Calls(inc, st, st2) => ReadWhole(inc, st2, sn \cup {NextOf(inc, st)})
<1>1. Len(st) \in Nat
  BY DEF WalkTypes
<1>2. \A n \in 1 .. Len(st) : st2[n].doc = st[n].doc
  <2>1. \A i \in 1 .. Len(st) : i = Len(st) \/ i \in 1 .. Len(st) - 1
    BY <1>1
  <2> QED
    BY <2>1 DEF TakesNext, TopIn
<1>3. ASSUME Calls(inc, st, st2)
      PROVE  ReadWhole(inc, st2, sn \cup {NextOf(inc, st)})
  <2> DEFINE e == NextOf(inc, st)
             sn2 == sn \cup {e}
  <2>1. Len(st2) = Len(st) + 1 /\ st2[Len(st2)].doc = e
    BY <1>3 DEF Calls, TopIn
  <2>2. Len(st2) \in 1 .. Len(st2) /\ \A n \in 1 .. Len(st) : n \in 1 .. Len(st2)
    BY <1>1, <2>1
  <2>3. ASSUME NEW d \in sn
        PROVE  (\E n \in 1 .. Len(st2) : st2[n].doc = d) \/ Unfold(inc)[d] \in Seq(sn2)
    <3>1. sn \subseteq sn2
      OBVIOUS
    <3>2. Unfold(inc)[d] \in Seq(sn) => Unfold(inc)[d] \in Seq(sn2)
      BY <3>1, SeqMonotonic
    <3> QED
      BY <1>2, <2>2, <3>2 DEF ReadWhole
  <2> QED
    BY <2>1, <2>2, <2>3 DEF ReadWhole
<1> QED
  BY <1>2, <1>3 DEF ReadWhole

(* What the call that returns is for was read with all it includes. *)
LEMMA ReadWholeReturn ==
  ASSUME NEW inc, NEW st, NEW sn, NEW o, WalkTypes(inc, st, sn, o), Explored(inc, st, sn, o),
         ~Cyclic(inc), Chain(inc, st), ReadWhole(inc, st, sn), NEW st2, Returns(st, st2)
  PROVE  ReadWhole(inc, st2, sn)
<1>1. Len(st) \in Nat /\ Len(st) > 0 /\ Len(st2) = Len(st) - 1
  BY DEF WalkTypes, Returns
<1>2. ASSUME NEW d \in sn, d = TopIn(st).doc
      PROVE  Unfold(inc)[d] \in Seq(sn)
  <2>1. /\ Len(st) \in 1 .. Len(st) /\ st[Len(st)].left = 0 /\ st[Len(st)].doc = d
        /\ inc \in [Doc -> Seq(Doc)] /\ inc[d] \in Seq(Doc) /\ d \in Reachable(inc)
    BY <1>1, <1>2 DEF Returns, TopIn, WalkTypes, Explored
  <2>2. \A i \in 0 + 1 .. Len(inc[d]) : inc[d][i] \in sn
    BY <2>1 DEF Explored
  <2>3. DOMAIN inc[d] = 1 .. Len(inc[d])
    BY <2>1, LenProperties
  <2>4. ToSet(inc[d]) \subseteq sn
    BY <2>2, <2>3 DEF ToSet
  <2>5. ASSUME NEW e \in ToSet(inc[d])
        PROVE  Unfold(inc)[e] \in Seq(sn)
    <3>1. e \in ToSet(inc[TopIn(st).doc])
      BY <1>2
    <3>2. \A m \in 1 .. Len(st) : st[m].doc # e
      BY <1>1, <3>1, NotBelow
    <3> QED
      BY <2>4, <3>2 DEF ReadWhole
  <2> QED
    BY <2>1, <2>5, UnfoldWithin
<1>3. ASSUME NEW d \in sn, d # TopIn(st).doc, NEW n \in 1 .. Len(st), st[n].doc = d
      PROVE  n \in 1 .. Len(st2) /\ st2[n].doc = d
  <2>1. n # Len(st)
    BY <1>3 DEF TopIn
  <2>2. n \in 1 .. Len(st) - 1
    BY <1>1, <2>1
  <2> QED
    BY <1>1, <1>3, <2>2 DEF Returns
<1> QED
  BY <1>2, <1>3 DEF ReadWhole

(* How far the walk has come, whatever the cycles, and without a cycle. *)
ReadSoFar(inc, st, sn, o) ==
  /\ Explored(inc, st, sn, o)
  /\ ~Cyclic(inc) => Chain(inc, st) /\ ReadWhole(inc, st, sn) /\ HalfRead(inc, st, sn, o)

LEMMA ReadSkip ==
  ASSUME NEW inc, NEW st, NEW sn, NEW o, WalkTypes(inc, st, sn, o), ReadSoFar(inc, st, sn, o),
         NEW st2, TakesNext(st, st2), Len(st2) = Len(st), NextOf(inc, st) \in sn
  PROVE  ReadSoFar(inc, st2, sn, o)
<1>1. Explored(inc, st, sn, o)
  BY DEF ReadSoFar
<1>2. Explored(inc, st2, sn, o)
  BY <1>1, ExploredSkip
<1>3. ASSUME ~Cyclic(inc)
      PROVE  Chain(inc, st2) /\ ReadWhole(inc, st2, sn) /\ HalfRead(inc, st2, sn, o)
  <2>1. Chain(inc, st) /\ ReadWhole(inc, st, sn) /\ HalfRead(inc, st, sn, o)
    BY <1>3 DEF ReadSoFar
  <2>2. Chain(inc, st2)
    BY <2>1, ChainKept
  <2>3. ReadWhole(inc, st2, sn)
    BY <2>1, ReadWholeStays
  <2>4. HalfRead(inc, st2, sn, o)
    BY <1>1, <1>3, <2>1, HalfReadSkip
  <2> QED
    BY <2>2, <2>3, <2>4
<1> QED
  BY <1>2, <1>3 DEF ReadSoFar

LEMMA ReadCall ==
  ASSUME NEW inc, NEW st, NEW sn, NEW o, WalkTypes(inc, st, sn, o), ReadSoFar(inc, st, sn, o),
         NEW st2, Calls(inc, st, st2), NextOf(inc, st) \notin sn
  PROVE  ReadSoFar(inc, st2, sn \cup {NextOf(inc, st)}, <<NextOf(inc, st)>> \o o)
<1> DEFINE sn2 == sn \cup {NextOf(inc, st)}
           o2 == <<NextOf(inc, st)>> \o o
<1>1. Explored(inc, st, sn, o) /\ TakesNext(st, st2)
  BY DEF ReadSoFar, Calls
<1>2. Explored(inc, st2, sn2, o2)
  BY <1>1, ExploredCall
<1>3. ASSUME ~Cyclic(inc)
      PROVE  Chain(inc, st2) /\ ReadWhole(inc, st2, sn2) /\ HalfRead(inc, st2, sn2, o2)
  <2>1. Chain(inc, st) /\ ReadWhole(inc, st, sn) /\ HalfRead(inc, st, sn, o)
    BY <1>3 DEF ReadSoFar
  <2>2. Chain(inc, st2)
    BY <2>1, ChainKept
  <2>3. ReadWhole(inc, st2, sn2)
    BY <1>1, <2>1, ReadWholeStays
  <2>4. HalfRead(inc, st2, sn2, o2)
    BY <1>1, <1>3, <2>1, HalfReadCall
  <2> QED
    BY <2>2, <2>3, <2>4
<1> QED
  BY <1>2, <1>3 DEF ReadSoFar

LEMMA ReadReturn ==
  ASSUME NEW inc, NEW st, NEW sn, NEW o, WalkTypes(inc, st, sn, o), ReadSoFar(inc, st, sn, o),
         NEW st2, Returns(st, st2)
  PROVE  ReadSoFar(inc, st2, sn, o)
<1>1. Explored(inc, st, sn, o)
  BY DEF ReadSoFar
<1>2. Explored(inc, st2, sn, o)
  BY <1>1, ExploredReturn
<1>3. ASSUME ~Cyclic(inc)
      PROVE  Chain(inc, st2) /\ ReadWhole(inc, st2, sn) /\ HalfRead(inc, st2, sn, o)
  <2>1. Chain(inc, st) /\ ReadWhole(inc, st, sn) /\ HalfRead(inc, st, sn, o)
    BY <1>3 DEF ReadSoFar
  <2>2. Chain(inc, st2)
    BY <2>1, ChainKept
  <2>3. ReadWhole(inc, st2, sn)
    BY <1>1, <1>3, <2>1, ReadWholeReturn
  <2>4. HalfRead(inc, st2, sn, o)
    BY <2>1, HalfReadReturn
  <2> QED
    BY <2>2, <2>3, <2>4
<1> QED
  BY <1>2, <1>3 DEF ReadSoFar

-----------------------------------------------------------------------------
(* The walk of the specification is such a walk. *)

ReadNow == ReadSoFar(pipeline.includes, stack, seen, order)

LEMMA WalkTyping ==
  ASSUME TypeOK
  PROVE  WalkTypes(pipeline.includes, stack, seen, order)
<1>1. /\ stack \in Seq([doc : Doc, left : Nat])
      /\ \A n \in DOMAIN stack : stack[n].left <= Len(Includes(stack[n].doc))
      /\ order \in Seq(Doc) /\ ToSet(order) = seen
  BY DEF TypeOK
<1>2. pipeline.includes \in [Doc -> Seq(Doc)]
  BY DEF TypeOK, IsPipeline
<1>3. Len(stack) \in Nat /\ DOMAIN stack = 1 .. Len(stack)
  BY <1>1, LenProperties
<1>4. ASSUME NEW n \in 1 .. Len(stack)
      PROVE  stack[n].doc \in Doc /\ stack[n].left \in 0 .. Len(pipeline.includes[stack[n].doc])
  <2>1. stack[n] \in [doc : Doc, left : Nat] /\ stack[n].left <= Len(Includes(stack[n].doc))
    BY <1>1, <1>3, ElementOfSeq
  <2>2. stack[n].doc \in Doc /\ stack[n].left \in Nat
    BY <2>1
  <2>3. Len(pipeline.includes[stack[n].doc]) \in Nat
    BY <1>2, <2>2, LenProperties
  <2> QED
    BY <2>1, <2>2, <2>3 DEF Includes
<1> QED
  BY <1>1, <1>2, <1>3, <1>4 DEF WalkTypes

LEMMA ReadInit == Init => ReadNow
<1> SUFFICES ASSUME Init PROVE ReadNow
  OBVIOUS
<1> DEFINE inc == pipeline.includes
<1>1. TypeOK
  BY InitIInv DEF IInv
<1>2. inc \in [Doc -> Seq(Doc)] /\ Root \in Doc
  BY <1>1, MergeAssumption DEF TypeOK, IsPipeline, MergeAssumption
<1>3. /\ Len(stack) = 1 /\ stack[1].doc = Root /\ stack[1].left = Len(inc[Root])
      /\ seen = {Root} /\ order = <<Root>> /\ Len(order) = 1 /\ order[1] = Root
      /\ Len(inc[Root]) \in Nat
  BY <1>2, LenProperties DEF Init, Includes
<1>4. Root \in Reachable(inc)
  BY <1>2, ReachableClosed
<1> HIDE DEF inc
<1>5. Explored(inc, stack, seen, order)
  <2>1. \A i \in Len(inc[Root]) + 1 .. Len(inc[Root]) : FALSE
    BY <1>3
  <2>2. order # << >>
    BY <1>3, EmptySeq
  <2>3. 1 \in 1 .. 1 /\ \A n \in 1 .. 1 : n = 1
    OBVIOUS
  <2> QED
    BY <1>3, <1>4, <2>1, <2>2, <2>3 DEF Explored
<1>6. ASSUME ~Cyclic(inc)
      PROVE  Chain(inc, stack) /\ ReadWhole(inc, stack, seen) /\ HalfRead(inc, stack, seen, order)
  <2>1. Chain(inc, stack)
    BY <1>3 DEF Chain
  <2>2. ReadWhole(inc, stack, seen)
    <3>1. 1 \in 1 .. Len(stack)
      BY <1>3
    <3> QED
      BY <1>3, <3>1 DEF ReadWhole
  <2>3. PICK s \in Seq(Doc) : IsPart(inc, Root, Len(inc[Root]), s) /\ Unfold(inc)[Root] = s \o <<Root>>
    BY <1>2, <1>4, <1>6, UnfoldParts
  <2> DEFINE acc == [n \in 0 .. 1 |-> IF n = 0 THEN << >> ELSE s]
  <2>4. acc \in [0 .. 1 -> Seq(Doc)] /\ acc[0] = << >> /\ acc[1] = s
    <3>1. << >> \in Seq(Doc)
      OBVIOUS
    <3> QED
      BY <3>1
  <2> HIDE DEF acc
  <2>5. LeftToRead(inc, stack, acc)
    <3>1. acc[1] = acc[0] \o s
      BY <2>4, ConcatEmptySeq
    <3>2. Adds(inc, stack[1], acc[0], acc[1])
      BY <1>3, <2>3, <2>4, <3>1 DEF Adds
    <3>3. \A n \in 1 .. 1 : n = 1 /\ n - 1 = 0
      OBVIOUS
    <3> QED
      BY <1>3, <2>4, <3>2, <3>3 DEF LeftToRead
  <2>6. ByLastPlace(order, <<Root>>)
    BY <1>3 DEF ByLastPlace
  <2>7. <<Root>> \in Seq(seen)
    BY <1>3
  <2> QED
    BY <1>3, <2>1, <2>2, <2>3, <2>4, <2>5, <2>6, <2>7 DEF HalfRead
<1> QED
  BY <1>5, <1>6 DEF ReadNow, ReadSoFar, inc

LEMMA FrontIs ==
  ASSUME NEW S, NEW s \in Seq(S), Len(s) \in Nat \ {0}
  PROVE  /\ Front(s) \in Seq(S) /\ Len(Front(s)) = Len(s) - 1
         /\ \A n \in 1 .. Len(s) - 1 : Front(s)[n] = s[n]
<1> DEFINE k == Len(s) - 1
<1>1. 1 \in Int /\ k \in Nat /\ \A n \in 1 .. k : s[n] \in S
  BY ElementOfSeq
<1>2. Front(s) = SubSeq(s, 1, k)
  BY DEF Front
<1> HIDE DEF k
<1>3. /\ SubSeq(s, 1, k) \in Seq(S)
      /\ Len(SubSeq(s, 1, k)) = IF 1 <= k THEN k - 1 + 1 ELSE 0
      /\ \A n \in 1 .. k - 1 + 1 : SubSeq(s, 1, k)[n] = s[1 + n - 1]
  BY <1>1, SubSeqProperties
<1>4. Len(SubSeq(s, 1, k)) = k
  BY <1>1, <1>3
<1>5. ASSUME NEW n \in 1 .. k PROVE SubSeq(s, 1, k)[n] = s[n]
  <2>1. n \in 1 .. k - 1 + 1 /\ 1 + n - 1 = n
    BY <1>1
  <2> QED
    BY <1>3, <2>1
<1> QED
  BY <1>2, <1>3, <1>4, <1>5 DEF k

(* The call on top goes on with its next include. *)
LEMMA ContinueTakes ==
  ASSUME TypeOK, stack # << >>, Caller.left > 0
  PROVE  /\ TakesNext(stack, Continue) /\ Len(Continue) = Len(stack)
         /\ Continue \in Seq([doc : Doc, left : Int])
         /\ Caller = TopIn(stack) /\ NextInclude = NextOf(pipeline.includes, stack)
<1> DEFINE Frame == [doc : Doc, left : Int]
           k == Len(stack)
           next == [Caller EXCEPT !.left = @ - 1]
<1>1. stack \in Seq(Frame) /\ Caller \in Frame
  <2>1. stack \in Seq([doc : Doc, left : Nat]) /\ Caller \in [doc : Doc, left : Nat]
    BY StackTyped DEF TypeOK
  <2>2. [doc : Doc, left : Nat] \subseteq Frame
    OBVIOUS
  <2> QED
    BY <2>1, <2>2, SeqMonotonic
<1>2. k \in Nat \ {0} /\ \A n \in 1 .. k : stack[n] \in Frame
  BY <1>1, EmptySeq, LenProperties, ElementOfSeq
<1>3. next \in Frame /\ next.doc = Caller.doc /\ next.left = Caller.left - 1
  BY <1>1
<1>4. Caller = stack[k]
  BY DEF Caller, Last
<1> HIDE DEF Frame, next
<1>5. /\ Front(stack) \in Seq(Frame) /\ Len(Front(stack)) = k - 1
      /\ \A n \in 1 .. k - 1 : Front(stack)[n] = stack[n]
  BY <1>1, <1>2, FrontIs
<1>6. /\ Continue \in Seq(Frame) /\ Len(Continue) = k
      /\ \A n \in 1 .. k - 1 : Continue[n] = Front(stack)[n]
      /\ Continue[k] = next
  <2>1. <<next>> \in Seq(Frame) /\ Len(<<next>>) = 1 /\ <<next>>[1] = next
    BY <1>3
  <2>2. Continue = Front(stack) \o <<next>>
    BY DEF Continue, next
  <2>3. /\ Continue \in Seq(Frame) /\ Len(Continue) = (k - 1) + 1
        /\ \A n \in 1 .. k - 1 : Continue[n] = Front(stack)[n]
        /\ \A n \in (k - 1) + 1 .. (k - 1) + 1 : Continue[n] = <<next>>[n - (k - 1)]
    BY <1>5, <2>1, <2>2, ConcatProperties
  <2>4. (k - 1) + 1 = k /\ k \in (k - 1) + 1 .. (k - 1) + 1 /\ k - (k - 1) = 1
    BY <1>2
  <2> QED
    BY <2>1, <2>3, <2>4
<1>7. TakesNext(stack, Continue)
  BY <1>2, <1>3, <1>4, <1>5, <1>6 DEF TakesNext, TopIn
<1> QED
  BY <1>4, <1>6, <1>7 DEF TopIn, NextOf, NextInclude, Includes, Frame

LEMMA ReadStep == TypeOK /\ ReadNow /\ [Next]_vars => ReadNow'
<1> SUFFICES ASSUME TypeOK, ReadNow, [Next]_vars PROVE ReadNow'
  OBVIOUS
<1> DEFINE inc == pipeline.includes
<1>1. WalkTypes(inc, stack, seen, order) /\ ReadSoFar(inc, stack, seen, order)
  BY WalkTyping DEF ReadNow
<1>2. CASE Walk
  <2>1. stack # << >> /\ Caller.left > 0 /\ pipeline' = pipeline
    BY <1>2 DEF Walk
  <2>2. /\ TakesNext(stack, Continue) /\ Len(Continue) = Len(stack)
        /\ Continue \in Seq([doc : Doc, left : Int])
        /\ NextInclude = NextOf(inc, stack)
    BY <2>1, ContinueTakes
  <2>3. CASE Visited(NextInclude)
    <3>1. stack' = Continue /\ seen' = seen /\ order' = order
      BY <1>2, <2>3 DEF Walk
    <3>2. NextOf(inc, stack) \in seen
      BY <2>2, <2>3 DEF Visited
    <3>3. ReadSoFar(inc, stack', seen, order)
      BY <1>1, <2>2, <3>1, <3>2, ReadSkip
    <3> QED
      BY <2>1, <3>1, <3>3 DEF ReadNow
  <2>4. CASE ~Visited(NextInclude)
    <3> DEFINE e == NextOf(inc, stack)
               frame == [doc |-> e, left |-> Len(inc[e])]
    <3>1. stack' = Append(Continue, frame) /\ seen' = seen \cup {e} /\ order' = <<e>> \o order
      BY <1>2, <2>2, <2>4 DEF Walk, Includes
    <3>2. e \notin seen
      BY <2>2, <2>4 DEF Visited
    <3>3. Len(stack) \in Nat /\ frame.doc = e /\ frame.left = Len(inc[e])
      BY <1>1 DEF WalkTypes
    <3> HIDE DEF e, frame
    <3>4. /\ Len(stack') = Len(stack) + 1 /\ stack'[Len(stack) + 1] = frame
          /\ \A n \in 1 .. Len(stack) : stack'[n] = Continue[n]
      BY <2>2, <3>1, <3>3, AppendProperties
    <3>5. TakesNext(stack, stack')
      <4>1. \A n \in 1 .. Len(stack) - 1 : n \in 1 .. Len(stack)
        BY <3>3
      <4>2. Len(stack) > 0 => Len(stack) \in 1 .. Len(stack)
        BY <3>3
      <4> QED
        BY <2>2, <3>4, <4>1, <4>2 DEF TakesNext
    <3>6. Calls(inc, stack, stack')
      BY <3>3, <3>4, <3>5 DEF Calls, TopIn, e
    <3>7. ReadSoFar(inc, stack', seen \cup {e}, <<e>> \o order)
      BY <1>1, <3>2, <3>6, ReadCall DEF e
    <3> QED
      BY <2>1, <3>1, <3>7 DEF ReadNow
  <2> QED
    BY <2>3, <2>4
<1>3. CASE Return
  <2>1. stack # << >> /\ Caller.left = 0 /\ stack' = Front(stack)
    BY <1>3 DEF Return
  <2>2. pipeline' = pipeline /\ seen' = seen /\ order' = order
    BY <1>3 DEF Return
  <2>3. Returns(stack, stack')
    <3> DEFINE Frame == [doc : Doc, left : Nat]
               k == Len(stack)
    <3>1. stack \in Seq(Frame)
      BY DEF TypeOK
    <3> HIDE DEF Frame
    <3>2. k \in Nat \ {0}
      BY <2>1, <3>1, EmptySeq, LenProperties
    <3>3. Len(Front(stack)) = k - 1 /\ \A n \in 1 .. k - 1 : Front(stack)[n] = stack[n]
      BY <3>1, <3>2, FrontIs
    <3> QED
      BY <2>1, <3>2, <3>3 DEF Returns, TopIn, Caller, Last
  <2>4. ReadSoFar(inc, stack', seen, order)
    BY <1>1, <2>3, ReadReturn
  <2> QED
    BY <2>2, <2>4 DEF ReadNow
<1>4. CASE MergeFile \/ Finish \/ UNCHANGED vars
  <2>1. UNCHANGED <<pipeline, stack, seen, order>>
    BY <1>4 DEF MergeFile, Finish, vars
  <2> QED
    BY <1>1, <2>1 DEF ReadNow
<1> QED
  BY <1>2, <1>3, <1>4 DEF Next

(* The last place is the greatest. *)
LEMMA LastPlaceIs ==
  ASSUME NEW s \in Seq(Doc), NEW d, NEW j \in 1 .. Len(s), s[j] = d
  PROVE  /\ LastPlace(s, d) \in 1 .. Len(s) /\ s[LastPlace(s, d)] = d
         /\ \A i \in 1 .. Len(s) : s[i] = d => i <= LastPlace(s, d)
<1> DEFINE S == { n \in DOMAIN s : s[n] = d }
<1>1. Len(s) \in Nat /\ DOMAIN s = 1 .. Len(s)
  BY LenProperties
<1>2. S \subseteq 0 .. Len(s) /\ S # {}
  BY <1>1
<1>3. Max(S) \in S /\ \A y \in S : Max(S) >= y
  <2> HIDE DEF S
  <2> QED
    BY <1>1, <1>2, MaxOfBounded
<1>4. LastPlace(s, d) = Max(S)
  BY DEF LastPlace
<1> QED
  BY <1>1, <1>3, <1>4

(* Without a call left the walk has seen what can be reached, and without  *)
(* a cycle the files are in the order of their last places.                *)
LEMMA WalkedRight == TypeOK /\ ReadNow => LastInclusionCounts
<1> SUFFICES ASSUME TypeOK, ReadNow, stack = << >> PROVE LastInclusionCounts
  BY DEF LastInclusionCounts, Walked
<1> DEFINE inc == pipeline.includes
<1>1. WalkTypes(inc, stack, seen, order) /\ ReadSoFar(inc, stack, seen, order)
  BY WalkTyping DEF ReadNow
<1>2. Len(stack) = 0
  OBVIOUS
<1>3. /\ inc \in [Doc -> Seq(Doc)] /\ order \in Seq(Doc) /\ ToSet(order) = seen
      /\ Explored(inc, stack, seen, order)
  BY <1>1 DEF WalkTypes, ReadSoFar
<1> HIDE DEF inc
<1>4. ToSet(order) = Reachable(inc) /\ Last(order) = Root
  <2>1. seen \subseteq Reachable(inc) /\ Root \in seen /\ Last(order) = Root
    BY <1>3 DEF Explored, Last
  <2>2. \A d \in seen : ToSet(inc[d]) \subseteq seen
    <3>1. ~ \E n \in 1 .. Len(stack) : TRUE
      BY <1>2
    <3> QED
      BY <1>3, <3>1 DEF Explored
  <2>3. seen \in SUBSET Doc
    BY <1>3, <2>1, ReachableClosed
  <2>4. Reachable(inc) \subseteq seen
    BY <1>3, <2>1, <2>2, <2>3, ReachableClosed
  <2> QED
    BY <1>3, <2>1, <2>4
<1>5. ASSUME ~Cyclic(inc), NEW d \in ToSet(order), NEW e \in ToSet(order)
      PROVE  LET s == Unfold(inc)[Root] IN Place(d) < Place(e) <=> LastPlace(s, d) < LastPlace(s, e)
  <2> DEFINE s == Unfold(inc)[Root]
  <2>1. s \in Seq(Doc)
    BY <1>3, <1>5, UnfoldTyped, ReachableClosed
  <2>2. ByLastPlace(order, s)
    <3>1. HalfRead(inc, stack, seen, order)
      BY <1>1, <1>5 DEF ReadSoFar, inc
    <3>2. PICK acc, read : /\ LeftToRead(inc, stack, acc) /\ read \in Seq(seen)
                           /\ acc[Len(stack)] \o read = s /\ ByLastPlace(order, read)
      BY <3>1 DEF HalfRead
    <3>3. acc[Len(stack)] = << >>
      BY <1>2, <3>2 DEF LeftToRead
    <3>4. read = s
      BY <3>2, <3>3, ConcatEmptySeq
    <3> QED
      BY <3>2, <3>4
  <2> HIDE DEF s
  <2>3. /\ Len(order) \in Nat /\ DOMAIN order = 1 .. Len(order)
        /\ \A m, n \in 1 .. Len(order) : order[m] = order[n] => m = n
    BY Typed
  <2>4. Len(s) \in Nat
    BY <2>1, LenProperties
  <2>5. PICK m \in 1 .. Len(order) : order[m] = d
    BY <2>3 DEF ToSet
  <2>6. PICK n \in 1 .. Len(order) : order[n] = e
    BY <2>3 DEF ToSet
  <2>7. Place(d) = m /\ Place(e) = n
    BY <2>3, <2>5, <2>6 DEF Place
  <2>8. PICK i \in 1 .. Len(s) : s[i] = d
    BY <2>2, <2>5 DEF ByLastPlace
  <2>9. PICK j \in 1 .. Len(s) : s[j] = e
    BY <2>2, <2>6 DEF ByLastPlace
  <2>10. /\ LastPlace(s, d) \in 1 .. Len(s) /\ s[LastPlace(s, d)] = d
         /\ \A h \in 1 .. Len(s) : s[h] = d => h <= LastPlace(s, d)
    BY <2>1, <2>8, LastPlaceIs
  <2>11. /\ LastPlace(s, e) \in 1 .. Len(s) /\ s[LastPlace(s, e)] = e
         /\ \A h \in 1 .. Len(s) : s[h] = e => h <= LastPlace(s, e)
    BY <2>1, <2>9, LastPlaceIs
  <2>12. m < n => LastPlace(s, d) < LastPlace(s, e)
    <3> SUFFICES ASSUME m < n PROVE LastPlace(s, d) < LastPlace(s, e)
      OBVIOUS
    <3>1. PICK l \in 1 .. Len(s) : s[l] = e /\ \A h \in 1 .. Len(s) : s[h] = d => h < l
      BY <2>2, <2>5, <2>6 DEF ByLastPlace
    <3>2. LastPlace(s, d) < l /\ l <= LastPlace(s, e)
      BY <2>10, <2>11, <3>1
    <3> QED
      BY <2>10, <2>11, <3>2
  <2>13. n < m => LastPlace(s, e) < LastPlace(s, d)
    <3> SUFFICES ASSUME n < m PROVE LastPlace(s, e) < LastPlace(s, d)
      OBVIOUS
    <3>1. PICK l \in 1 .. Len(s) : s[l] = d /\ \A h \in 1 .. Len(s) : s[h] = e => h < l
      BY <2>2, <2>5, <2>6 DEF ByLastPlace
    <3>2. LastPlace(s, e) < l /\ l <= LastPlace(s, d)
      BY <2>10, <2>11, <3>1
    <3> QED
      BY <2>10, <2>11, <3>2
  <2>14. m = n => LastPlace(s, d) = LastPlace(s, e)
    BY <2>5, <2>6
  <2>15. m < n \/ n < m \/ m = n
    BY <2>3
  <2> QED
    BY <2>7, <2>10, <2>11, <2>12, <2>13, <2>14, <2>15 DEF s
<1> QED
  BY <1>4, <1>5 DEF LastInclusionCounts, inc

(* MergeOrder gives the files that the root reaches, once and with the     *)
(* root last, whatever cycles there are; without a cycle, each comes where *)
(* the text with every include in its place has it last, so the later      *)
(* inclusion overrides the earlier one, as it does in GitLab.              *)
THEOREM LastIncludedWins == Spec => []LastInclusionCounts
<1>1. Init => ReadNow
  BY ReadInit
<1>2. TypeOK /\ ReadNow /\ [Next]_vars => ReadNow'
  BY ReadStep
<1>3. TypeOK /\ ReadNow => LastInclusionCounts
  BY WalkedRight
<1> QED
  BY <1>1, <1>2, <1>3, TypeCorrect, PTL DEF Spec
=============================================================================
