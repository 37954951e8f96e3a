---------------------------- MODULE MergeContext ----------------------------
(***************************************************************************)
(* MergeOrder and WithContext (internal/parser/context.go), as             *)
(* withPipelineContext (cmd/glsec/main.go) calls them for one pipeline:    *)
(* the files are put in the order in which GitLab merges them, and then    *)
(* each file gets the configuration of the others, on lines that say which *)
(* file a value is from.                                                   *)
(*                                                                         *)
(* A YAML mapping is a function from the paths it has to what is there.  A *)
(* path is a sequence of keys, and whatever has a path below it is a       *)
(* mapping.  A key and its value are one entry; a list is like a scalar,   *)
(* since both are replaced as a whole.                                     *)
(***************************************************************************)
EXTENDS Integers, SequencesExt

CONSTANTS
  Doc,          \* the files of the pipeline
  Root,         \* the one that is not included
  Path,         \* the paths that entries may have
  Value,        \* what a scalar or a list may hold
  Include,      \* the key include
  Hidden,       \* the top-level keys that start with a dot
  Reserved,     \* reservedKeys, include among them
  Keyword,      \* the keys default and workflow, of which a job can be made
  Script,       \* the key script, which makes it one
  Room,         \* -ContextLine/2: as many lines as the other files may have
  Pipelines     \* the pipelines to merge

Above(p) == { SubSeq(p, 1, n) : n \in 1 .. Len(p) - 1 }
Top(p) == p[1]

(* breaks counts the line breaks in the value. *)
Entry == [line : Int, breaks : Nat, mapping : BOOLEAN, value : Value]
IsTree(t) == t = [p \in DOMAIN t |-> t[p]] /\ DOMAIN t \subseteq Path /\ \A p \in DOMAIN t : t[p] \in Entry

(* The includes of each file, and its content. *)
IsPipeline(x) ==
  /\ x.includes \in [Doc -> Seq(Doc)]
  /\ DOMAIN x.content = Doc
  /\ \A d \in Doc :
       /\ IsTree(x.content[d])
       /\ \A p \in DOMAIN x.content[d] :
            /\ x.content[d][p].line > 0
            /\ \A q \in Above(p) : q \in DOMAIN x.content[d] /\ x.content[d][q].mapping

ASSUME MergeAssumption ==
  /\ Root \in Doc
  /\ Path \subseteq Seq(STRING) \ {<< >>}
  /\ Include \in Reserved /\ Keyword \subseteq Reserved \ {Include}
  /\ Hidden \cap Reserved = {}
  /\ Room \in Nat \ {0}
  /\ \A x \in Pipelines : IsPipeline(x)

ContextLine == -2 * Room

IsContextLine(line) == line <= -Room

VARIABLES
  pipeline,    \* Includes and the content of each Document; never written
  stack,       \* MergeOrder: the calls of walk, each with the includes it has left
  seen, order, \* MergeOrder: the same in the code, but order is already reversed
  at,          \* WithContext: the place in order of doc and of the file that is merged
  merge,       \* WithContext: the locals and the contextMerge
  out          \* withPipelineContext: what WithContext gave for each file

vars == <<pipeline, stack, seen, order, at, merge, out>>

Includes(d) == pipeline.includes[d]
Content(d) == pipeline.content[d]

(* entries is keys and values: the merged mapping so far. *)
Nothing == [entries |-> << >>, files |-> << >>, base |-> 0, last |-> 0, foreign |-> FALSE]

TypeOK ==
  /\ IsPipeline(pipeline)
  /\ stack \in Seq([doc : Doc, left : Nat])
  /\ \A n \in DOMAIN stack : stack[n].left <= Len(Includes(stack[n].doc))
  /\ seen \subseteq Doc
  /\ order \in Seq(Doc) /\ IsInjective(order) /\ ToSet(order) = seen
  /\ at \in [doc : 1 .. Len(order) + 1, file : 1 .. Len(order) + 1]
  /\ IsTree(merge.entries)
  /\ merge.files \in Seq([file : Doc, base : Nat])
  /\ merge.base \in Nat /\ merge.last \in 0 .. Room /\ merge.foreign \in BOOLEAN
  /\ DOMAIN out = { order[n] : n \in 1 .. at.doc - 1 }
  /\ \A d \in DOMAIN out :
       IsTree(out[d].entries) /\ out[d].files \in Seq([file : Doc, base : Nat])

Init ==
  /\ pipeline \in Pipelines
  /\ stack = << [doc |-> Root, left |-> Len(Includes(Root))] >>
  /\ seen = {Root}
  /\ order = <<Root>>
  /\ at = [doc |-> 1, file |-> 1]
  /\ merge = Nothing
  /\ out = << >>

-----------------------------------------------------------------------------
(* MergeOrder: the includes of a file are walked backwards, and a file is  *)
(* put before those that were there first.                                 *)
Caller == Last(stack)
NextIncludeForwards ==   \* mutant: slices.Backward is forgotten
  Includes(Caller.doc)[Len(Includes(Caller.doc)) + 1 - Caller.left]
NextInclude == Includes(Caller.doc)[Caller.left]
Continue == Front(stack) \o << [Caller EXCEPT !.left = @ - 1] >>

Visited(d) == d \in seen

Walk ==
  /\ stack # << >> /\ Caller.left > 0
  /\ IF Visited(NextInclude)
       THEN /\ stack' = Continue
            /\ UNCHANGED <<seen, order>>
       ELSE /\ stack' = Append(Continue, [doc |-> NextInclude,
                                          left |-> Len(Includes(NextInclude))])
            /\ seen' = seen \cup {NextInclude}
            /\ order' = <<NextInclude>> \o order
  /\ UNCHANGED <<pipeline, at, merge, out>>

Return ==
  /\ stack # << >> /\ Caller.left = 0
  /\ stack' = Front(stack)
  /\ UNCHANGED <<pipeline, seen, order, at, merge, out>>

-----------------------------------------------------------------------------
(* WithContext for doc, one step for each file of the pipeline.            *)
Merging == stack = << >> /\ at.doc <= Len(order)
Current == order[at.doc]
File == order[at.file]
Own == File = Current

(* markKeywordJobs, and IsKeywordJob of the key k in the file d. *)
IsKeywordJob(d, k) ==
  /\ k \in Keyword
  /\ <<k>> \in DOMAIN Content(d) /\ Content(d)[<<k>>].mapping
  /\ <<k, Script>> \in DOMAIN Content(d)

ContextKey(k) == k \in Hidden \/ (k \in Reserved /\ k # Include)

TakesGlobals(k) ==   \* mutant: not the jobs that both files set
  Own \/ (~IsKeywordJob(File, k) /\ ContextKey(k))

(* The top-level keys that the file gives to doc. *)
Takes(k) ==
  Own \/ ( /\ ~IsKeywordJob(File, k)
           /\ ContextKey(k) \/ (<<k>> \in DOMAIN Content(Current) /\ k \notin Reserved) )

Taken == { p \in DOMAIN Content(File) : Takes(Top(p)) }

(* contextMerge.line: the last line that an entry may report, and where it *)
(* goes.  The content of a block starts a line below its indicator.        *)
EndOfValue(e) == e.line + e.breaks   \* mutant: without the last line of a block
End(e) == e.line + e.breaks + 1
Fits(base, e) == e.line > 0 /\ base + End(e) < Room
Placed(base, e) == IF Fits(base, e) THEN ContextLine + base + e.line ELSE ContextLine

(* contextMerge.node and copy. *)
Node(base, e) == IF Own THEN e ELSE [e EXCEPT !.line = Placed(base, e)]
Copy(base) == [p \in Taken |-> Node(base, Content(File)[p])]

(* contextMerge.over: mappings merge at any depth and everything else is   *)
(* replaced.                                                               *)
KeptShallow(low, high) ==   \* mutant: only whole jobs are merged
  { p \in DOMAIN low : <<Top(p)>> \notin DOMAIN high }
Kept(low, high) ==
  { p \in DOMAIN low : \A q \in Above(p) \cap DOMAIN high : high[q].mapping }
Over(low, high) ==
  [p \in DOMAIN high \cup Kept(low, high) |->
     IF p \in DOMAIN high THEN high[p] ELSE low[p]]

Base == IF Own THEN merge.base ELSE merge.base + merge.last
LastLine ==
  IF Own THEN merge.last
  ELSE Max({0} \cup { End(Content(File)[p]) : p \in {r \in Taken : Fits(Base, Content(File)[r])} })

MergeFile ==
  /\ Merging /\ at.file <= Len(order)
  /\ merge' = [entries |-> Over(merge.entries, Copy(Base)),
               files   |-> IF Own THEN merge.files
                           ELSE Append(merge.files, [file |-> File, base |-> Base]),
               base    |-> Base,
               last    |-> LastLine,
               foreign |-> merge.foreign \/ (~Own /\ Taken # {})]
  /\ at' = [at EXCEPT !.file = @ + 1]
  /\ UNCHANGED <<pipeline, stack, seen, order, out>>

(* Without anything to add, doc is returned as it is. *)
Result ==
  IF merge.foreign THEN [entries |-> merge.entries, files |-> merge.files]
                   ELSE [entries |-> Content(Current), files |-> << >>]

Finish ==
  /\ Merging /\ at.file > Len(order)
  /\ out' = [d \in DOMAIN out \cup {Current} |-> IF d = Current THEN Result ELSE out[d]]
  /\ at' = [doc |-> at.doc + 1, file |-> 1]
  /\ merge' = Nothing
  /\ UNCHANGED <<pipeline, stack, seen, order>>

Next == Walk \/ Return \/ MergeFile \/ Finish

Spec == Init /\ [][Next]_vars

-----------------------------------------------------------------------------
(* Properties.                                                             *)

Walked == stack = << >>
Place(d) == CHOOSE n \in DOMAIN order : order[n] = d

(* The files that the root includes, at any depth, and that inc says       *)
(* each of them includes.                                                  *)
Reachable(inc) ==
  { d \in Doc : \A S \in SUBSET Doc :
      Root \in S /\ (\A e \in S : ToSet(inc[e]) \subseteq S) => d \in S }

Cyclic(inc) ==
  \E c \in SUBSET Reachable(inc) : c # {} /\ \A d \in c : ToSet(inc[d]) \cap c # {}

(* What GitLab reads when it puts every include in its place: a file that  *)
(* is included twice is there twice.  There is no end to it with a cycle.  *)
Unfold(inc) ==
  LET Text[d \in Reachable(inc)] == FlattenSeq([i \in DOMAIN inc[d] |-> Text[inc[d][i]]]) \o <<d>>
  IN  Text

LastPlace(s, d) == Max({ n \in DOMAIN s : s[n] = d })

(* MergeOrder gives every file that the pipeline reaches, once, whatever   *)
(* cycles the includes have, and the root comes last, since it overrides   *)
(* all others.  Without a cycle a file comes where it is included last,    *)
(* "since that time overrides the earlier ones".                           *)
LastInclusionCounts ==
  LET inc == pipeline.includes
  IN  Walked =>
        /\ ToSet(order) = Reachable(inc) /\ Last(order) = Root
        /\ ~Cyclic(inc) =>
             LET s == Unfold(inc)[Root]
             IN  \A d, e \in ToSet(order) : Place(d) < Place(e) <=> LastPlace(s, d) < LastPlace(s, e)

(* The place of the file whose entry for p GitLab uses, if there is one:   *)
(* the last that has p, unless a later one replaces a mapping above p.     *)
Winner(p) ==
  { n \in DOMAIN order :
      /\ p \in DOMAIN Content(order[n])
      /\ \A m \in n + 1 .. Len(order) :
           /\ p \notin DOMAIN Content(order[m])
           /\ \A q \in Above(p) \cap DOMAIN Content(order[m]) : Content(order[m])[q].mapping }

(* Keys that all files give to each other: an include stays with its file, *)
(* and a job named default or workflow is reported by its own file only.   *)
Shared(k) == k # Include /\ \A d \in ToSet(order) : ~IsKeywordJob(d, k)

(* Rules see of each job and of each global keyword what GitLab merges: at *)
(* any depth the last file that sets a value wins, and what it replaced is *)
(* gone.  Of the jobs, a file has only those that it defines.              *)
AsGitLabMerges ==
  \A d \in DOMAIN out : \A p \in Path :
    LET mine == ContextKey(Top(p)) \/ <<Top(p)>> \in DOMAIN Content(d)
    IN  Shared(Top(p)) =>
          /\ p \in DOMAIN out[d].entries <=> mine /\ Winner(p) # {}
          /\ \A n \in Winner(p) : mine =>
               /\ out[d].entries[p].value = Content(order[n])[p].value
               /\ out[d].entries[p].mapping = Content(order[n])[p].mapping

Reporters(p) ==
  { d \in DOMAIN out : p \in DOMAIN out[d].entries /\ ~IsContextLine(out[d].entries[p].line) }

(* "each node keeps exactly one file that reports it, including a mapping  *)
(* or a key several files set, which belongs to the last of them": what    *)
(* GitLab uses is on a line of its own in the file that sets it and on a   *)
(* context line in all others, and what another file replaced is reported  *)
(* by none.                                                                *)
OneFileReports ==
  at.doc > Len(order) /\ stack = << >> =>
    \A p \in Path : Shared(Top(p)) => Reporters(p) = { order[n] : n \in Winner(p) }

(* ContextOrigin: the last of the files whose lines start above the line.  *)
ContextOrigin(files, line) ==
  LET rel == line - ContextLine
      above == { n \in DOMAIN files : rel > files[n].base }
  IN  { [file |-> files[n].file, line |-> rel - files[n].base] :
          n \in {m \in above : \A o \in above : o <= m} }

(* A finding on any line of an entry from another file can be traced back  *)
(* to that file and the line there, unless the room is used up.  Lines of  *)
(* different files never overlap, and all stay context lines.              *)
OriginKnown ==
  \A d \in DOMAIN out : \A p \in DOMAIN out[d].entries : Shared(Top(p)) =>
    \A n \in Winner(p) :
      LET e == out[d].entries[p]
      IN  order[n] # d /\ e.line # ContextLine =>
            \A row \in 0 .. e.breaks + 1 :
              /\ IsContextLine(e.line + row)
              /\ ContextOrigin(out[d].files, e.line + row)
                   = {[file |-> order[n], line |-> Content(order[n])[p].line + row]}
=============================================================================
