------------------------------- MODULE ScanRuns -------------------------------
(***************************************************************************)
(* The runs of glsec in one working directory, and the .glsec-ignore file  *)
(* they share: the loop over the targets (run, scanRoot), suppressions     *)
(* (collectFindings, internal/suppress), --generate-ignore                 *)
(* (writeIgnoreFile) and --new-only (filterNewOnly, internal/baseline).    *)
(*                                                                         *)
(* A run reads .glsec-ignore again for every file it checks, and           *)
(* --generate-ignore reads it, empties it and writes it in three steps, so *)
(* runs interleave; people edit the files and the dates of the entries in  *)
(* between.  What collect returns for a target is given by Pipeline (see   *)
(* PipelineFiles), what the rules find by Problem, and the glsec:ignore    *)
(* comments in the files by Comment.                                       *)
(***************************************************************************)
EXTENDS Integers, Sequences, SequencesExt, FiniteSetsExt

CONSTANTS
  Proc,         \* the runs that may go on at the same time
  File, Rule,
  RootRule,     \* the rules that don't run on included files
  Failing,      \* the rules whose findings make glsec exit with 1
  Unwritable,   \* files whose name has a space, or begins with #
  Pipeline,     \* what collect returns for each target
  Uses,         \* the files whose templates the jobs of a file use
  Problem,      \* what the rules may find
  Comment,      \* the glsec:ignore comments, which move with the lines
  TargetLists, Modes, RuleSets,   \* the runs that are considered
  Starting,     \* the problems there are in the beginning
  Baselines,    \* what may be in .glsec-ignore in the beginning
  None,
  MaxDay,       \* bound: the last day
  MaxDated,     \* bound: entries that are given a date
  MaxEdits,     \* bound: changes of the pipeline files
  MaxRuns       \* bound: runs that are started

(* with: the files of the same pipeline; included: IncludedBy is set. *)
Document == [file : File, with : SUBSET File, included : BOOLEAN]

(* seenBy: "file" if the file's own document shows the problem, "jobs" if  *)
(* a job does that uses the template it is in; text: the message.          *)
ProblemType ==
  [rule : Rule, file : File, line : Nat, text : Nat, seenBy : SUBSET {"file", "jobs"}]

(* The exp: date of a comment or an entry: Never if it has none, Lapsed if *)
(* it can't be read as a date.                                             *)
Day == 0 .. MaxDay
Never == MaxDay + 1
Lapsed == -1
CommentType == [file : File, line : Nat, rule : Rule, until : Day \cup {Never, Lapsed}]
Entry == [file : File, line : Nat, rule : Rule, until : Day \cup {Never}]

(* Problems that differ in none of rule, file, line and message are one    *)
(* finding (Dedupe); the last comment for a line and a rule counts (set);  *)
(* resolveTargets names no target twice; with holds files that collect has *)
(* read; None, for no origin and no mode, is neither; glsec writes one     *)
(* entry for a place and a rule.                                           *)
ASSUME RunsAssumption ==
  /\ None \notin [file : File, line : Nat] \cup {"scan", "audit", "generate", "newonly"}
  /\ Problem \subseteq ProblemType /\ IsFiniteSet(Problem)
  /\ \A x, y \in Problem :
       x.rule = y.rule /\ x.file = y.file /\ x.line = y.line /\ x.text = y.text => x = y
  /\ Starting \subseteq Problem
  /\ Comment \subseteq CommentType
  /\ \A x, y \in Comment : x.file = y.file /\ x.line = y.line /\ x.rule = y.rule => x = y
  /\ Baselines \subseteq Seq(Entry)
  /\ \A old \in Baselines : \A i, j \in DOMAIN old :
       old[i].file = old[j].file /\ old[i].line = old[j].line /\ old[i].rule = old[j].rule => i = j
  /\ Pipeline \in [File -> Seq(Document)]
  /\ \A t \in File : Pipeline[t] # << >> /\ Pipeline[t][1].file = t /\ ~Pipeline[t][1].included
  /\ \A t \in File : \A i \in DOMAIN Pipeline[t] :
       Pipeline[t][i].with \subseteq {Pipeline[t][j].file : j \in DOMAIN Pipeline[t]}
  /\ Uses \in [File -> SUBSET File]
  /\ TargetLists \subseteq Seq(File)
  /\ \A targets \in TargetLists : \A i, j \in DOMAIN targets : targets[i] = targets[j] => i = j
  /\ RuleSets \subseteq SUBSET Rule
  /\ Modes \subseteq {"scan", "audit", "generate", "newonly"}
  /\ MaxDay \in Nat /\ MaxDated \in Nat /\ MaxEdits \in Nat /\ MaxRuns \in Nat

(* collect: all the files of the target's pipelines.                       *)
Files(docs) == {d.file : d \in ToSet(docs)}
Included(docs) == {d.file : d \in {x \in ToSet(docs) : x.included}}

VARIABLES
  present,  \* the problems in the files
  shift,    \* how far the content of each file has moved down
  today,
  ignore,   \* the entries of .glsec-ignore, in order
  held,     \* those it has held while a scan went on, each with what writes
            \* was then
  run,      \* the runs
  edits,    \* how often the files have changed
  writes,   \* how often glsec has changed .glsec-ignore
  started,  \* how many runs were started
  basis     \* the last completed --generate-ignore, if the files did not
            \* change under it

vars == <<present, shift, today, ignore, held, run, edits, writes, started, basis>>

Place == [file : File, line : Nat]
Finding == [rule : Rule, file : File, line : Nat, text : Nat, origin : Place \cup {None}]

Steps == {"idle", "target", "document", "write", "torn", "done"}

(* at is the step a run takes next; left the targets, docs the documents   *)
(* of the pipeline it is at that are not yet done; found what it found in  *)
(* that pipeline, all in the pipelines before, with the target; scanned    *)
(* and included are scannedFiles and included of scanOptions; old is what  *)
(* writeIgnoreFile read; day, edits and writes are as they were at the     *)
(* start.                                                                  *)
Idle ==
  [at |-> "idle", mode |-> None, rules |-> {}, targets |-> << >>, left |-> << >>, docs |-> << >>,
   found |-> {}, all |-> {}, scanned |-> {}, included |-> {}, errors |-> FALSE, old |-> << >>,
   day |-> 0, edits |-> 0, writes |-> 0, exit |-> 0]

Run ==
  [at : Steps, mode : Modes \cup {None}, rules : SUBSET Rule, targets : Seq(File), left : Seq(File),
   docs : Seq(Document), found : SUBSET Finding, all : SUBSET (File \X Finding),
   scanned : SUBSET File, included : SUBSET File, errors : BOOLEAN, old : Seq(Entry),
   day : Day, edits : Nat, writes : Nat, exit : 0 .. 2]

Baseline ==
  [targets : Seq(File), rules : SUBSET Rule, present : SUBSET Problem, edits : Nat, writes : Nat]

TypeOK ==
  /\ present \subseteq Problem
  /\ shift \in [File -> Nat]
  /\ today \in Day
  /\ ignore \in Seq(Entry)
  /\ held \subseteq Nat \X Entry
  /\ run \in [Proc -> Run]
  /\ \A p \in Proc : run[p].included \subseteq run[p].scanned
  /\ edits \in Nat /\ writes \in Nat /\ started \in Nat
  /\ basis = None \/ basis \in Baseline

Init ==
  /\ present = Starting
  /\ shift = [f \in File |-> 0]
  /\ today = 0
  /\ ignore \in Baselines /\ held = {}
  /\ run = [p \in Proc |-> Idle]
  /\ edits = 0 /\ writes = 0 /\ started = 0
  /\ basis = None

-----------------------------------------------------------------------------
(* What the rules find. *)

Line(q) == q.line + shift[q.file]       \* of a problem or a comment

(* The line of the job that uses templates of other files.                 *)
JobLine(f) == 1 + shift[f]

RuleRunsEverywhere(d, rule, rules) ==   \* mutant: root rules run on included files
  rule \in rules

RuleRuns(d, rule, rules) == rule \in rules /\ (d.included => rule \notin RootRule)

ShownInFile(q, d, rules) == q.file = d.file /\ "file" \in q.seenBy /\ RuleRuns(d, q.rule, rules)

OwnFindings(d, rules) ==
  {[rule |-> q.rule, file |-> d.file, line |-> Line(q), text |-> q.text, origin |-> None] :
     q \in {x \in present : ShownInFile(x, d, rules)}}

(* Configuration of another file of the pipeline, reported at the job of   *)
(* this file that uses it (movedToJob).                                    *)
ShownAtJob(q, d, rules) ==
  /\ q.file # d.file /\ q.file \in Uses[d.file] \cap d.with
  /\ "jobs" \in q.seenBy /\ RuleRuns(d, q.rule, rules)

MovedFindings(d, rules) ==
  {[rule |-> q.rule, file |-> d.file, line |-> JobLine(d.file), text |-> q.text,
    origin |-> [file |-> q.file, line |-> Line(q)]] :
     q \in {x \in present : ShownAtJob(x, d, rules)}}

-----------------------------------------------------------------------------
(* Suppressions. *)

InForce(e, day) == e.until = Never \/ day <= e.until

Expired(e) == ~InForce(e, today)

(* A comment for the rule on this line that is in force on the day. *)
Commented(rule, file, line, day) ==
  \E c \in Comment : c.rule = rule /\ c.file = file /\ Line(c) = line /\ InForce(c, day)

(* The lines that LoadIgnoreFile, loadIgnore and writeIgnoreFile can read  *)
(* back: a name with a space splits into two fields.                       *)
Legible(e) == e.file \notin Unwritable

Matching(f) ==
  {i \in DOMAIN ignore :
     /\ Legible(ignore[i])
     /\ ignore[i].file = f.file /\ ignore[i].line = f.line /\ ignore[i].rule = f.rule}

(* At the finding's own line, the entries of .glsec-ignore are merged over *)
(* the comments, the last entry for a line and a rule over the ones        *)
(* before.  The comment next to a template is on its context line, where   *)
(* no entry can be.                                                        *)
AtItsLine(f, mode) ==
  IF mode = "newonly" \/ Matching(f) = {}
  THEN Commented(f.rule, f.file, f.line, today)
  ELSE ~Expired(ignore[Max(Matching(f))])

AtItsTemplate(f) == f.origin # None /\ Commented(f.rule, f.origin.file, f.origin.line, today)

SuppressedInPlace(f, mode) ==           \* mutant: no entry counts at a job
  /\ mode \in {"scan", "newonly"}
  /\ AtItsTemplate(f) \/ (f.origin = None /\ AtItsLine(f, mode))

SuppressedByEntries(f, mode) ==         \* mutant: the entries replace all comments
  /\ mode \in {"scan", "newonly"}
  /\ IF mode = "newonly" \/ ignore = << >>
     THEN AtItsTemplate(f) \/ AtItsLine(f, mode)
     ELSE Matching(f) # {} /\ ~Expired(ignore[Max(Matching(f))])

Suppressed(f, mode) == mode \in {"scan", "newonly"} /\ (AtItsTemplate(f) \/ AtItsLine(f, mode))

(* The findings that a document of a pipeline reports. *)
Reported(d, r) ==
  {f \in OwnFindings(d, r.rules) \cup MovedFindings(d, r.rules) : ~Suppressed(f, r.mode)}

(* DedupeMoved: of the findings on one piece of configuration, the one of  *)
(* its own file stays, or else the first of those moved to a job.          *)
SameConfiguration(f, g) ==
  /\ f.rule = g.rule /\ f.text = g.text
  /\ f.origin = (IF g.origin = None THEN [file |-> g.file, line |-> g.line] ELSE g.origin)

Moves(d, f) == d.file = f.file /\ f.origin.file \in d.with /\ RuleRuns(d, f.rule, {f.rule})
Before(docs, f, g) ==
  \E i \in DOMAIN docs : Moves(docs[i], f) /\ \A j \in 1 .. i : ~Moves(docs[j], g)

Deduped(docs, found) ==
  LET own == {f \in found : f.origin = None}
      moved == {f \in found : f.origin # None /\ \A g \in own : ~SameConfiguration(f, g)}
      first(f) ==
        CHOOSE g \in moved :
          SameConfiguration(g, f) /\ \A h \in moved : SameConfiguration(h, f) => ~Before(docs, h, g)
  IN own \cup {first(f) : f \in moved}

-----------------------------------------------------------------------------
(* A run. *)

At(p, step) == run[p].at = step
World == <<present, shift, today, edits>>

(* What .glsec-ignore holds is remembered as long as a scan goes on. *)
Hold ==
  held' = IF \E p \in Proc : run'[p].mode \in {"scan", "audit"}
          THEN held \cup {writes'} \X ToSet(ignore') ELSE {}

Start(p) ==
  /\ At(p, "idle")
  /\ started < MaxRuns
  /\ \E mode \in Modes, rules \in RuleSets, targets \in TargetLists :
       run' = [run EXCEPT ![p] = [Idle EXCEPT !.at = "target", !.mode = mode, !.rules = rules,
                 !.targets = targets, !.left = targets, !.day = today, !.edits = edits,
                 !.writes = writes]]
  /\ started' = started + 1
  /\ UNCHANGED <<World, ignore, writes, basis>>
  /\ Hold

HasTarget(p) == At(p, "target") /\ run[p].left # << >>
NextTarget(p) == Head(run[p].left)

(* A target that an earlier pipeline of the run included.                  *)
SkipTarget(p) ==
  /\ HasTarget(p)
  /\ NextTarget(p) \in run[p].included
  /\ run' = [run EXCEPT ![p].left = Tail(@)]
  /\ UNCHANGED <<World, ignore, held, writes, started, basis>>

(* The target can't be parsed, or is no pipeline.                          *)
TargetFails(p) ==
  /\ HasTarget(p)
  /\ NextTarget(p) \notin run[p].included
  /\ run' = [run EXCEPT ![p].left = Tail(@), ![p].errors = TRUE]
  /\ UNCHANGED <<World, ignore, held, writes, started, basis>>

(* collect *)
Collect(p) ==
  /\ HasTarget(p)
  /\ NextTarget(p) \notin run[p].included
  /\ run' = [run EXCEPT ![p].at = "document", ![p].docs = Pipeline[NextTarget(p)], ![p].found = {},
               ![p].scanned = @ \cup Files(Pipeline[NextTarget(p)]),
               ![p].included = @ \cup Included(Pipeline[NextTarget(p)])]
  /\ UNCHANGED <<World, ignore, held, writes, started, basis>>

(* collectFindings, which reads .glsec-ignore for each document.           *)
CheckDocument(p) ==
  /\ At(p, "document")
  /\ run[p].docs # << >>
  /\ run' = [run EXCEPT ![p].docs = Tail(@), ![p].found = @ \cup Reported(Head(run[p].docs), run[p])]
  /\ UNCHANGED <<World, ignore, held, writes, started, basis>>

(* .glsec-ignore can't be read, or ShellCheck fails: what the pipeline has *)
(* shown so far is dropped.                                                *)
DocumentFailsQuietly(p) ==              \* mutant: the error is not recorded
  /\ At(p, "document")
  /\ run[p].docs # << >>
  /\ run' = [run EXCEPT ![p].at = "target", ![p].left = Tail(@), ![p].docs = << >>, ![p].found = {}]
  /\ UNCHANGED <<World, ignore, held, writes, started, basis>>

DocumentFails(p) ==
  /\ At(p, "document")
  /\ run[p].docs # << >>
  /\ run' = [run EXCEPT ![p].at = "target", ![p].left = Tail(@), ![p].docs = << >>, ![p].found = {},
                        ![p].errors = TRUE]
  /\ UNCHANGED <<World, ignore, held, writes, started, basis>>

EndTarget(p) ==
  /\ At(p, "document")
  /\ run[p].docs = << >>
  /\ run' = [run EXCEPT ![p].at = "target", ![p].left = Tail(@), ![p].found = {},
               ![p].all = @ \cup ({NextTarget(p)} \X Deduped(Pipeline[NextTarget(p)], run[p].found))]
  /\ UNCHANGED <<World, ignore, held, writes, started, basis>>

-----------------------------------------------------------------------------
(* The end of a run. *)

AllTargetsDone(p) == At(p, "target") /\ run[p].left = << >>

ExitCode(r, reported) ==
  IF r.errors THEN 2
  ELSE IF \E pair \in reported : pair[2].rule \in Failing THEN 1 ELSE 0

(* At the end, all is what the run reports. *)
EndScan(p) ==
  /\ AllTargetsDone(p)
  /\ run[p].mode \in {"scan", "audit"}
  /\ run' = [run EXCEPT ![p].at = "done", ![p].exit = ExitCode(run[p], run[p].all)]
  /\ UNCHANGED <<World, ignore, held, writes, started, basis>>

(* The entries that accept findings of this rule in this file, by number.  *)
Accepted(rule, file) ==
  Cardinality({i \in DOMAIN ignore :
     /\ Legible(ignore[i]) /\ ~Expired(ignore[i])
     /\ ignore[i].rule = rule /\ ignore[i].file = file})

Alike(all, rule, file) == {pair \in all : pair[2].rule = rule /\ pair[2].file = file}

(* IsNew takes the findings of a rule in a file off the number of entries, *)
(* in an order that the findings do not show.                              *)
NewOnlyByKind(all, new) ==              \* mutant: a baseline that does not count
  new = {pair \in all : Accepted(pair[2].rule, pair[2].file) = 0}

NewOnly(all, new) ==
  /\ new \subseteq all
  /\ \A rule \in Rule, file \in File :
       Cardinality(Alike(new, rule, file)) = Max({0, Cardinality(Alike(all, rule, file)) - Accepted(rule, file)})

EndNewOnly(p) ==
  /\ AllTargetsDone(p)
  /\ run[p].mode = "newonly"
  /\ \E new \in SUBSET run[p].all :
       /\ NewOnly(run[p].all, new)
       /\ run' = [run EXCEPT ![p].at = "done", ![p].all = new, ![p].exit = ExitCode(run[p], new)]
  /\ UNCHANGED <<World, ignore, held, writes, started, basis>>

(* The baseline can't be read. *)
NoBaseline(p) ==
  /\ AllTargetsDone(p)
  /\ run[p].mode = "newonly"
  /\ run' = [run EXCEPT ![p].at = "done", ![p].exit = 2]
  /\ UNCHANGED <<World, ignore, held, writes, started, basis>>

RefuseToWrite(p) ==
  /\ AllTargetsDone(p)
  /\ run[p].mode = "generate"
  /\ run[p].errors
  /\ run' = [run EXCEPT ![p].at = "done", ![p].exit = 2]
  /\ UNCHANGED <<World, ignore, held, writes, started, basis>>

ReadIgnore(p) ==
  /\ AllTargetsDone(p)
  /\ run[p].mode = "generate"
  /\ ~run[p].errors
  /\ run' = [run EXCEPT ![p].at = "write", ![p].old = ignore]
  /\ UNCHANGED <<World, ignore, held, writes, started, basis>>

(* os.WriteFile empties the file, then writes it. *)
Truncate(p) ==
  /\ At(p, "write")
  /\ ignore' = << >>
  /\ writes' = writes + 1
  /\ run' = [run EXCEPT ![p].at = "torn"]
  /\ UNCHANGED <<World, held, started, basis>>

(* An entry is replaced if this run could have reported it.                *)
CoveredByFile(r, e) == Legible(e) /\ e.file \in r.scanned    \* mutant: --only drops the rest

Covered(r, e) == Legible(e) /\ e.file \in r.scanned /\ e.rule \in r.rules

(* A finding that had an entry keeps its line, with the date.              *)
Lines(r, place) ==
  LET before == {i \in DOMAIN r.old :
                   /\ Covered(r, r.old[i])
                   /\ r.old[i].file = place.file /\ r.old[i].line = place.line
                   /\ r.old[i].rule = place.rule}
  IN IF before # {} THEN r.old[Max(before)]
     ELSE [file |-> place.file, line |-> place.line, rule |-> place.rule, until |-> Never]

(* The other lines stay, in their order. *)
Rest(r) == {i \in DOMAIN r.old : ~Covered(r, r.old[i])}
Rank(i, S) == Cardinality({j \in S : j <= i})
Kept(r) ==
  [n \in 1 .. Cardinality(Rest(r)) |-> r.old[CHOOSE i \in Rest(r) : Rank(i, Rest(r)) = n]]

FoundPlaces(r) ==
  {[file |-> pair[2].file, line |-> pair[2].line, rule |-> pair[2].rule] : pair \in r.all}

NewIgnore(r) == Kept(r) \o SetToSeq({Lines(r, place) : place \in FoundPlaces(r)})

Write(p) ==
  /\ At(p, "torn")
  /\ ignore' = NewIgnore(run[p])
  /\ writes' = writes + 1
  /\ run' = [run EXCEPT ![p].at = "done", ![p].exit = 0]
  /\ basis' = IF run[p].edits = edits
              THEN [targets |-> run[p].targets, rules |-> run[p].rules, present |-> present,
                    edits |-> edits, writes |-> writes']
              ELSE None
  /\ UNCHANGED <<World, started>>
  /\ Hold

(* The disk is full, say: the first lines may have been written. *)
WriteFails(p) ==
  /\ At(p, "torn")
  /\ \E n \in 0 .. Len(NewIgnore(run[p])) : ignore' = SubSeq(NewIgnore(run[p]), 1, n)
  /\ writes' = writes + 1
  /\ run' = [run EXCEPT ![p].at = "done", ![p].exit = 2]
  /\ UNCHANGED <<World, started, basis>>
  /\ Hold

(* The next run of the process, or the process is killed.                  *)
Quit(p) ==
  /\ ~At(p, "idle")
  /\ run' = [run EXCEPT ![p] = Idle]
  /\ UNCHANGED <<World, ignore, writes, started, basis>>
  /\ Hold

-----------------------------------------------------------------------------
(* People at work. *)

Introduce(q) ==
  /\ edits < MaxEdits /\ edits' = edits + 1
  /\ q \notin present /\ present' = present \cup {q}
  /\ UNCHANGED <<shift, today, ignore, held, run, writes, started, basis>>

Fix(q) ==
  /\ edits < MaxEdits /\ edits' = edits + 1
  /\ q \in present /\ present' = present \ {q}
  /\ UNCHANGED <<shift, today, ignore, held, run, writes, started, basis>>

MoveDown(f) ==
  /\ edits < MaxEdits /\ edits' = edits + 1
  /\ shift' = [shift EXCEPT ![f] = @ + 1]
  /\ UNCHANGED <<present, today, ignore, held, run, writes, started, basis>>

SetExpiry(i, day) ==
  /\ Cardinality({j \in DOMAIN ignore : ignore[j].until # Never}) < MaxDated
  /\ ignore[i].until = Never
  /\ ignore' = [ignore EXCEPT ![i].until = day]
  /\ UNCHANGED <<World, run, writes, started, basis>>
  /\ Hold

Midnight ==
  /\ today < MaxDay
  /\ today' = today + 1
  /\ UNCHANGED <<present, shift, ignore, held, run, edits, writes, started, basis>>

Next ==
  \/ \E p \in Proc :
       \/ Start(p)
       \/ SkipTarget(p) \/ TargetFails(p) \/ Collect(p)
       \/ CheckDocument(p) \/ DocumentFails(p) \/ EndTarget(p)
       \/ EndScan(p) \/ EndNewOnly(p) \/ NoBaseline(p)
       \/ RefuseToWrite(p) \/ ReadIgnore(p) \/ Truncate(p) \/ Write(p) \/ WriteFails(p)
       \/ Quit(p)
  \/ \E q \in Problem : Introduce(q) \/ Fix(q)
  \/ \E f \in File : MoveDown(f)
  \/ \E i \in DOMAIN ignore, day \in 0 .. MaxDay - 1 : SetExpiry(i, day)
  \/ Midnight

Spec == Init /\ [][Next]_vars

-----------------------------------------------------------------------------
(* Properties. *)

(* The targets, by number, that a run scans unless one fails: those that   *)
(* no pipeline scanned before includes.                                    *)
AreRoots(roots, targets) ==
  \A i \in DOMAIN targets :
    i \in roots <=> \A j \in roots : j < i => targets[i] \notin Included(Pipeline[targets[j]])

RootsOf(targets) == CHOOSE roots \in SUBSET DOMAIN targets : AreRoots(roots, targets)

DocumentsOf(targets) == UNION {ToSet(Pipeline[targets[i]]) : i \in RootsOf(targets)}

(* The run p is over, was of the kind, and nobody changed the files or     *)
(* glsec the baseline since p started, or since the baseline was made of   *)
(* the same targets with no fewer rules.                                   *)
OverAfterBaseline(p, mode) ==
  /\ At(p, "done") /\ run[p].mode = mode /\ run[p].exit # 2
  /\ run[p].edits = edits /\ run[p].writes = writes
  /\ basis # None
  /\ basis.writes = writes
  /\ basis.targets = run[p].targets
  /\ run[p].rules \subseteq basis.rules

(* What the same scan reports after --generate-ignore: findings with an    *)
(* entry whose date is past, findings in a file whose name an entry can't  *)
(* hold, and at the jobs that use a template, what was accepted at the     *)
(* template or at another job.                                             *)
AcceptedAt(rule, file, line) ==
  \E i \in DOMAIN ignore : ignore[i].rule = rule /\ ignore[i].file = file /\ ignore[i].line = line

AcceptedStaysQuiet ==
  \A p \in Proc :
    OverAfterBaseline(p, "scan") /\ basis.edits = edits
      => \A pair \in run[p].all :
           LET f == pair[2] IN
           \/ \E i \in Matching(f) : Expired(ignore[i])
           \/ f.file \in Unwritable
           \/ /\ f.origin # None
              /\ \/ AcceptedAt(f.rule, f.origin.file, f.origin.line)
                 \/ \E g \in File \ {f.file} :
                      f.origin.file \in Uses[g] /\ AcceptedAt(f.rule, g, JobLine(g))

(* After --generate-ignore, --new-only reports nothing as long as people   *)
(* only fix or move what was there (README.md:109-110: "then fail only on  *)
(* new ones"; docs/usage.md:203: "Matching is line-insensitive") and no    *)
(* date of an entry passes: except where an entry can't hold the name of   *)
(* the file, has to stand for two findings of the rule on its line, as it  *)
(* has for two templates of one job, or for those of two pipelines that    *)
(* have the file; and except in a file whose jobs use a template that was  *)
(* accepted where a comment hides it now, at another job or where it is,   *)
(* and that is therefore reported at this one.                             *)
ShownOn(x, file, line) ==
  \/ x.file = file /\ "file" \in x.seenBy /\ line = x.line
  \/ x.file # file /\ x.file \in Uses[file] /\ "jobs" \in x.seenBy /\ line = 1

Crowded(rule, file) ==
  \E x, y \in basis.present : \E line \in {x.line, 1} :
    /\ x # y /\ x.rule = rule /\ y.rule = rule
    /\ ShownOn(x, file, line) /\ ShownOn(y, file, line)

Repeated(file, targets) ==
  \E i, j \in RootsOf(targets) :
    i < j /\ file \in Files(Pipeline[targets[i]]) \cap Files(Pipeline[targets[j]])

HiddenElsewhere(rule, file, day) ==
  \E x \in present :
    /\ x.rule = rule /\ x.file # file /\ ShownOn(x, file, 1)
    /\ \/ Commented(rule, x.file, Line(x), day)
       \/ \E g \in File \ {file} : x.file \in Uses[g] /\ Commented(rule, g, JobLine(g), day)

NothingNewIsQuiet ==
  \A p \in Proc :
    OverAfterBaseline(p, "newonly") /\ present \subseteq basis.present
      => \A pair \in run[p].all :
           LET f == pair[2] IN
           \/ \E i \in DOMAIN ignore : ignore[i].rule = f.rule /\ ignore[i].file = f.file /\ Expired(ignore[i])
           \/ f.file \in Unwritable
           \/ Crowded(f.rule, f.file)
           \/ Repeated(f.file, run[p].targets)
           \/ HiddenElsewhere(f.rule, f.file, run[p].day)

(* The problem q was not there when the baseline was made, has no comment, *)
(* and run p says nothing of its rule in its file.                         *)
IsMissed(q, p) ==
  /\ q \in present \ basis.present
  /\ \E d \in DocumentsOf(run[p].targets) : ShownInFile(q, d, run[p].rules)
  /\ ~Commented(q.rule, q.file, Line(q), run[p].day)
  /\ \A pair \in run[p].all : ~(pair[2].rule = q.rule /\ pair[2].file = q.file)

(* As long as nothing is fixed, --new-only reports something for a problem *)
(* that was not there when the baseline was made, whatever its rule and    *)
(* file (docs/usage.md:203: "a genuinely new third occurrence of an        *)
(* already-baselined finding is still reported").  It is missed only if a  *)
(* finding of its rule in its file was there before and has a comment that *)
(* was in force when the run started: that one has an entry, but           *)
(* --new-only leaves it out already.                                       *)
LeavesOut(x, d, r) ==
  \/ /\ ShownInFile(x, d, r.rules) \/ ShownAtJob(x, d, r.rules)
     /\ Commented(x.rule, x.file, Line(x), r.day)
  \/ ShownAtJob(x, d, r.rules) /\ Commented(x.rule, d.file, JobLine(d.file), r.day)

NewOccurrenceReported ==
  \A p \in Proc : OverAfterBaseline(p, "newonly") /\ basis.present \subseteq present
    => \A q \in Problem : IsMissed(q, p) =>
         \E x \in basis.present, d \in DocumentsOf(run[p].targets) :
           x.rule = q.rule /\ d.file = q.file /\ LeavesOut(x, d, run[p])

(* --new-only reports what is new and nothing else, as far as the two say. *)
DiffReportsNew == NothingNewIsQuiet /\ NewOccurrenceReported

(* The entries that were in .glsec-ignore at some time since the number of *)
(* its changes was n.                                                      *)
HeldSince(n) == {h[2] : h \in {x \in held : n <= x[1]}}

(* There was a comment or an entry for the place when run r could read it. *)
Excused(rule, file, line, r) ==
  \/ Commented(rule, file, line, r.day)
  \/ \E e \in HeldSince(r.writes) : e.rule = rule /\ e.file = file /\ e.line = line

(* A scan that exits with 0 has checked everything: if the files stayed as *)
(* they are, each problem that matters in a document of the targets has a  *)
(* comment or an entry wherever it is shown, that was there while the scan *)
(* went on, although targets fail, targets that an earlier one includes    *)
(* are skipped, and .glsec-ignore is emptied and written in between; under *)
(* --no-ignores there is no such problem.                                  *)
CleanMeansChecked ==
  \A p \in Proc :
    At(p, "done") /\ run[p].exit = 0 /\ run[p].mode \in {"scan", "audit"} /\ run[p].edits = edits
      => \A d \in DocumentsOf(run[p].targets) : \A q \in present : q.rule \in Failing =>
           /\ ShownInFile(q, d, run[p].rules)
                => run[p].mode = "scan" /\ Excused(q.rule, q.file, Line(q), run[p])
           /\ ShownAtJob(q, d, run[p].rules)
                => /\ run[p].mode = "scan"
                   /\ \/ Commented(q.rule, q.file, Line(q), run[p].day)
                      \/ Excused(q.rule, d.file, JobLine(d.file), run[p])

(* What a scan reports has no comment in force, next to a template or at   *)
(* its own line; except that at its own line an entry that was there while *)
(* the scan went on and whose date is past takes the place of the comment. *)
(* That .glsec-ignore is emptied in between makes no difference.           *)
CommentSilences ==
  \A p \in Proc :
    At(p, "done") /\ run[p].mode = "scan" /\ run[p].edits = edits
      => \A pair \in run[p].all :
           LET f == pair[2] IN
           /\ f.origin # None => ~Commented(f.rule, f.origin.file, f.origin.line, today)
           /\ Commented(f.rule, f.file, f.line, today) =>
                \E e \in HeldSince(run[p].writes) :
                  e.rule = f.rule /\ e.file = f.file /\ e.line = f.line /\ Expired(e)

(* A rule that needs the whole pipeline reports a file only where it is    *)
(* the root of a pipeline, and a target that a scanned pipeline includes   *)
(* only if it was named no later than the target of that pipeline          *)
(* (docs/usage.md:316: "is made once, on the root").                       *)
WholePipelineOnce ==
  \A p \in Proc :
    At(p, "done") => \A pair \in run[p].all : pair[2].rule \in RootRule =>
      /\ \E d \in ToSet(Pipeline[pair[1]]) : d.file = pair[2].file /\ ~d.included
      /\ \E i \in DOMAIN run[p].targets :
           /\ run[p].targets[i] = pair[1]
           /\ pair[1] \in run[p].included =>
                \E j \in i .. Len(run[p].targets) : pair[1] \in Included(Pipeline[run[p].targets[j]])

(* --generate-ignore loses an entry that it read, its date included, only  *)
(* if it could have reported the finding and did not: the file was         *)
(* scanned, in the pipeline of a target that was not skipped, the rule     *)
(* ran, and nothing was found there.  And a run that met an error leaves   *)
(* the baseline as it is, whichever target the error was in                *)
(* (docs/usage.md:117: "glsec exits 2 and leaves the baseline unchanged"). *)
LostOnlyIfGone(p) ==
  At(p, "torn") /\ At(p, "done")' /\ run'[p].exit = 0 =>
    \A e \in ToSet(run[p].old) \ ToSet(ignore') :
      /\ \E d \in DocumentsOf(run[p].targets) : d.file = e.file
      /\ e.rule \in run[p].rules
      /\ \A pair \in run[p].all :
           ~(pair[2].file = e.file /\ pair[2].line = e.line /\ pair[2].rule = e.rule)
ErrorLeaves(p) == run[p].errors /\ run'[p] # run[p] => ignore' = ignore

BaselineKept == [][\A p \in Proc : LostOnlyIfGone(p) /\ ErrorLeaves(p)]_vars
=============================================================================
