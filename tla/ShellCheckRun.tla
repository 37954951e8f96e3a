--------------------------- MODULE ShellCheckRun ---------------------------
(***************************************************************************)
(* Run and invoke (internal/shellcheck/shellcheck.go): the scripts of one  *)
(* document are given to ShellCheck one after the other, each in a         *)
(* temporary file and to a process of its own, and what it says is mapped  *)
(* back to the lines of the pipeline.  The process may answer, fail, be    *)
(* killed by the system, run for ever, or leave a child that keeps its     *)
(* output open; glsec has a time-out for the one and a delay for the       *)
(* other, and may itself be killed at any moment.                          *)
(***************************************************************************)
EXTENDS Integers, SequencesExt, FiniteSetsExt

CONSTANTS
  Docs,    \* the documents to check
  MaxComments, \* bound: what ShellCheck says of one script
  Codes,   \* exit codes; 0: nothing found, 1: something found
  Killed   \* ExitCode() of a process that a signal ended, which is -1

ASSUME ExitAssumption ==
  {0, 1} \subseteq Codes /\ Codes \subseteq Nat /\ Killed = -1 /\ MaxComments \in Nat

(* An item of a script: the line of the file on which its scalar begins,   *)
(* for a block scalar the one of its | or >; the lines that the lines of   *)
(* its value are written on; whether there is a line break in the value,   *)
(* if only at its end; and whether the parser knows the lines beyond the   *)
(* first (ScalarLineExact).                                                *)
Item ==
  { item \in [line : Nat, at : Seq(Nat) \ {<< >>}, breaks : BOOLEAN, exact : BOOLEAN] :
      ~item.breaks => Len(item.at) = 1 }
IsContainer(c) == \A key \in DOMAIN c : c[key] \in Seq(Item)

ASSUME DocAssumption ==
  \A d \in Docs :
    /\ IsContainer(d.top) /\ IsContainer(d.default)
    /\ d.jobs \in Seq(ToSet(d.jobs))
    /\ \A job \in ToSet(d.jobs) : IsContainer(job)

VARIABLES
  doc,      \* the document
  pc,       \* the next step of glsec
  block,    \* the script that is being checked
  script,   \* the temporary file: "none", "empty" or "written"
  child,    \* the process: "none", "running" or "exited"
  code,     \* its exit code, once it has exited
  out,      \* what it has written: Nothing, Garbage or Comments
  held,     \* somebody has its output open
  expired,  \* the context's time-out is over
  cut,      \* WaitDelay is over, and the output was closed
  findings, \* the findings so far: their block, their line, and if they have a column
  said      \* how each process ended that was waited for; not in the code

vars == <<doc, pc, block, script, child, code, out, held, expired, cut, findings, said>>

(* Comments are known by the lines of the script that they are about.      *)
Output(is, lines) == [is |-> is, lines |-> lines]
Nothing == Output("nothing", {})
Garbage == Output("garbage", {})
Comments(lines) == Output("comments", lines)

-----------------------------------------------------------------------------
Outputs == [is : {"nothing", "garbage", "comments"}, lines : SUBSET Nat]
Answer == [code : Codes \cup {Killed}, out : Outputs, expired : BOOLEAN]

TypeOK ==
  /\ doc \in Docs
  /\ pc \in {"resolve", "create", "write", "start", "wait", "judge",
             "done", "skipped", "failed", "killed"}
  /\ block \in Nat \ {0}
  /\ script \in {"none", "empty", "written"}
  /\ child \in {"none", "running", "exited"}
  /\ [code |-> code, out |-> out, expired |-> expired] \in Answer
  /\ held \in BOOLEAN /\ cut \in BOOLEAN
  /\ findings \subseteq [block : Nat, line : Nat, column : BOOLEAN]
  /\ said \in Seq(Answer)

(* extractLines: the lines of a script, as they are given to ShellCheck,   *)
(* with the line of the file to report.  The line one is written on and    *)
(* that of its scalar (source, begins) are not in the code.                *)
LinesOfNode(item) ==   \* mutant: counts from the scalar's line, whatever its style
  [i \in DOMAIN item.at |->
     [source |-> item.at[i], begins |-> item.line, breaks |-> item.breaks,
      yamlLine |-> item.line + i - 1, approximate |-> FALSE]]
LinesOf(item) ==
  [i \in DOMAIN item.at |->
     [source |-> item.at[i], begins |-> item.line, breaks |-> item.breaks,
      yamlLine |-> CASE ~item.breaks -> item.line
                     [] item.breaks /\ item.exact -> item.at[i]
                     [] OTHER -> item.at[1],
      approximate |-> item.breaks /\ i # 1 /\ ~item.exact]]
ExtractLines(items) == FlattenSeq([i \in DOMAIN items |-> LinesOf(items[i])])

Sections(container, keys) ==
  FlattenSeq([i \in DOMAIN keys |-> IF keys[i] \in DOMAIN container /\ ExtractLines(container[keys[i]]) # << >>
                                     THEN << ExtractLines(container[keys[i]]) >> ELSE << >>])

(* The scripts of the file, of default: and of the jobs, with the steps of *)
(* a run: as scripts of their own.                                         *)
Steps(job) ==
  IF "run" \in DOMAIN job THEN [i \in DOMAIN job.run |-> LinesOf(job.run[i])] ELSE << >>
JobBlocks(job) == Sections(job, <<"script", "before_script", "after_script", "hooks">>) \o Steps(job)
Blocks == Sections(doc.top, <<"before_script", "after_script">>)
          \o Sections(doc.default, <<"before_script", "after_script", "hooks">>)
          \o FlattenSeq([i \in DOMAIN doc.jobs |-> JobBlocks(doc.jobs[i])])

Lines == Blocks[block]

process == <<child, code, out, held>>
timers == <<expired, cut>>

Init ==
  /\ doc \in Docs
  /\ pc = "resolve"
  /\ block = 1
  /\ script = "none"
  /\ child = "none" /\ code = 0 /\ out = Nothing /\ held = FALSE
  /\ expired = FALSE /\ cut = FALSE
  /\ findings = {}
  /\ said = << >>

(* A missing binary is a warning: Run has no findings and no error.        *)
ResolveBinary ==
  /\ pc = "resolve"
  /\ pc' \in {"create", "skipped"}
  /\ UNCHANGED <<doc, block, script, process, timers, findings, said>>

(* invoke: CreateTemp and WriteString, which may both fail.                *)
CreateTemp ==
  /\ pc = "create" /\ block <= Len(Blocks)
  /\ \/ pc' = "write" /\ script' = "empty"
     \/ pc' = "failed" /\ UNCHANGED script
  /\ UNCHANGED <<doc, block, process, timers, findings, said>>

KeepScript ==   \* mutant: no deferred os.Remove
  script
RemoveScript == "none"

WriteScript ==
  /\ pc = "write"
  /\ \/ pc' = "start" /\ script' = "written"
     \/ pc' = "failed" /\ script' = RemoveScript
  /\ UNCHANGED <<doc, block, process, timers, findings, said>>

StartProcess ==
  /\ pc = "start"
  /\ \/ pc' = "wait" /\ child' = "running" /\ held' = TRUE /\ UNCHANGED script
     \/ pc' = "failed" /\ script' = RemoveScript /\ UNCHANGED <<child, held>>
  /\ UNCHANGED <<doc, block, code, out, timers, findings, said>>

UpTo(n, S) == UNION { kSubset(k, S) : k \in 0 .. n }

(* ShellCheck writes at most once, before it exits.  It may name a line    *)
(* that is not in the script.                                              *)
Write ==
  /\ child = "running" /\ out = Nothing
  /\ out' \in {Garbage} \cup { Comments(lines) : lines \in UpTo(MaxComments, 0 .. Len(Lines) + 1) }
  /\ UNCHANGED <<doc, pc, block, script, child, code, held, timers, findings, said>>

(* The system may kill it, and a child of its own may keep the output.     *)
Exit ==
  /\ child = "running"
  /\ child' = "exited"
  /\ code' \in Codes \cup {Killed}
  /\ held' \in BOOLEAN
  /\ UNCHANGED <<doc, pc, block, script, out, timers, findings, said>>

LetGo ==
  /\ child = "exited" /\ held
  /\ held' = FALSE
  /\ UNCHANGED <<doc, pc, block, script, child, code, out, timers, findings, said>>

(* The context ends until its error has been looked at, and the process is *)
(* killed if it still runs.                                                *)
Expire ==
  /\ pc \in {"wait", "judge"} /\ ~expired
  /\ expired' = TRUE
  /\ IF child = "running"
       THEN child' = "exited" /\ code' = Killed /\ held' \in BOOLEAN
       ELSE UNCHANGED <<child, code, held>>
  /\ UNCHANGED <<doc, pc, block, script, out, cut, findings, said>>

(* WaitDelay runs from the end of the process or of the context.           *)
Cut ==
  /\ pc = "wait" /\ child = "exited" /\ held /\ ~cut
  /\ cut' = TRUE
  /\ UNCHANGED <<doc, pc, block, script, process, expired, findings, said>>

WaitReturnsClosed ==   \* mutant: no WaitDelay
  /\ pc = "wait" /\ child = "exited" /\ ~held
  /\ pc' = "judge"
  /\ UNCHANGED <<doc, block, script, process, timers, findings, said>>
WaitReturns ==
  /\ pc = "wait" /\ child = "exited"
  /\ held => cut
  /\ pc' = "judge"
  /\ UNCHANGED <<doc, block, script, process, timers, findings, said>>

(* cmd.Output has an error if the process did not end with 0 or its output *)
(* had to be closed; only an ExitError has a code, which counts from 2 on. *)
IsError == code > 1 \/ (code = 0 /\ cut)

Mapped ==
  { [block |-> block, line |-> Lines[k].yamlLine, column |-> ~Lines[k].approximate] :
      k \in out.lines \cap DOMAIN Lines }

Judge ==
  /\ pc = "judge"
  /\ said' = Append(said, [code |-> code, out |-> out, expired |-> expired])
  /\ script' = RemoveScript
  /\ IF expired \/ IsError \/ out = Garbage
       THEN pc' = "failed" /\ UNCHANGED <<block, findings>>
       ELSE /\ findings' = findings \cup Mapped
            /\ block' = block + 1
            /\ pc' = "create"
  /\ child' = "none" /\ code' = 0 /\ out' = Nothing /\ held' = FALSE
  /\ expired' = FALSE /\ cut' = FALSE
  /\ UNCHANGED doc

Return ==
  /\ pc = "create" /\ block > Len(Blocks)
  /\ pc' = "done"
  /\ UNCHANGED <<doc, block, script, process, timers, findings, said>>

(* glsec is killed; the process it started runs on.                        *)
Kill ==
  /\ pc \notin {"done", "skipped", "failed", "killed"}
  /\ pc' = "killed"
  /\ UNCHANGED <<doc, block, script, process, timers, findings, said>>

Glsec == ResolveBinary \/ CreateTemp \/ WriteScript \/ StartProcess \/ WaitReturns \/ Judge \/ Return
Next == Glsec \/ Write \/ Exit \/ LetGo \/ Expire \/ Cut \/ Kill

(* The process owes nothing: only glsec's own steps and its timers go on.  *)
Fairness == WF_vars(Glsec) /\ WF_vars(Expire) /\ WF_vars(Cut)
Spec == Init /\ [][Next]_vars /\ Fairness

-----------------------------------------------------------------------------
(* The line of script b that the item of its line k begins on, as far as   *)
(* the parser knows: only the first line of the item, or each.             *)
KnownLine(b, k) == Max({ j \in 1 .. k : ~Blocks[b][j].approximate })

FindingOf(b, k) ==
  [block |-> b,
   line |-> IF Blocks[b][k].breaks THEN Blocks[b][KnownLine(b, k)].source ELSE Blocks[b][k].begins,
   column |-> KnownLine(b, k) = k]

(* When Run has findings and no error, a process has answered for every    *)
(* script, none of them ran into the time-out, exited above 1 or wrote     *)
(* something else, and the findings are their comments and nothing else.   *)
(* The line of one is that its command is written on or, without a column, *)
(* the first of its item; but in a value without a line break it is that   *)
(* of the scalar, with a column: for - |- and - >- the line of the | or >  *)
(* above the command (extractLines reports item.Line).  A process that was *)
(* killed counts as an answer: see FailedIsNotClean.                       *)
CommentsAreFindings ==
  pc = "done" =>
    /\ Len(said) = Len(Blocks)
    /\ \A b \in DOMAIN said :
         ~said[b].expired /\ said[b].code \in {0, 1, Killed} /\ said[b].out # Garbage
    /\ findings = UNION { { FindingOf(b, k) : k \in said[b].out.lines \cap DOMAIN Blocks[b] } :
                           b \in DOMAIN said }

(* Once Run is back there is no script left in the temporary directory and *)
(* no process that it started, whatever failed; and there is never a       *)
(* process without the script it reads.                                    *)
NothingLeftBehind ==
  /\ pc \in {"done", "skipped", "failed"} => script = "none" /\ child # "running"
  /\ child = "running" => script = "written"

(* Run comes back although the process may never exit and its children may *)
(* never close its output.                                                 *)
Returns == <>(pc \in {"done", "skipped", "failed", "killed"})

(* docs/shellcheck.md: a ShellCheck that fails stops the scan, since "a    *)
(* run without its findings must not pass as clean".                       *)
FailedIsNotClean ==
  pc = "done" => \A b \in DOMAIN said : said[b].code \in {0, 1}
=============================================================================
