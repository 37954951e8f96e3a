------------------------ MODULE ShellCheckRunProofs ------------------------
(***************************************************************************)
(* NothingLeftBehind and CommentsAreFindings for any documents, exit codes *)
(* and comments, checked by TLAPS.                                         *)
(***************************************************************************)
EXTENDS ShellCheckRun, SequenceFacts

(* Outside of one invocation there is neither, before the start there is   *)
(* no process, and until the verdict the script is complete; a kill of     *)
(* glsec may come anywhere.                                                *)
IInv ==
  /\ pc \in {"resolve", "create", "done", "skipped", "failed"} => script = "none" /\ child = "none"
  /\ pc = "write" => child = "none"
  /\ pc = "start" => script = "written" /\ child = "none"
  /\ pc \in {"wait", "judge", "killed"} => (child = "running" => script = "written")
  /\ pc \in {"resolve", "create", "write", "start", "wait", "judge", "done", "skipped", "failed", "killed"}

LEMMA InitIInv == Init => IInv
  BY DEF Init, IInv

LEMMA NextIInv == IInv /\ [Next]_vars => IInv'
<1> SUFFICES ASSUME IInv, [Next]_vars PROVE IInv'
  OBVIOUS
<1>1. CASE ResolveBinary
  BY <1>1 DEF IInv, ResolveBinary, process
<1>2. CASE CreateTemp
  BY <1>2 DEF IInv, CreateTemp, process
<1>3. CASE WriteScript
  BY <1>3 DEF IInv, WriteScript, RemoveScript, process
<1>4. CASE StartProcess
  BY <1>4 DEF IInv, StartProcess, RemoveScript
<1>5. CASE WaitReturns
  BY <1>5 DEF IInv, WaitReturns, process
<1>6. CASE Judge
  BY <1>6 DEF IInv, Judge, RemoveScript
<1>7. CASE Return
  BY <1>7 DEF IInv, Return, process
<1>8. CASE Write
  BY <1>8 DEF IInv, Write
<1>9. CASE Exit
  BY <1>9 DEF IInv, Exit
<1>10. CASE LetGo
  BY <1>10 DEF IInv, LetGo
<1>11. CASE Expire
  BY <1>11 DEF IInv, Expire
<1>12. CASE Cut
  BY <1>12 DEF IInv, Cut, process
<1>13. CASE Kill
  BY <1>13 DEF IInv, Kill, process
<1>14. CASE UNCHANGED vars
  BY <1>14 DEF IInv, vars
<1>15. QED
  BY <1>1, <1>2, <1>3, <1>4, <1>5, <1>6, <1>7, <1>8, <1>9, <1>10, <1>11, <1>12, <1>13, <1>14
  DEF Next, Glsec

(* When Run is back, whatever failed on the way, the script is removed and *)
(* the process has ended (invoke: os.Remove, exec.CommandContext).         *)
THEOREM NothingIsLeftBehind == Spec => []NothingLeftBehind
<1>1. IInv => NothingLeftBehind
  BY DEF IInv, NothingLeftBehind
<1> QED
  BY <1>1, InitIInv, NextIInv, PTL DEF Spec

-----------------------------------------------------------------------------
(* The lines of scripts.                                                   *)

Line == [source : Nat, begins : Nat, breaks : BOOLEAN, yamlLine : Nat, approximate : BOOLEAN]

(* Every line reports the last line up to it that the parser knows, or     *)
(* that of its scalar.                                                     *)
Reports(lines, k, j) ==
  /\ ~lines[j].approximate
  /\ lines[k].yamlLine = IF lines[k].breaks THEN lines[j].source ELSE lines[k].begins
  /\ lines[k].approximate <=> j # k
  /\ \A i \in j + 1 .. k : lines[i].approximate
Traced(lines) == \A k \in DOMAIN lines : \E j \in 1 .. k : Reports(lines, k, j)

Script == {lines \in Seq(Line) : Traced(lines)}

LEMMA NoLines == << >> \in Script
BY EmptySeq DEF Script, Traced

LEMMA ScriptsJoin ==
  ASSUME NEW s \in Script, NEW t \in Script
  PROVE  s \o t \in Script
<1>1. /\ s \in Seq(Line) /\ t \in Seq(Line) /\ Len(s) \in Nat /\ Len(t) \in Nat
      /\ DOMAIN s = 1 .. Len(s) /\ DOMAIN t = 1 .. Len(t)
  BY LenProperties DEF Script
<1>2. /\ s \o t \in Seq(Line)
      /\ DOMAIN (s \o t) = 1 .. Len(s) + Len(t)
      /\ \A k \in 1 .. Len(s) : (s \o t)[k] = s[k]
      /\ \A k \in Len(s) + 1 .. Len(s) + Len(t) : (s \o t)[k] = t[k - Len(s)]
  BY <1>1, ConcatProperties, LenProperties
<1> DEFINE u == s \o t
<1> HIDE DEF u
<1>3. ASSUME NEW k \in 1 .. Len(s) + Len(t)
      PROVE  \E j \in 1 .. k : Reports(u, k, j)
  <2>1. CASE k <= Len(s)
    <3>1. PICK j \in 1 .. k : Reports(s, k, j)
      BY <1>1, <2>1 DEF Script, Traced
    <3>2. \A i \in 1 .. k : u[i] = s[i]
      BY <1>1, <1>2, <2>1 DEF u
    <3>3. k \in 1 .. k /\ j + 1 .. k \subseteq 1 .. k
      BY <1>1, <2>1
    <3> QED
      BY <3>1, <3>2, <3>3 DEF Reports
  <2>2. CASE k > Len(s)
    <3>1. PICK m \in DOMAIN t : m = k - Len(s)
      BY <1>1, <2>2
    <3>2. PICK j \in 1 .. m : Reports(t, m, j)
      BY <1>1, <3>1 DEF Script, Traced
    <3>3. \A i \in Len(s) + 1 .. k : u[i] = t[i - Len(s)] /\ i - Len(s) \in Int
      BY <1>1, <1>2, <2>2 DEF u
    <3>4. /\ j + Len(s) \in Len(s) + 1 .. k /\ j + Len(s) \in 1 .. k
          /\ (j + Len(s)) - Len(s) = j
          /\ k \in Len(s) + 1 .. k
          /\ j # m <=> j + Len(s) # k
      BY <1>1, <2>2, <3>1
    <3>5. \A i \in (j + Len(s)) + 1 .. k :
            i \in Len(s) + 1 .. k /\ i - Len(s) \in j + 1 .. m
      BY <1>1, <2>2, <3>1
    <3> QED
      BY <3>1, <3>2, <3>3, <3>4, <3>5 DEF Reports
  <2> QED
    BY <1>1, <2>1, <2>2
<1>4. u \in Script
  BY <1>2, <1>3 DEF Script, Traced, u
<1> QED
  BY <1>4 DEF u

LEMMA LinesOfItem ==
  ASSUME NEW item \in Item
  PROVE  LinesOf(item) \in Script
<1>1. /\ item.at \in Seq(Nat) /\ item.at # << >> /\ item.exact \in BOOLEAN
      /\ item.line \in Nat /\ item.breaks \in BOOLEAN
      /\ ~item.breaks => Len(item.at) = 1
      /\ Len(item.at) \in Nat /\ DOMAIN item.at = 1 .. Len(item.at)
      /\ \A i \in 1 .. Len(item.at) : item.at[i] \in Nat
  BY LenProperties, ElementOfSeq DEF Item
<1>2. \A i \in 1 .. Len(item.at) : 1 \in 1 .. Len(item.at)
  BY <1>1
<1> DEFINE lines == LinesOf(item)
<1>3. ASSUME NEW i \in 1 .. Len(item.at)
      PROVE  /\ lines[i] \in Line
             /\ lines[i].source = item.at[i] /\ lines[i].begins = item.line /\ lines[i].breaks = item.breaks
             /\ lines[i].yamlLine = IF ~item.breaks THEN item.line ELSE IF item.exact THEN item.at[i] ELSE item.at[1]
             /\ lines[i].approximate <=> item.breaks /\ i # 1 /\ ~item.exact
  <2> DEFINE known == CASE ~item.breaks -> item.line
                        [] item.breaks /\ item.exact -> item.at[i]
                        [] OTHER -> item.at[1]
             vague == item.breaks /\ i # 1 /\ ~item.exact
  <2>1. known \in Nat /\ vague \in BOOLEAN
    BY <1>1, <1>2
  <2>2. lines[i] = [source |-> item.at[i], begins |-> item.line, breaks |-> item.breaks,
                    yamlLine |-> known, approximate |-> vague]
    BY <1>1 DEF LinesOf
  <2>5. known = IF ~item.breaks THEN item.line ELSE IF item.exact THEN item.at[i] ELSE item.at[1]
    BY <1>1
  <2> HIDE DEF known, vague, lines
  <2>3. lines[i] \in Line
    BY <1>1, <2>1, <2>2 DEF Line
  <2>4. /\ lines[i].source = item.at[i] /\ lines[i].begins = item.line /\ lines[i].breaks = item.breaks
        /\ lines[i].yamlLine = known /\ lines[i].approximate = vague
    BY <2>2
  <2> QED
    BY <2>3, <2>4, <2>5 DEF vague
<1>4. lines = [i \in 1 .. Len(item.at) |-> lines[i]]
  BY <1>1 DEF LinesOf
<1> HIDE DEF lines
<1>6. lines \in Seq(Line) /\ DOMAIN lines = 1 .. Len(item.at)
  <2>1. lines \in [1 .. Len(item.at) -> Line]
    BY <1>3, <1>4
  <2> QED
    BY SMTT(30), <1>1, <2>1, SeqDef
<1>7. ASSUME NEW k \in 1 .. Len(item.at)
      PROVE  \E j \in 1 .. k : Reports(lines, k, j)
  <2>1. CASE item.exact \/ ~item.breaks
    <3>1. k \in 1 .. k /\ ~(\E i \in k + 1 .. k : TRUE)
      BY <1>1
    <3> QED
      BY <1>1, <1>3, <2>1, <3>1 DEF Reports
  <2>2. CASE ~item.exact /\ item.breaks
    <3>1. 1 \in 1 .. k /\ 1 \in 1 .. Len(item.at)
      BY <1>1
    <3>2. \A i \in 2 .. k : i \in 1 .. Len(item.at) /\ i # 1
      BY <1>1
    <3>3. \A i \in 2 .. k : lines[i].approximate
      BY <1>3, <2>2, <3>2
    <3>4. 1 + 1 = 2
      OBVIOUS
    <3>5. ~lines[1].approximate /\ lines[1].source = item.at[1]
      BY <1>3, <3>1
    <3>6. /\ lines[k].yamlLine = item.at[1] /\ lines[k].breaks
          /\ lines[k].approximate <=> 1 # k
      BY <1>3, <2>2
    <3>7. Reports(lines, k, 1)
      BY <3>3, <3>4, <3>5, <3>6 DEF Reports
    <3> QED
      BY <3>1, <3>7
  <2> QED
    BY <1>1, <2>1, <2>2
<1> QED
  BY <1>6, <1>7 DEF Script, Traced, lines

LEMMA ExtractedLines ==
  ASSUME NEW items \in Seq(Item)
  PROVE  ExtractLines(items) \in Script
<1> DEFINE f == [i \in DOMAIN items |-> LinesOf(items[i])]
<1>1. /\ Len(items) \in Nat /\ DOMAIN items = 1 .. Len(items)
      /\ \A i \in 1 .. Len(items) : items[i] \in Item
  BY LenProperties, ElementOfSeq
<1>2. \A i \in 1 .. Len(items) : LinesOf(items[i]) \in Script
  BY <1>1, LinesOfItem
<1>3. f \in [1 .. Len(items) -> Script]
  BY <1>1, <1>2
<1>4. ExtractLines(items) = FlattenSeq(f)
  BY DEF ExtractLines
<1> HIDE DEF f
<1>5. f \in Seq(Script)
  BY <1>1, <1>3, FunctionAsSeq
<1> QED
  BY <1>4, <1>5, FlattenInto, NoLines, ScriptsJoin

(* The same for lists of scripts. *)
LEMMA ListsJoin ==
  ASSUME NEW C
  PROVE  << >> \in Seq(C) /\ \A s, t \in Seq(C) : s \o t \in Seq(C)
BY EmptySeq, ConcatProperties

LEMMA FlatList ==
  ASSUME NEW C, NEW n \in Nat, NEW f \in [1 .. n -> Seq(C)]
  PROVE  FlattenSeq(f) \in Seq(C)
<1>1. f \in Seq(Seq(C))
  BY FunctionAsSeq
<1> QED
  BY <1>1, FlattenInto, ListsJoin

LEMMA SectionsOf ==
  ASSUME NEW c, IsContainer(c), NEW keys, NEW n \in Nat, DOMAIN keys = 1 .. n
  PROVE  Sections(c, keys) \in Seq(Script)
<1> DEFINE f == [i \in DOMAIN keys |-> IF keys[i] \in DOMAIN c /\ ExtractLines(c[keys[i]]) # << >>
                                      THEN << ExtractLines(c[keys[i]]) >> ELSE << >>]
<1>1. ASSUME NEW i \in 1 .. n
      PROVE  f[i] \in Seq(Script)
  <2>1. CASE keys[i] \in DOMAIN c /\ ExtractLines(c[keys[i]]) # << >>
    <3>1. ExtractLines(c[keys[i]]) \in Script
      BY <2>1, ExtractedLines DEF IsContainer
    <3> QED
      BY <2>1, <3>1
  <2>2. CASE ~(keys[i] \in DOMAIN c /\ ExtractLines(c[keys[i]]) # << >>)
    <3>1. f[i] = << >>
      BY <2>2, Zenon
    <3> QED
      BY <3>1, EmptySeq
  <2> QED
    BY <2>1, <2>2
<1>2. f = [i \in 1 .. n |-> f[i]]
  OBVIOUS
<1>3. Sections(c, keys) = FlattenSeq(f)
  BY DEF Sections
<1> HIDE DEF f
<1>4. f \in [1 .. n -> Seq(Script)]
  BY <1>1, <1>2
<1> QED
  BY <1>3, <1>4, FlatList

LEMMA StepsOf ==
  ASSUME NEW job, IsContainer(job)
  PROVE  Steps(job) \in Seq(Script)
<1>1. CASE "run" \in DOMAIN job
  <2> DEFINE f == [i \in DOMAIN job["run"] |-> LinesOf(job["run"][i])]
  <2>1. job["run"] \in Seq(Item)
    BY <1>1 DEF IsContainer
  <2>2. /\ Len(job["run"]) \in Nat /\ DOMAIN job["run"] = 1 .. Len(job["run"])
        /\ \A i \in 1 .. Len(job["run"]) : job["run"][i] \in Item
    BY <2>1, LenProperties, ElementOfSeq
  <2>3. \A i \in 1 .. Len(job["run"]) : LinesOf(job["run"][i]) \in Script
    BY <2>2, LinesOfItem
  <2>4. f \in [1 .. Len(job["run"]) -> Script]
    BY <2>2, <2>3
  <2>5. Steps(job) = f
    BY <1>1 DEF Steps
  <2> HIDE DEF f
  <2> QED
    BY <2>2, <2>4, <2>5, FunctionAsSeq
<1>2. CASE "run" \notin DOMAIN job
  BY <1>2, EmptySeq DEF Steps
<1> QED
  BY <1>1, <1>2

LEMMA JobBlocksOf ==
  ASSUME NEW job, IsContainer(job)
  PROVE  JobBlocks(job) \in Seq(Script)
<1> DEFINE keys == <<"script", "before_script", "after_script", "hooks">>
<1>1. DOMAIN keys = 1 .. 4
  OBVIOUS
<1>2. JobBlocks(job) = Sections(job, keys) \o Steps(job)
  BY DEF JobBlocks
<1> HIDE DEF keys
<1>3. Sections(job, keys) \in Seq(Script)
  BY <1>1, SectionsOf
<1> QED
  BY <1>2, <1>3, StepsOf, ListsJoin

(* Every script that Run gives to ShellCheck is one whose lines are known. *)
LEMMA BlocksTraced ==
  ASSUME doc \in Docs
  PROVE  Blocks \in Seq(Script)
<1>1. /\ IsContainer(doc.top) /\ IsContainer(doc.default)
      /\ doc.jobs \in Seq(ToSet(doc.jobs))
      /\ \A job \in ToSet(doc.jobs) : IsContainer(job)
  BY DocAssumption DEF DocAssumption
<1> DEFINE two == <<"before_script", "after_script">>
           three == <<"before_script", "after_script", "hooks">>
           f == [i \in DOMAIN doc.jobs |-> JobBlocks(doc.jobs[i])]
<1>2. DOMAIN two = 1 .. 2 /\ DOMAIN three = 1 .. 3
  OBVIOUS
<1>3. /\ Len(doc.jobs) \in Nat /\ DOMAIN doc.jobs = 1 .. Len(doc.jobs)
      /\ \A i \in 1 .. Len(doc.jobs) : doc.jobs[i] \in ToSet(doc.jobs)
  BY <1>1, LenProperties, ElementOfSeq
<1>4. \A i \in 1 .. Len(doc.jobs) : JobBlocks(doc.jobs[i]) \in Seq(Script)
  BY <1>1, <1>3, JobBlocksOf
<1>5. f \in [1 .. Len(doc.jobs) -> Seq(Script)]
  BY <1>3, <1>4
<1>6. Blocks = Sections(doc.top, two) \o Sections(doc.default, three) \o FlattenSeq(f)
  BY DEF Blocks
<1> HIDE DEF two, three, f
<1>7. FlattenSeq(f) \in Seq(Script)
  BY <1>3, <1>5, FlatList
<1>8. Sections(doc.top, two) \in Seq(Script) /\ Sections(doc.default, three) \in Seq(Script)
  BY <1>1, <1>2, SectionsOf
<1> QED
  BY <1>6, <1>7, <1>8, ListsJoin

-----------------------------------------------------------------------------
(* What ShellCheck has answered so far.                                    *)

USE ExitAssumption DEF ExitAssumption

(* Until Run gives up, it has asked about the scripts before the current   *)
(* one, the processes have answered, and the findings are what they said.  *)
Answered ==
  /\ block <= Len(Blocks) + 1
  /\ pc \in {"write", "start", "wait", "judge"} => block <= Len(Blocks)
  /\ pc # "failed" =>
       /\ Len(said) = block - 1
       /\ \A b \in DOMAIN said :
            ~said[b].expired /\ said[b].code \in {0, 1, Killed} /\ said[b].out # Garbage
       /\ findings = UNION { { FindingOf(b, k) : k \in said[b].out.lines \cap DOMAIN Blocks[b] } :
                              b \in DOMAIN said }
  /\ pc = "done" => block > Len(Blocks)

(* The findings of a script that was answered, on the lines the parser knows. *)
LEMMA MappedIsKnown ==
  ASSUME doc \in Docs, block \in 1 .. Len(Blocks)
  PROVE  /\ Mapped = { FindingOf(block, k) : k \in out.lines \cap DOMAIN Blocks[block] }
         /\ Mapped \subseteq [block : Nat, line : Nat, column : BOOLEAN]
<1>1. Blocks[block] \in Script /\ block \in Nat
  BY BlocksTraced, ElementOfSeq, LenProperties
<1>2. /\ Lines \in Seq(Line) /\ Len(Lines) \in Nat /\ DOMAIN Lines = 1 .. Len(Lines)
      /\ Lines = Blocks[block] /\ Traced(Lines)
  BY <1>1, LenProperties DEF Script, Lines
<1>3. ASSUME NEW k \in DOMAIN Lines
      PROVE  /\ [block |-> block, line |-> Lines[k].yamlLine, column |-> ~Lines[k].approximate]
                   = FindingOf(block, k)
             /\ Lines[k] \in Line
  <2>1. k \in 1 .. Len(Lines) /\ \A i \in 1 .. k : Lines[i] \in Line
    BY <1>2, ElementOfSeq
  <2>2. PICK j \in 1 .. k : /\ ~Lines[j].approximate
                            /\ Lines[k].yamlLine = IF Lines[k].breaks THEN Lines[j].source ELSE Lines[k].begins
                            /\ Lines[k].approximate <=> j # k
                            /\ \A i \in j + 1 .. k : Lines[i].approximate
    BY <1>2 DEF Traced, Reports
  <2> DEFINE S == { i \in 1 .. k : ~Lines[i].approximate }
  <2>3. j \in S /\ \A i \in S : j >= i
    BY <2>1, <2>2
  <2>4. S \subseteq Int
    BY <2>1
  <2> HIDE DEF S
  <2>5. Max(S) = j
    <3>1. Max(S) \in S /\ \A i \in S : Max(S) >= i
      BY <2>3 DEF Max
    <3> QED
      <4>1. Max(S) \in Int /\ j \in Int /\ Max(S) >= j /\ j >= Max(S)
        BY <2>3, <2>4, <3>1
      <4> QED
        BY <4>1
  <2>6. KnownLine(block, k) = j
    BY <1>2, <2>5 DEF KnownLine, S
  <2>7. Lines[k].approximate \in BOOLEAN
    BY <2>1 DEF Line
  <2>8. ~Lines[k].approximate = (j = k)
    BY <2>2, <2>7
  <2> QED
    BY <1>2, <2>1, <2>2, <2>6, <2>8 DEF FindingOf
<1>4. ASSUME NEW k \in DOMAIN Lines
      PROVE  [block |-> block, line |-> Lines[k].yamlLine, column |-> ~Lines[k].approximate]
               \in [block : Nat, line : Nat, column : BOOLEAN]
  <2> DEFINE c == ~Lines[k].approximate
             l == Lines[k].yamlLine
  <2>1. l \in Nat
    BY <1>3, <1>4 DEF Line
  <2>2. c \in BOOLEAN
    OBVIOUS
  <2> HIDE DEF c, l
  <2>3. [block |-> block, line |-> l, column |-> c] \in [block : Nat, line : Nat, column : BOOLEAN]
    BY <1>1, <2>1, <2>2
  <2> QED
    BY <2>3 DEF c, l
<1>5. Mapped = { FindingOf(block, k) : k \in out.lines \cap DOMAIN Lines }
  BY <1>3 DEF Mapped
<1>6. Mapped \subseteq [block : Nat, line : Nat, column : BOOLEAN]
  BY <1>4 DEF Mapped
<1> QED
  BY <1>2, <1>5, <1>6

LEMMA SameBlocks ==
  ASSUME UNCHANGED doc
  PROVE  Blocks' = Blocks /\ \A b, k : FindingOf(b, k)' = FindingOf(b, k)
<1>1. Blocks' = Blocks
  BY DEF Blocks
<1> QED
  BY <1>1 DEF FindingOf, KnownLine

LEMMA AnswerTyped ==
  ASSUME NEW c \in Codes \cup {Killed}, NEW is \in {"nothing", "garbage", "comments"}, NEW lines \in SUBSET Nat,
         NEW e \in BOOLEAN
  PROVE  /\ Output(is, lines) \in Outputs
         /\ [code |-> c, out |-> Output(is, lines), expired |-> e] \in Answer
<1> DEFINE o == Output(is, lines)
<1>1. o \in Outputs
  BY DEF Output, Outputs
<1> HIDE DEF o
<1>2. [code |-> c, out |-> o, expired |-> e] \in Answer
  BY <1>1 DEF Answer
<1> QED
  BY <1>1, <1>2 DEF o

LEMMA InitAnswered == Init => TypeOK /\ Answered
<1> SUFFICES ASSUME Init PROVE TypeOK /\ Answered
  OBVIOUS
<1>1. Blocks \in Seq(Script) /\ Len(Blocks) \in Nat
  BY BlocksTraced, LenProperties DEF Init
<1>2. said \in Seq(Answer) /\ Len(said) = 0 /\ DOMAIN said = {}
  BY EmptySeq DEF Init
<1>3. [code |-> code, out |-> out, expired |-> expired] \in Answer
  <2>1. /\ out = Output("nothing", {}) /\ {} \in SUBSET Nat
        /\ code \in Codes \cup {Killed} /\ expired \in BOOLEAN
    BY DEF Init, Nothing
  <2> QED
    BY <2>1, AnswerTyped
<1>4. TypeOK
  <2>1. findings \subseteq [block : Nat, line : Nat, column : BOOLEAN]
    BY DEF Init
  <2> QED
    <3>1. block \in Nat \ {0}
      BY DEF Init
    <3>3. held \in BOOLEAN
      BY DEF Init
    <3>4. cut \in BOOLEAN
      BY DEF Init
    <3>2. doc \in Docs /\ script = "none" /\ child = "none" /\ pc = "resolve"
      BY DEF Init
    <3> QED
      BY <1>2, <1>3, <2>1, <3>1, <3>2, <3>3, <3>4 DEF TypeOK
<1>5. findings = UNION { { FindingOf(b, k) : k \in said[b].out.lines \cap DOMAIN Blocks[b] } :
                         b \in DOMAIN said }
  BY <1>2 DEF Init
<1>6. Answered
  BY <1>1, <1>2, <1>5 DEF Init, Answered
<1> QED
  BY <1>4, <1>6

LEMMA NextTyped ==
  ASSUME TypeOK, Answered, [Next]_vars
  PROVE  TypeOK'
<1> DEFINE answer == [code |-> code, out |-> out, expired |-> expired]
<1>1. answer \in Answer /\ code \in Codes \cup {Killed} /\ expired \in BOOLEAN
      /\ out \in Outputs
  BY DEF TypeOK, Answer
<1>2. CASE ResolveBinary
  BY <1>2 DEF TypeOK, ResolveBinary, process, timers
<1>3. CASE CreateTemp
  BY <1>3 DEF TypeOK, CreateTemp, process, timers
<1>4. CASE WriteScript
  BY <1>4 DEF TypeOK, WriteScript, RemoveScript, process, timers
<1>5. CASE StartProcess
  BY <1>5 DEF TypeOK, StartProcess, RemoveScript, timers
<1>6. CASE WaitReturns
  BY <1>6 DEF TypeOK, WaitReturns, process, timers
<1>7. CASE Judge
  <2>1. said' \in Seq(Answer)
    BY <1>1, <1>7, AppendProperties DEF Judge, TypeOK
  <2>2. block' \in Nat \ {0}
    BY <1>7 DEF Judge, TypeOK
  <2>3. findings' \subseteq [block : Nat, line : Nat, column : BOOLEAN]
    <3>1. pc = "judge" /\ block \in 1 .. Len(Blocks)
      <4>1. Len(Blocks) \in Nat
        BY BlocksTraced, LenProperties DEF TypeOK
      <4> QED
        BY <1>7, <4>1 DEF Judge, Answered, TypeOK
    <3>2. Mapped \subseteq [block : Nat, line : Nat, column : BOOLEAN]
      BY <3>1, MappedIsKnown DEF TypeOK
    <3> QED
      BY <1>7, <3>2 DEF Judge, TypeOK
  <2>4. [code |-> code, out |-> out, expired |-> expired]' \in Answer
    <3>1. /\ out' = Output("nothing", {}) /\ {} \in SUBSET Nat
          /\ code' \in Codes \cup {Killed} /\ expired' \in BOOLEAN
      BY <1>7 DEF Judge, Nothing
    <3> QED
      BY <3>1, AnswerTyped
  <2> QED
    BY <1>7, <2>1, <2>2, <2>3, <2>4 DEF TypeOK, Judge, RemoveScript
<1>8. CASE Return
  BY <1>8 DEF TypeOK, Return, process, timers
<1>9. CASE Write
  <2>1. PICK o : out' = o /\ o \in {Garbage} \cup { Comments(lines) : lines \in UpTo(MaxComments, 0 .. Len(Lines) + 1) }
    BY <1>9 DEF Write
  <2>2. \E is \in {"nothing", "garbage", "comments"}, lines \in SUBSET Nat : o = Output(is, lines)
    <3>1. CASE o = Garbage
      <4>1. o = Output("garbage", {}) /\ {} \in SUBSET Nat
        BY <3>1 DEF Garbage
      <4> QED
        BY <4>1
    <3>2. ASSUME NEW lines \in UpTo(MaxComments, 0 .. Len(Lines) + 1), o = Comments(lines)
          PROVE  \E is \in {"nothing", "garbage", "comments"}, l \in SUBSET Nat : o = Output(is, l)
      <4>1. lines \in SUBSET (0 .. Len(Lines) + 1)
        BY <3>2 DEF UpTo, kSubset
      <4>2. lines \in SUBSET Nat
        BY <4>1
      <4> QED
        BY <3>2, <4>2 DEF Comments
    <3> QED
      BY <2>1, <3>1, <3>2
  <2>3. [code |-> code, out |-> out, expired |-> expired]' \in Answer
    <3>1. code' \in Codes \cup {Killed} /\ expired' \in BOOLEAN
      BY <1>1, <1>9 DEF Write, timers
    <3> QED
      BY <2>1, <2>2, <3>1, AnswerTyped
  <2> QED
    BY <1>9, <2>3 DEF TypeOK, Write, timers
<1>10. CASE Exit
  <2>1. [code |-> code, out |-> out, expired |-> expired]' \in Answer
    BY <1>1, <1>10 DEF Answer, Exit, timers
  <2> QED
    BY <1>10, <2>1 DEF TypeOK, Exit, timers
<1>11. CASE LetGo
  BY <1>11 DEF TypeOK, LetGo, timers
<1>12. CASE Expire
  <2>1. [code |-> code, out |-> out, expired |-> expired]' \in Answer
    <3>1. code' \in Codes \cup {Killed} /\ expired' \in BOOLEAN /\ out' = out
      BY <1>1, <1>12 DEF Expire
    <3> QED
      BY <1>1, <3>1 DEF Answer
  <2>2. held' \in BOOLEAN /\ child' \in {"none", "running", "exited"}
    BY <1>12 DEF TypeOK, Expire
  <2> QED
    BY <1>12, <2>1, <2>2 DEF TypeOK, Expire
<1>13. CASE Cut
  BY <1>13 DEF TypeOK, Cut, process
<1>14. CASE Kill
  BY <1>14 DEF TypeOK, Kill, process, timers
<1>15. CASE UNCHANGED vars
  BY <1>15 DEF TypeOK, vars, process, timers
<1> QED
  BY <1>2, <1>3, <1>4, <1>5, <1>6, <1>7, <1>8, <1>9, <1>10, <1>11, <1>12, <1>13, <1>14, <1>15
  DEF Next, Glsec

(* Steps within an invocation leave the answers as they are. *)
LEMMA StaysAnswered ==
  ASSUME Answered, UNCHANGED <<doc, block, findings, said>>,
         pc = "failed" => pc' = "failed",
         pc' \in {"write", "start", "wait", "judge"} => block <= Len(Blocks),
         pc' = "done" => block > Len(Blocks)
  PROVE  Answered'
<1>1. Blocks' = Blocks /\ \A b, k : FindingOf(b, k)' = FindingOf(b, k)
  BY SameBlocks
<1>2. block' = block /\ findings' = findings /\ said' = said
  OBVIOUS
<1>3. CASE pc' = "failed"
  <2>1. /\ (block <= Len(Blocks) + 1)'
        /\ (pc \in {"write", "start", "wait", "judge"})' => (block <= Len(Blocks))'
        /\ (pc = "done")' => (block > Len(Blocks))'
    BY <1>1, <1>2 DEF Answered
  <2> QED
    BY <1>3, <2>1 DEF Answered
<1>4. CASE pc' # "failed"
  <2>1. /\ (block <= Len(Blocks) + 1)'
        /\ (pc \in {"write", "start", "wait", "judge"})' => (block <= Len(Blocks))'
        /\ (pc = "done")' => (block > Len(Blocks))'
    BY <1>1, <1>2 DEF Answered
  <2>2. /\ Len(said) = block - 1
        /\ \A b \in DOMAIN said :
             ~said[b].expired /\ said[b].code \in {0, 1, Killed} /\ said[b].out # Garbage
        /\ findings = UNION { { FindingOf(b, k) : k \in said[b].out.lines \cap DOMAIN Blocks[b] } :
                               b \in DOMAIN said }
    BY <1>4 DEF Answered
  <2>3. /\ (Len(said) = block - 1)'
        /\ (\A b \in DOMAIN said :
              ~said[b].expired /\ said[b].code \in {0, 1, Killed} /\ said[b].out # Garbage)'
    BY <1>2, <2>2 DEF Garbage, Output
  <2>4. (findings = UNION { { FindingOf(b, k) : k \in said[b].out.lines \cap DOMAIN Blocks[b] } :
                            b \in DOMAIN said })'
    BY <1>1, <1>2, <2>2
  <2> QED
    BY <2>1, <2>3, <2>4 DEF Answered
<1> QED
  BY <1>3, <1>4

LEMMA JudgeAnswered ==
  ASSUME TypeOK, Answered, Judge
  PROVE  Answered'
<1> DEFINE answer == [code |-> code, out |-> out, expired |-> expired]
           Good(b) == { FindingOf(b, k) : k \in said[b].out.lines \cap DOMAIN Blocks[b] }
<1>1. Blocks' = Blocks /\ \A b, k : FindingOf(b, k)' = FindingOf(b, k)
  BY SameBlocks DEF Judge
<1>2. pc = "judge" /\ block \in Nat \ {0} /\ Len(Blocks) \in Nat /\ block <= Len(Blocks)
  BY BlocksTraced, LenProperties DEF Judge, TypeOK, Answered
<1>3. CASE expired \/ IsError \/ out = Garbage
  <2>1. pc' = "failed" /\ block' = block
    BY <1>3 DEF Judge
  <2> QED
    BY <1>1, <1>2, <2>1 DEF Answered
<1>4. CASE ~(expired \/ IsError \/ out = Garbage)
  <2>1. findings' = findings \cup Mapped /\ block' = block + 1 /\ pc' = "create"
    BY <1>4 DEF Judge
  <2>2. said' = Append(said, answer) /\ said \in Seq(Answer) /\ answer \in Answer
    BY DEF Judge, TypeOK
  <2>3. answer.code = code /\ answer.out = out /\ answer.expired = expired
    OBVIOUS
  <2>4. ~answer.expired /\ answer.code \in {0, 1, Killed} /\ answer.out # Garbage
    <3>1. code \in Codes \cup {Killed}
      BY <2>2, <2>3 DEF Answer
    <3>2. ~(code > 1)
      BY <1>4 DEF IsError
    <3> QED
      BY <1>4, <2>3, <3>1, <3>2
  <2> HIDE DEF answer
  <2>5. /\ Len(said) = block - 1
        /\ \A b \in DOMAIN said :
             ~said[b].expired /\ said[b].code \in {0, 1, Killed} /\ said[b].out # Garbage
        /\ findings = UNION { Good(b) : b \in DOMAIN said }
    BY <1>2 DEF Answered
  <2>6. /\ Len(said') = block /\ DOMAIN said' = 1 .. block /\ DOMAIN said = 1 .. block - 1
        /\ said'[block] = answer /\ \A b \in 1 .. block - 1 : said'[b] = said[b]
    BY <1>2, <2>2, <2>5, AppendProperties, LenProperties
  <2>7. \A b \in 1 .. block : b = block \/ b \in 1 .. block - 1
    BY <1>2
  <2>8. (\A b \in DOMAIN said :
          ~said[b].expired /\ said[b].code \in {0, 1, Killed} /\ said[b].out # Garbage)'
    <3>1. \A b \in 1 .. block :
            ~said'[b].expired /\ said'[b].code \in {0, 1, Killed} /\ said'[b].out # Garbage
      BY <2>4, <2>5, <2>6, <2>7
    <3> QED
      BY <2>6, <3>1 DEF Garbage, Output
  <2>9. (findings = UNION { { FindingOf(b, k) : k \in said[b].out.lines \cap DOMAIN Blocks[b] } :
                            b \in DOMAIN said })'
    <3> DEFINE New(b) == { FindingOf(b, k) : k \in said'[b].out.lines \cap DOMAIN Blocks[b] }
    <3>1. Mapped = New(block)
      <4>1. Mapped = { FindingOf(block, k) : k \in out.lines \cap DOMAIN Blocks[block] }
        BY <1>2, MappedIsKnown DEF TypeOK
      <4> QED
        BY <2>3, <2>6, <4>1
    <3>2. \A b \in 1 .. block - 1 : New(b) = Good(b)
      BY <2>6
    <3> HIDE DEF New, Good
    <3>3. findings = UNION { Good(b) : b \in 1 .. block - 1 }
      BY <2>5, <2>6
    <3>4. \A x : x \in findings' <=> \E b \in 1 .. block : x \in New(b)
      <4> SUFFICES ASSUME NEW x PROVE x \in findings' <=> \E b \in 1 .. block : x \in New(b)
        OBVIOUS
      <4>1. x \in findings' <=> x \in New(block) \/ \E b \in 1 .. block - 1 : x \in New(b)
        BY <2>1, <3>1, <3>2, <3>3
      <4>2. block \in 1 .. block /\ \A b \in 1 .. block - 1 : b \in 1 .. block
        BY <1>2
      <4> QED
        BY <2>7, <4>1, <4>2
    <3>5. findings' = UNION { New(b) : b \in 1 .. block }
      BY <3>4
    <3> QED
      BY <1>1, <2>6, <3>5 DEF New
  <2>10. /\ (block <= Len(Blocks) + 1)'
         /\ ~(pc \in {"write", "start", "wait", "judge"})'
         /\ ~(pc = "done")'
         /\ (Len(said) = block - 1)'
    BY <1>1, <1>2, <2>1, <2>6
  <2> QED
    BY <2>8, <2>9, <2>10 DEF Answered
<1> QED
  BY <1>3, <1>4

LEMMA NextAnswered ==
  ASSUME TypeOK, Answered, [Next]_vars
  PROVE  Answered'
<1>1. CASE UNCHANGED vars
  BY <1>1, StaysAnswered DEF vars, Answered
<1>2. CASE Judge
  BY <1>2, JudgeAnswered
<1>3. CASE Next /\ ~Judge
  <2>1. UNCHANGED <<doc, block, findings, said>>
    BY <1>3 DEF Next, Glsec, ResolveBinary, CreateTemp, WriteScript, StartProcess, WaitReturns, Return,
                Write, Exit, LetGo, Expire, Cut, Kill
  <2>2. pc # "failed" \/ pc' = "failed"
    BY <1>3 DEF Next, Glsec, ResolveBinary, CreateTemp, WriteScript, StartProcess, WaitReturns, Return,
                Write, Exit, LetGo, Expire, Cut, Kill
  <2>3. pc' \in {"write", "start", "wait", "judge"} => block <= Len(Blocks)
    BY <1>3 DEF Next, Glsec, ResolveBinary, CreateTemp, WriteScript, StartProcess, WaitReturns, Return,
                Write, Exit, LetGo, Expire, Cut, Kill, Answered
  <2>4. pc' = "done" => block > Len(Blocks)
    BY <1>3 DEF Next, Glsec, ResolveBinary, CreateTemp, WriteScript, StartProcess, WaitReturns, Return,
                Write, Exit, LetGo, Expire, Cut, Kill, Answered
  <2> QED
    BY <2>1, <2>2, <2>3, <2>4, StaysAnswered
<1> QED
  BY <1>1, <1>2, <1>3

(* The variables have their types; a finding has a line of the file.       *)
THEOREM TypeCorrect == Spec => []TypeOK
<1>1. Init => TypeOK /\ Answered
  BY InitAnswered
<1>2. TypeOK /\ Answered /\ [Next]_vars => (TypeOK /\ Answered)'
  BY NextTyped, NextAnswered
<1> QED
  BY <1>1, <1>2, PTL DEF Spec

(* A Run without an error has an answer for each script, and its findings  *)
(* are what the processes said, each on the last line that the parser      *)
(* knows or, for a value without a break, that of the scalar (extractLines *)
(* and the loop of Run).                                                   *)
THEOREM FindingsAreComments == Spec => []CommentsAreFindings
<1>1. Init => TypeOK /\ Answered
  BY InitAnswered
<1>2. TypeOK /\ Answered /\ [Next]_vars => (TypeOK /\ Answered)'
  BY NextTyped, NextAnswered
<1>3. TypeOK /\ Answered => CommentsAreFindings
  <2> SUFFICES ASSUME TypeOK, Answered, pc = "done" PROVE Len(said) = Len(Blocks)
    BY DEF CommentsAreFindings, Answered
  <2>1. Len(Blocks) \in Nat
    BY BlocksTraced, LenProperties DEF TypeOK
  <2> QED
    BY <2>1 DEF Answered, TypeOK
<1> QED
  BY <1>1, <1>2, <1>3, PTL DEF Spec
=============================================================================
