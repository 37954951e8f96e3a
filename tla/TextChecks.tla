----------------------------- MODULE TextChecks -----------------------------
(***************************************************************************)
(* What the rules make of a text: the commands of a script, the program of *)
(* a command, the lines of a script, and what a regular expression is      *)
(* tried on.  A script is given with what each of its tokens is to a       *)
(* shell, a command with the program it runs.                              *)
(***************************************************************************)
EXTENDS RequestTaint, Prefilter, ScalarLines

CONSTANTS Families,  \* sets of inputs
          Subjects   \* the texts an expression is tried on

VARIABLES input, result  \* result is empty before it is computed
vars == <<input, result>>

Tokens(marks) == [i \in DOMAIN marks |-> marks[i].t]

Init ==
  /\ \E inputs \in Families : input \in inputs
  /\ result = <<>>

Split ==
  /\ input.is = "script" /\ result = <<>>
  /\ LET script == Tokens(input.marks)
     IN  result' = <<[commands |-> ShellCommands(script), masked |-> MaskShellQuotes(script),
                      blanked |-> ShellCommands(BlankCaseLabels(script))]>>
  /\ UNCHANGED input

Unwrap ==
  /\ input.is = "command" /\ result = <<>>
  /\ result' = <<[words |-> CommandWords(input.text), text |-> UnwrappedText(input.text)]>>
  /\ UNCHANGED input

ReadLines ==
  /\ input.is = "lines" /\ result = <<>>
  /\ result' = <<[unwrapped |-> UnwrappedLine(input.text), lines |-> LogicalLines(input.text)]>>
  /\ UNCHANGED input

Compile ==
  /\ input.is = "regexp" /\ result = <<>>
  /\ result' = <<AnyOf(input.re)>>
  /\ UNCHANGED input

Locate ==
  /\ input.is = "scalar" /\ result = <<>>
  /\ result' = <<[i \in 1..Len(SelectSeq(input.node.value, LAMBDA c : c = "\n")) + 1 |->
                    ScalarContentLine(input.node, Table(input.data, input.node), i - 1)]>>
  /\ UNCHANGED input

FollowVariables ==
  /\ input.is = "requests" /\ result = <<>>
  /\ result' = <<UserVarInRequest(FlattenSeq([i \in DOMAIN input.lines |-> input.lines[i].text \o <<"\n">>]))>>
  /\ UNCHANGED input

Next == Split \/ Unwrap \/ ReadLines \/ Compile \/ Locate \/ FollowVariables

Spec == Init /\ [][Next]_vars

-----------------------------------------------------------------------------
(* To a shell a token is part of a command ("text") or of a case label     *)
(* ("label"), ends a command ("end"), joins two lines ("joint") or is none *)
(* of them ("drop").                                                       *)
Mark(t, as, follows) == [t |-> t, as |-> as, follows |-> follows]

ReadMark(s, m) ==
  LET cmd == [text |-> Trim(s.cur), line |-> s.start, piped |-> m.follows = "|",
              orElse |-> m.follows = "||", andThen |-> m.follows = "&&"]
      next == [s EXCEPT !.line = @ + Lines(<<m.t>>)]
  IN  CASE m.as = "text" -> [next EXCEPT !.cur = Append(@, m.t),
                                         !.start = IF @ < 0 /\ m.t \notin Blank THEN s.line ELSE @]
        [] m.as = "joint" -> [next EXCEPT !.cur = Append(@, " ")]
        [] m.as = "end" -> [next EXCEPT !.cur = <<>>, !.start = -1,
                                        !.cmds = IF cmd.text = <<>> THEN @ ELSE Append(@, cmd)]
        [] OTHER -> next
ReadMarks(marks) ==
  FoldLeft(ReadMark, [cmds |-> <<>>, cur |-> <<>>, start |-> -1, line |-> 0],
           Append(marks, Mark("end", "end", "end"))).cmds
Marked(as) == { i \in DOMAIN input.marks : input.marks[i].as = as }

(* What a command gives to a shell with -c comes last.                     *)
AsMarked ==
  LET own == ReadMarks(input.marks)
      given(i) == LET cmds == ReadMarks(input.given[i].marks)
                  IN  [j \in DOMAIN cmds |-> [cmds[j] EXCEPT !.line = @ + own[input.given[i].at].line]]
  IN  own \o FlattenSeq([i \in DOMAIN input.given |-> given(i)])

(* The commands of a script are what a shell takes for them, with their    *)
(* text, line and what follows, whatever stands in quotes, comments,       *)
(* substitutions and here-documents (shell.go, shellCommands).             *)
CommandsAsMarked ==
  input.is = "script" /\ result # <<>> /\ Marked("label") = {} => result[1].commands = AsMarked

(* The rules that look at a whole text with its quotes masked see the same *)
(* separators as shellCommands, and behind the labels of a case the same   *)
(* commands (gl002.go, maskShellQuotes).  Masking knows neither            *)
(* here-documents nor comments: a quote in a comment, or a ) in one inside *)
(* a substitution, is left out here.                                       *)
Masked ==
  LET has == { input.marks[i].t : i \in DOMAIN input.marks }
      dropped == { input.marks[i].t : i \in Marked("drop") }
  IN  "<<" \notin has /\ dropped \intersect Quotes = {} /\ ("$(" \in has => ")" \notin dropped)
MasksAgree ==
  input.is = "script" /\ result # <<>> /\ Masked =>
      /\ result[1].blanked = AsMarked
      /\ \A i \in Marked("end") : result[1].masked[i] = input.marks[i].t
      /\ \A i \in Marked("text") :
           input.marks[i].t \in Separator /\ ~IsRedirection(Tokens(input.marks), i) => result[1].masked[i] = " "

(* Behind wrappers, assignments and keywords the words begin with the      *)
(* program that runs, and skipWords, which looks for the same word in the  *)
(* text, finds the text that has these words (unwrappedText).  A ( before  *)
(* the program stays.                                                      *)
ProgramsFound ==
  input.is = "command" /\ result # <<>> =>
    /\ input.program # <<>> => result[1].words = input.program
    /\ LET rest == UnwrapUntil(ShellWords(input.text), "env")
           kept == ShellWords(result[1].text)
       IN  rest # <<>> /\ "$(" \notin Range(input.text) =>
             Tail(kept) = Tail(rest) /\ IsSuffix(rest[1], kept[1])

(* A line without its wrappers has the same commands in the same places    *)
(* (unwrappedLine), and the lines that a rule reads one by one are those   *)
(* of the commands (logicalLines).  Continued blanks count as the line     *)
(* they began on, and a backslash at the end of all is dropped.            *)
LinesAgree ==
  input.is = "lines" /\ result # <<>> =>
    LET cmds == ShellCommands(input.text)
        unwrapped == [i \in DOMAIN cmds |-> [cmds[i] EXCEPT !.text = UnwrappedText(@)]]
        Same(line, cmd) == line.text = cmd.text /\ line.line <= cmd.line
    IN  /\ HasWrapperWord(input.text) => ShellCommands(result[1].unwrapped) = unwrapped
        /\ Range(input.text) \intersect (Quotes \union {";", "|", "&", "#"}) = {} /\ TrailingBackslashes(input.text) % 2 = 0 =>
             /\ Len(result[1].lines) = Len(cmds)
             /\ \A i \in DOMAIN cmds : Same(result[1].lines[i], cmds[i])
             /\ \A i \in DOMAIN cmds : i > 1 => result[1].lines[i].line > cmds[i - 1].line

(* Whichever way a rule reads a script, it meets the same commands.        *)
ReadingsAgree == MasksAgree /\ LinesAgree

(* Whatever an expression matches has one of the literals that are looked  *)
(* for first (prefilter.go, possible).                                     *)
FilteredAsMatched ==
  input.is = "regexp" /\ result # <<>> =>
    \A text \in Subjects : Possible(result[1], text) \/ ~Matches(input.re, text)

(* A finding in a line of a script names the line of the file that the     *)
(* text stands on, however YAML folded it.  With escapes it is a line of   *)
(* the scalar that is not after it: most often the first one, between two  *)
(* doubled quotes also another (scalarlines.go, trace).                    *)
LinesTraced ==
  input.is = "scalar" /\ result # <<>> =>
    LET value == input.node.value
        solid(i) == { j \in DOMAIN value : value[j] \notin White /\ j > LineOffset(value, i - 1)
                                             /\ j <= LineOffset(value, i) }
    IN  \A i \in DOMAIN result[1] : solid(i) # {} =>
          \/ result[1][i] = input.places[Min(solid(i))]
          \/ input.escaped /\ result[1][i] \in FirstLine(input.node)..input.places[Min(solid(i))]

(* A request is reported when what a user controls flows into it, through  *)
(* whichever assignments, and not when the variable was set anew in        *)
(* between, or cleaned where the user's own variable was assigned.  An     *)
(* assignment that cleans a variable of the script does not count as one:  *)
(* after A=$USER, B=$(b $A | tr) is as if there were no tr (gl025.go,      *)
(* userVarInRequest; its comment and docs/rules/GL025.md:69 say that a     *)
(* value an assignment sanitises is not followed).                         *)
LastSet(name, n) == Max({0} \union { k \in 1..n : input.lines[k].sets = name })
RECURSIVE Flows(_, _)
Flows(source, n) ==
  \/ source = "$USER"
  \/ /\ source \in References /\ LastSet(Named[source], n) # 0
     /\ LET set == LastSet(Named[source], n) IN
        \E read \in input.lines[set].reads :
          Flows(read, set - 1) /\ ~(read = "$USER" /\ input.lines[set].cleans)
LineNo(n) == Len(SelectSeq(FlattenSeq([i \in 1..n - 1 |-> Append(input.lines[i].text, "\n")]), LAMBDA t : t = "\n"))
=============================================================================
