----------------------------- MODULE ShellLines -----------------------------
(***************************************************************************)
(* What the rules do with the text of a script besides cutting it into     *)
(* commands (rules/shell.go, gl002.go): quoted text and case labels are    *)
(* blanked, wrappers are taken out, continued lines are joined.            *)
(***************************************************************************)
EXTENDS ShellText

Separator == {";", "&", "|", "\n"}

(* maskShellQuotes; a "$(" inside quotes opens text of its own.            *)
Unmasked == [i |-> 1, out |-> <<>>, quote |-> "none", substs |-> <<>>]
Shown(s, c) == [s EXCEPT !.i = @ + 1, !.out = Append(@, c)]
Hidden(s, n) == [s EXCEPT !.i = @ + n, !.out = @ \o [j \in 1..n |-> " "]]

MaskQuoted(text, s, c) ==
  CASE c = s.quote -> [Shown(s, c) EXCEPT !.quote = "none"]
    [] s.quote = "\"" /\ c = "\\" /\ s.i < Len(text) -> Hidden(s, 2)
    [] s.quote = "\"" /\ c = "$(" -> [Shown(s, c) EXCEPT !.quote = "none", !.substs = Append(@, 0)]
    [] OTHER -> Hidden(s, 1)
MaskUnquoted(text, s, c) ==
  CASE c = "\\" /\ s.i < Len(text) -> Hidden(s, 2)
    [] c \in Quotes -> [Shown(s, c) EXCEPT !.quote = c]
    [] ClosesSubst(s, c) -> [Shown(s, c) EXCEPT !.substs = Front(@), !.quote = "\""]
    [] OTHER -> Counted(Shown(s, c), c)
MaskStep(text, s) ==
  IF s.quote # "none" THEN MaskQuoted(text, s, text[s.i]) ELSE MaskUnquoted(text, s, text[s.i])

RECURSIVE MaskShell(_, _)
MaskShell(text, s) == IF s.i > Len(text) THEN s.out ELSE MaskShell(text, MaskStep(text, s))
MaskShellQuotes(text) == MaskShell(text, Unmasked)

-----------------------------------------------------------------------------
(* blankCaseLabels: a label is a ) with no ( open before it, and what      *)
(* stands before it since the last separator.                              *)
OpensComment(masked, i) == masked[i] = "#" /\ (i = 1 \/ At(masked, i - 1) \in Blank)
LabelStep(masked, s) ==
  LET c == masked[s.i]
  IN  CASE OpensComment(masked, s.i) -> [s EXCEPT !.i = EndOfLine(masked, s.i)]
        [] c \in Separator -> [s EXCEPT !.i = @ + 1, !.start = s.i + 1]
        [] c \in {"(", "$("} -> [s EXCEPT !.i = @ + 1, !.depth = @ + 1]
        [] c = ")" /\ s.depth > 0 -> [s EXCEPT !.i = @ + 1, !.depth = @ - 1]
        [] c = ")" /\ s.depth = 0 ->
             [s EXCEPT !.i = @ + 1, !.start = s.i + 1,
                       !.out = [j \in DOMAIN @ |-> IF j \in s.start..s.i THEN " " ELSE @[j]]]
        [] OTHER -> [s EXCEPT !.i = @ + 1]
RECURSIVE BlankLabels(_, _)
BlankLabels(masked, s) == IF s.i > Len(masked) THEN s.out ELSE BlankLabels(masked, LabelStep(masked, s))
(* A slip: the labels are looked for in the text as it is.                 *)
BlankCaseLabelsPlain(script) == BlankLabels(script, [i |-> 1, start |-> 1, depth |-> 0, out |-> script])
BlankCaseLabels(script) == BlankLabels(MaskShellQuotes(script), [i |-> 1, start |-> 1, depth |-> 0, out |-> script])

-----------------------------------------------------------------------------
(* unwrappedLine: a wrapper is seen at the start of a command only.        *)
HasWrapperWord(line) ==
  \E i \in DOMAIN line :
    /\ line[i] \in DOMAIN CommandWrappers /\ At(line, i + 1) \in Blank
    /\ i = 1 \/ line[i - 1] \in Blank \union Separator \union {"(", "$("}
FoundAt(line, text, from) ==
  LET at == { i \in from..Len(line) - Len(text) + 1 : SubSeq(line, i, i + Len(text) - 1) = text }
  IN  IF at = {} THEN 0 ELSE Min(at)
UnwrapAt(line, s, text, at) ==
  IF at = 0 THEN s
  ELSE [out |-> s.out \o SubSeq(line, s.pos, at - 1) \o UnwrappedText(text), pos |-> at + Len(text)]
UnwrappedLine(line) ==
  LET done == FoldLeft(LAMBDA s, cmd : UnwrapAt(line, s, cmd.text, FoundAt(line, cmd.text, s.pos)),
                       [out |-> <<>>, pos |-> 1], ShellCommands(line))
  IN  IF HasWrapperWord(line) THEN done.out \o SubSeq(line, done.pos, Len(line)) ELSE line

-----------------------------------------------------------------------------
(* logicalLines: an odd number of backslashes at its end continues a line. *)
TrailingBackslashes(line) == Len(line) - Max({0} \union { i \in DOMAIN line : line[i] # "\\" })
Finished(s, line, n) ==
  LET text == Trim(s.cur \o line)
      start == IF s.cur = <<>> THEN n ELSE s.start
  IN  [cur |-> <<>>, start |-> start,
       out |-> IF text = <<>> THEN s.out ELSE Append(s.out, [text |-> text, line |-> start])]
JoinLine(s, line, n) ==
  IF TrailingBackslashes(line) % 2 = 1
  THEN [s EXCEPT !.cur = @ \o Front(line) \o <<" ">>, !.start = IF s.cur = <<>> THEN n ELSE @]
  ELSE Finished(s, line, n)

RECURSIVE LogicalLinesFrom(_, _, _, _)
LogicalLinesFrom(script, i, n, s) ==
  IF i > Len(script) + 1 THEN IF s.cur = <<>> THEN s.out ELSE Finished(s, <<>>, n).out
  ELSE LogicalLinesFrom(script, EndOfLine(script, i) + 1, n + 1,
                        JoinLine(s, SubSeq(script, i, EndOfLine(script, i) - 1), n))
LogicalLines(script) == LogicalLinesFrom(script, 1, 0, [cur |-> <<>>, start |-> 0, out |-> <<>>])
=============================================================================
