---------------------------- MODULE ScalarLines ----------------------------
(***************************************************************************)
(* Where the value of a YAML scalar stands in its file                     *)
(* (parser/scalarlines.go, parser.go): the parser only says where the      *)
(* scalar begins, so its value is looked up in the source.                 *)
(*                                                                         *)
(* A source is its characters, a node is [line, col, style, value].  The   *)
(* line 0 stands for none.                                                 *)
(***************************************************************************)
EXTENDS Integers, SequencesExt, FiniteSetsExt

Breaks == {"\n", "\r", "\r\n"}
White == Breaks \union {" "}

(* newSourceLines: where each line starts, and the line of a position.     *)
Starts(data) == {1} \union { i + 1 : i \in { i \in DOMAIN data : data[i] \in Breaks } }
LineAt(data, pos) == Cardinality({ i \in Starts(data) : i <= pos })
StartOf(data, line) == CHOOSE i \in Starts(data) : Cardinality({ j \in Starts(data) : j <= i }) = line
LineCount(data) == Cardinality(Starts(data))

-----------------------------------------------------------------------------
(* trace.  Folding only changes white space, so that the other characters  *)
(* of the value are those of the source in the same order.                 *)
FirstLine(node) == IF node.style = "folded" THEN node.line + 1 ELSE node.line
FirstPos(data, node) ==
  IF node.style = "folded" THEN StartOf(data, node.line + 1)
  ELSE StartOf(data, node.line) + node.col - 1 + IF node.style \in {"single", "double"} THEN 1 ELSE 0

NextSolid(data, pos) ==
  LET solid == { i \in pos..Len(data) : data[i] \notin White } IN IF solid = {} THEN 0 ELSE Min(solid)

Followed(data, s, c, at) ==
  IF at = 0 \/ data[at] # c THEN [s EXCEPT !.found = FALSE]
  ELSE [s EXCEPT !.pos = at + 1, !.lines = Append(@, LineAt(data, at))]
Follow(data, s, c) ==
  CASE ~s.found -> s
    [] s.found /\ c \in White -> [s EXCEPT !.lines = Append(@, 0)]
    [] OTHER -> Followed(data, s, c, NextSolid(data, s.pos))
Walked(data, node) ==
  FoldLeft(LAMBDA s, c : Follow(data, s, c), [pos |-> FirstPos(data, node), lines |-> <<>>, found |-> TRUE], node.value)

(* A slip: white space has the line of what came before.                   *)
LineOfLast(lines, first, i) ==
  LET solid == { j \in DOMAIN lines : lines[j] # 0 }
      last == { j \in solid : j <= i }
  IN  IF last # {} THEN lines[Max(last)] ELSE first
(* White space has the line of what comes next, at the end that of what    *)
(* came last.                                                              *)
LineOfNext(lines, first, i) ==
  LET solid == { j \in DOMAIN lines : lines[j] # 0 }
      next == { j \in solid : j >= i }
  IN  CASE next # {} -> lines[Min(next)] [] next = {} /\ solid # {} -> lines[Max(solid)] [] OTHER -> first
Filled(lines, first) == [i \in DOMAIN lines |-> LineOfNext(lines, first, i)]
TableOf(walked, first) ==
  IF walked.found /\ Range(walked.lines) \ {0, first} # {} THEN Filled(walked.lines, first) ELSE <<>>

(* What Parse records: no table for a literal block, a scalar on one line  *)
(* and a value that is not found.                                          *)
Table(data, node) ==
  IF node.style = "literal" \/ node.value = <<>> \/ FirstLine(node) > LineCount(data) THEN <<>>
  ELSE TableOf(Walked(data, node), FirstLine(node))

-----------------------------------------------------------------------------
(* ScalarContentLine: the line of the source for a line of the value, both *)
(* lines of the value and offsets counted from 0.                          *)
ScalarOffsetLine(node, table, off) ==
  CASE node.style = "literal" -> node.line + 1 + Len(SelectSeq(SubSeq(node.value, 1, off), LAMBDA c : c = "\n"))
    [] node.style # "literal" /\ table # <<>> -> table[Min({off + 1, Len(table)})]
    [] OTHER -> FirstLine(node)

LineOffset(value, i) ==
  LET ends == { j \in DOMAIN value : value[j] = "\n" }
  IN  CASE i = 0 -> 0
        [] i > 0 /\ Cardinality(ends) < i -> Len(value)
        [] OTHER -> CHOOSE j \in ends : Cardinality({ k \in ends : k <= j }) = i
ScalarContentLine(node, table, i) ==
  IF node.style = "literal" THEN node.line + 1 + i ELSE ScalarOffsetLine(node, table, LineOffset(node.value, i))

-----------------------------------------------------------------------------
(* How YAML folds lines (yaml.v3).  A line is the pieces it has in the     *)
(* source, each with what it is in the value; what is folded keeps its     *)
(* line.  In a folded block a line that starts with a blank is left as it  *)
(* is, with the breaks around it.                                          *)
Pieces(pieces, line) == FlattenSeq([i \in DOMAIN pieces |-> [j \in DOMAIN pieces[i].val |-> [t |-> pieces[i].val[j], line |-> line]]])
Indented(pieces) == pieces # <<>> /\ pieces[1].val = <<" ">>
Gap(t, n) == [i \in 1..n |-> [t |-> t, line |-> 0]]
Between(s, pieces, style) ==
  CASE s.out = <<>> -> Gap("\n", s.blanks)
    [] s.out # <<>> /\ style = "folded" /\ (s.indented \/ Indented(pieces)) -> Gap("\n", s.blanks + 1)
    [] OTHER -> IF s.blanks = 0 THEN Gap(" ", 1) ELSE Gap("\n", s.blanks)
FoldLine(s, pieces, style) ==
  IF pieces = <<>> THEN [s EXCEPT !.blanks = @ + 1, !.line = @ + 1]
  ELSE [out |-> s.out \o Between(s, pieces, style) \o Pieces(pieces, s.line), blanks |-> 0,
        indented |-> Indented(pieces), line |-> s.line + 1]
FoldedLines(lines, style, first) ==
  LET folded == FoldLeft(LAMBDA s, pieces : FoldLine(s, pieces, style),
                         [out |-> <<>>, blanks |-> 0, indented |-> FALSE, line |-> first], lines).out
  IN  IF style = "folded" THEN folded \o Gap("\n", 1) ELSE folded
LiteralLines(lines, first) ==
  FlattenSeq([i \in DOMAIN lines |-> Pieces(lines[i], first + i - 1) \o Gap("\n", 1)])
=============================================================================
