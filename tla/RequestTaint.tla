---------------------------- MODULE RequestTaint ----------------------------
(***************************************************************************)
(* User-controlled variables in requests (rules/gl025.go): what a curl     *)
(* command sends, also by way of variables of the script.  $USER is a      *)
(* variable that a user controls, "tr" what cleans a value, and "-data"    *)
(* an option whose argument curl encodes.                                  *)
(***************************************************************************)
EXTENDS ShellLines

References == {"$A", "$B"}
Named == [ref \in References |-> IF ref = "$A" THEN "A=" ELSE "B="]
NoTaint == [name \in Assignments |-> FALSE]

(* substitutionBodies, commandsWithSubstitutions: the commands of a line   *)
(* and those in its "$(...)", outside of single quotes.                    *)
SubstDepth(text, from, to) ==
  FoldLeft(LAMBDA n, c : n + (CASE c \in {"(", "$("} -> 1 [] c = ")" -> -1 [] OTHER -> 0), 0, SubSeq(text, from, to))
SubstEnd(text, from) ==
  LET ends == { j \in from..Len(text) : SubstDepth(text, from, j) = 0 } IN IF ends = {} THEN 0 ELSE Min(ends)
SubstBody(text, s, end) ==
  IF end = 0 THEN [s EXCEPT !.i = @ + 1]
  ELSE [s EXCEPT !.i = end + 1, !.bodies = Append(@, SubSeq(text, s.i + 1, end - 1))]
SubstStep(text, s) ==
  CASE s.quote -> [s EXCEPT !.i = @ + 1, !.quote = text[s.i] # "'"]
    [] ~s.quote /\ text[s.i] = "\\" -> [s EXCEPT !.i = @ + 2]
    [] ~s.quote /\ text[s.i] = "'" -> [s EXCEPT !.i = @ + 1, !.quote = TRUE]
    [] ~s.quote /\ text[s.i] = "$(" -> SubstBody(text, s, SubstEnd(text, s.i))
    [] OTHER -> [s EXCEPT !.i = @ + 1]
RECURSIVE SubstBodies(_, _)
SubstBodies(text, s) == IF s.i > Len(text) THEN s.bodies ELSE SubstBodies(text, SubstStep(text, s))
SubstitutionBodies(text) == SubstBodies(text, [i |-> 1, quote |-> FALSE, bodies |-> <<>>])

RECURSIVE CommandsWithSubstitutions(_)
CommandsWithSubstitutions(text) ==
  LET cmds == ShellCommands(text)
      bodies == SubstitutionBodies(text)
  IN  [i \in DOMAIN cmds |-> cmds[i].text] \o FlattenSeq([i \in DOMAIN bodies |-> CommandsWithSubstitutions(bodies[i])])

(* What the requests of a line send, without the arguments curl encodes.   *)
IsRequest(text) == CommandName(CommandWords(text)) = "curl"
ArgumentEnd(text, i) == Min({ j \in i..Len(text) + 1 : At(text, j) \in Blank \union {"none"} })
RECURSIVE WithoutEncoded(_)
WithoutEncoded(text) ==
  CASE text = <<>> -> <<>>
    [] text # <<>> /\ text[1] = "-data" /\ At(text, 2) = " " ->
         WithoutEncoded(SubSeq(text, ArgumentEnd(text, 3), Len(text)))
    [] OTHER -> <<text[1]>> \o WithoutEncoded(Tail(text))
RequestOf(line) == WithoutEncoded(FlattenSeq(SelectSeq(CommandsWithSubstitutions(line), IsRequest)))

-----------------------------------------------------------------------------
(* userVarInRequest, a line at a time: the variables that hold what a user *)
(* controls, and the line of the first request that sends it, or none.     *)
TaintedRef(text, tainted) == \E ref \in Range(text) \intersect References : tainted[Named[ref]]
Controlled(value, tainted) == ("$USER" \in Range(value) /\ "tr" \notin Range(value)) \/ TaintedRef(value, tainted)
Assigned(text, tainted) ==
  IF text[1] \notin Assignments THEN tainted ELSE [tainted EXCEPT ![text[1]] = Controlled(Tail(text), tainted)]

Sends(request, tainted) == "$USER" \in Range(request) \/ TaintedRef(request, tainted)
CheckLine(s, line) ==
  LET tainted == Assigned(line.text, s.tainted)
  IN  [tainted |-> tainted,
       at |-> IF s.at = {} /\ Sends(RequestOf(line.text), tainted) THEN {line.line} ELSE s.at]
UserVarInRequest(script) ==
  FoldLeft(CheckLine, [tainted |-> NoTaint, at |-> {}], LogicalLines(script)).at
=============================================================================
