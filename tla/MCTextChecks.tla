---------------------------- MODULE MCTextChecks ----------------------------
(***************************************************************************)
(* Texts for TextChecks: scripts of up to three commands with all that     *)
(* hides or makes a separator, and commands behind wrappers.               *)
(***************************************************************************)
EXTENDS TextChecks

As(as, tokens) == [i \in DOMAIN tokens |-> Mark(tokens[i], as, "none")]
Text(tokens) == As("text", tokens)
End(t, follows) == <<Mark(t, "end", follows)>>
Line == End("\n", "\n")
Pipe == End("|", "|")
Joined(marks) == FlattenSeq(marks)

(* What is one word to a shell.                                            *)
PlainWords ==
  { Text(w) : w \in
     { <<"a">>, <<"'", ";", "\n", "'">>, <<"'", "\\", "'">>, <<"'", "$(", "'">>, <<"\"", "|", "\\", "\"", "&", "\"">>,
       <<"\"", "<<", "\\", "\n", "\"">>, <<"\\", ";">>, <<"\\", "'">>, <<"a", "#">>, <<">", "&", "a">>, <<"&", ">", "a">>,
       <<">", "|", "a">>, <<"\"", "#", "'", "\"">> } }
(* A substitution in quotes, with commands of its own.                     *)
Insides ==
  { Joined(<<Text(<<"b">>), sep, Text(last)>>) :
      sep \in {Pipe, End(";", ";"), Line}, last \in {<<" ", "c">>, <<"\"", ";", "\"">>, <<"(", "c", ")">>} }
  \union { Text(<<"b", " ", "'", ")", "'">>), Joined(<<Text(<<"b", " ">>), As("drop", <<"#", ")">>), Line, Text(<<"c">>)>>) }
Substitutions == { Joined(<<Text(<<"\"", "$(">>), inside, Text(<<")", "\"">>)>>) : inside \in Insides }
  \union { Joined(<<Text(<<"\"", "$(", "\"", "$(">>), inside, Text(<<")", "\"", ")", "\"">>)>>) : inside \in Insides }
  \union { Joined(<<Text(<<"$(">>), inside, Text(<<")">>)>>) : inside \in Insides }

Separators ==
  { End(t, t) : t \in {";", "|", "&", "\n"} }
  \union { Joined(<<End(t, t \o t), As("drop", <<t>>)>>) : t \in {"|", "&"} }
  \union { Joined(<<Pipe, As("drop", <<" ", "\n">>)>>),
           Joined(<<Text(<<" ">>), As("drop", <<"#", "'", ";">>), Line>>) }

(* Two commands, the first of two words.                                   *)
Blanks == { Text(<<" ">>), Joined(<<As("drop", <<"\\">>), As("joint", <<"\n">>)>>) }
Script(marks) == [is |-> "script", marks |-> marks, given |-> <<>>]
TwoCommands ==
  { Script(Joined(<<w, Text(<<" ">>), v, sep, Text(<<"a">>)>>)) :
      w \in PlainWords, v \in PlainWords, sep \in Separators }
  \union { Script(Joined(<<w, blank, v, sep, u>>)) :
             w \in {Text(<<"a">>), Text(<<"'", ";", "\n", "'">>)}, blank \in Blanks, v \in Substitutions, sep \in Separators,
             u \in {Text(<<"a">>), Text(<<" ", "'", "#", "'">>)} }
ThreeCommands ==
  { Script(Joined(<<u, p, v, q, Text(<<"a">>)>>)) :
      u \in {<<>>} \union Substitutions, p \in Separators,
      v \in {Text(<<" ">>), Text(<<"\\", "\\">>), Joined(<<Text(<<"\"", "$(", "b">>), Line, Text(<<"(", "c", ")", ")", "\"">>)>>)},
      q \in Separators }

(* Here-documents: data, or the script of a shell.                         *)
Bodies2 == { <<"b">>, <<"b", ";", "\n", "b">>, <<"'">>, <<>> }
AsScript(body) ==
  Joined([i \in DOMAIN body |-> IF body[i] \in {";", "\n"} THEN End(body[i], body[i]) ELSE Text(<<body[i]>>)])
Openers ==
  { [marks |-> Text(<<"cat", " ", "<<">>), runs |-> FALSE],
    [marks |-> Text(<<"bash", " ", "-x", " ", "<<">>), runs |-> TRUE],
    [marks |-> Text(<<"sudo", " ", "sh", " ", "-s", " ", "a", " ", "<<">>), runs |-> TRUE],
    [marks |-> Text(<<"sh", " ", "a", " ", "<<">>), runs |-> FALSE],
    [marks |-> Joined(<<Text(<<"cat", " ", "<<", " ">>), Pipe, Text(<<" ", "bash">>)>>), runs |-> TRUE],
    [marks |-> Joined(<<Text(<<"cat", " ", "<<", " ">>), End(";", ";"), Text(<<" ", "bash">>)>>), runs |-> FALSE] }
HereDocuments ==
  { Script(Joined(<<first, opener.marks, Line,
                    IF opener.runs THEN AsScript(body) ELSE As("drop", body),
                    IF opener.runs THEN Line ELSE As("drop", <<"\n">>), As("drop", end), Line, Text(<<"a">>)>>)) :
      first \in {<<>>, Joined(<<Text(<<"a">>), End(";", ";")>>), Joined(<<Text(<<"'", "\n", "'">>), Pipe>>)},
      opener \in Openers, body \in Bodies2 \ {<<"'">>}, end \in {<<"E">>, <<" ", "E">>} }
  \union { Script(Joined(<<Text(<<"cat", " ", "<<", " ", "<<">>), Line, As("drop", body \o <<"\n", "E", "\n", "b", "\n", "E">>), Line,
                           Text(<<"a">>)>>)) : body \in Bodies2 }

(* Scripts that a command gives to a shell.                                *)
Inner == { Text(<<"b">>), Joined(<<Text(<<"b">>), End(";", ";"), Text(<<"c">>)>>),
           Joined(<<Text(<<"b">>), Line, Text(<<"c">>)>>) }
GivenScripts ==
  { [is |-> "script",
     marks |-> Joined(<<before, Text(shell \o <<" ", "-c", " ", "'">> \o Tokens(inner) \o <<"'">>), sep, Text(<<"a">>)>>),
     given |-> << [at |-> IF before = <<>> THEN 1 ELSE 2, marks |-> inner] >>] :
      before \in {<<>>, Joined(<<Text(<<"a">>), Line>>), Joined(<<Text(<<"a">>), End("&", "&&"), As("drop", <<"&">>)>>)},
      shell \in {<<"sh">>, <<"/bin/sh", " ", "-x">>, <<"sudo", " ", "-u", " ", "a", " ", "bash", " ", "-o", " ", "a">>},
      inner \in Inner, sep \in Separators }

-----------------------------------------------------------------------------
(* Commands.                                                               *)
Command(text, program) == [is |-> "command", text |-> text, program |-> program]

Before ==
  { <<"sudo", " ">>, <<"sudo", " ", "-u", " ", "x", " ">>, <<"sudo", " ", "-nu", " ", "'", "x", " ", "'", " ">>,
    <<"sudo", " ", "-unode", " ">>, <<"sudo", " ", "--user", " ", "x", " ">>, <<"sudo", " ", "--user", "=x", " ", "--", " ">>,
    <<"timeout", " ", "5", " ">>, <<"timeout", " ", "-k", " ", "5", " ", "\"", "5", "\"", " ">>, <<"nohup", "\n">>,
    <<"env", " ", "-u", " ", "x", " ">>, <<"env", " ", "-x", " ", "A=", " ", "A=", "'", " ", "'", " ">>,
    <<"A=", "x", " ">>, <<"if", " ">>, <<"!", " ", "(", " ">>, <<"(">>, <<"A=", "$(">>, <<"$(">>, <<>> }
Wrapped ==
  { Command(p \o q \o r \o <<"a", " ", "'", "b", " ", "'">>, <<<<"a">>, <<"b", " ">>>>) :
      p \in Before, q \in Before, r \in Before }
  \union { Command(p \o <<"env", " ", "-S", " ", "'">> \o q \o <<"a", " ", "b", "'", " ", "c">>, 
                   <<<<"a">>, <<"b">>, <<"c">>>>) :
             p \in Before, q \in { q \in Before : "'" \notin Range(q) } }

Letter == {"a", " ", "'", "\"", "\\", "\n", "sudo", "-u"}
AnyText ==
  { Command(<<"sudo", " ">> \o t, <<>>) :
      t \in { t \in UNION { [1..n -> Letter] : n \in 1..4 } : t[1] \notin Blank /\ t[Len(t)] \notin Blank } }

(* Case labels, quoted ones too, in front of commands.                     *)
Labels == { As("label", l) : l \in { <<"b", ")">>, <<" ", "'", ";", ")", "'", ")">>, <<"\\", ")", ")">> } }
Cases ==
  { Script(Joined(<<Text(<<"case", " ", "in">>), sep, label, u, sep2, label2, v>>)) :
      sep \in {Line, Joined(<<Text(<<" ">>), As("drop", <<"#", ")">>), Line>>)}, label \in Labels, u \in Substitutions \union PlainWords,
      sep2 \in {Line, Joined(<<End(";", ";"), As("drop", <<";", "\n">>)>>)}, label2 \in Labels \union {<<>>},
      v \in {Text(<<"(", "c", ")">>), Text(<<" ", "c", " ", "\"", ")", "\"">>)} }

(* Lines: wrapped commands, and continued ones.                            *)
InFront == { <<>>, <<" ", "sudo", " ">>, <<"sudo", " ", "-u", " ", "x", " ">>, <<"A=", "x", " ">>, <<"timeout", " ", "5", " ">>, <<"env", " ">> }
WrappedLines ==
  { [is |-> "lines", text |-> p \o <<"a", " ", "'", "b", "'">> \o sep \o q \o v \o sep \o r \o <<"a">>] :
      p \in InFront, q \in InFront, r \in InFront, v \in {<<"a">>, <<"\"", ";", "\"">>},
      sep \in {<<";">>, <<"|">>, <<"&", "&", " ">>, <<"\n">>, <<" ", "#", "b", "\n">>} }
ContinuedLines ==
  { [is |-> "lines", text |-> t] : t \in UNION { [1..n -> {"a", " ", "\\", "\n"}] : n \in 1..6 } }

-----------------------------------------------------------------------------
(* Regular expressions of up to three levels.                              *)
Re(op, text, sub) == [op |-> op, text |-> text, sub |-> sub]
Of(op, sub) == Re(op, <<>>, sub)
Atoms ==
  { Re("literal", <<"a">>, <<>>), Re("literal", <<"a", "b">>, <<>>), Re("literal", <<"b">>, <<>>),
    Re("folded", <<"a", "A">>, <<>>), Re("class", <<"a", "b">>, <<>>), Re("class", <<"a", "b", "A">>, <<>>),
    Re("empty", <<>>, <<>>), Of("assertion", <<>>) }
Repeats == { Of(op, <<x>>) : op \in {"capture", "star", "plus", "quest"}, x \in Atoms }
Pairs == { Of(op, <<x, y>>) : op \in {"concat", "alternate"}, x \in Atoms, y \in Atoms }
Compiled(res) == { [is |-> "regexp", re |-> re] : re \in res }
Regexps ==
  { Compiled({ Of(op, <<x, y>>) : x \in Atoms \union Repeats, y \in Atoms \union Repeats }) : op \in {"concat", "alternate"} }
  \union { Compiled({ Of(op, <<x, y>>) : x \in Pairs, y \in Atoms }) : op \in {"concat", "alternate"} }
  \union { Compiled({ Of(op, <<x, y>>) : x \in Atoms, y \in Pairs }) : op \in {"concat", "alternate"} }
  \union { Compiled({ Of("concat", <<x, y, z>>) : y \in Atoms, z \in Atoms \union Repeats }) : x \in Atoms }
  \union { Compiled({ Of(op, <<x>>) : op \in {"star", "plus", "quest"}, x \in Pairs }) }
MCSubjects == UNION { [1..n -> {"a", "b", "A"}] : n \in 0..3 }

-----------------------------------------------------------------------------
(* Scalars of up to four lines.                                            *)
Piece(src, val) == [src |-> src, val |-> val]
A == Piece(<<"a">>, <<"a">>)
B == Piece(<<"b">>, <<"b">>)
Space == Piece(<<" ">>, <<" ">>)
Escapes == [double |-> Piece(<<"\\", "n">>, <<"\n">>), single |-> Piece(<<"'", "'">>, <<"'">>)]
Quoted == [double |-> <<"\"">>, single |-> <<"'">>, plain |-> <<>>]

Source(pieces) == FlattenSeq([i \in DOMAIN pieces |-> pieces[i].src])
SourceLines(lines, break) == FlattenSeq([i \in DOMAIN lines |-> <<" ">> \o Source(lines[i]) \o <<break>>])
Scalar(data, style, col, folded, escaped) ==
  [is |-> "scalar", data |-> data, escaped |-> escaped, places |-> [i \in DOMAIN folded |-> folded[i].line],
   node |-> [line |-> 2, col |-> col, style |-> style, value |-> [i \in DOMAIN folded |-> folded[i].t]]]
Flow(lines, style, break) ==
  Scalar(<<"z", break, "k", " ">> \o Quoted[style] \o Tail(SourceLines(lines, break)) \o Quoted[style] \o <<break, "a">>,
         style, 3, FoldedLines(lines, style, 2), \E i \in DOMAIN lines : A \notin Range(lines[i]) /\ B \notin Range(lines[i]) /\ lines[i] # <<>>)
Block(lines, style, break) ==
  Scalar(<<"z", break, "k", " ", ">", break>> \o SourceLines(lines, break) \o <<"a">>, style, 3,
         IF style = "folded" THEN FoldedLines(lines, style, 3) ELSE LiteralLines(lines, 3), FALSE)

Lists(lines) == { list \in UNION { [1..n -> lines] : n \in 1..4 } : list[Len(list)] # <<>> }
Scalars ==
  { { Flow(lines, style, break) :
        lines \in { lines \in Lists({<<>>, <<A>>, <<A, Space, B>>, <<Escapes[style]>>}) : lines[1] # <<>> },
        break \in Breaks } : style \in {"double", "single"} }
  \union { { Flow(lines, "plain", break) : lines \in { lines \in Lists({<<>>, <<A>>, <<B>>, <<A, Space, B>>}) : lines[1] # <<>> },
                                           break \in Breaks } }
  \union { { Block(lines, style, break) :
               lines \in { lines \in Lists({<<>>, <<A>>, <<B>>, <<Space, A>>}) :
                             LET solid == SelectSeq(lines, LAMBDA l : l # <<>>) IN solid # <<>> /\ ~Indented(solid[1]) },
               break \in Breaks } : style \in {"folded", "literal"} }

-----------------------------------------------------------------------------
(* Scripts that set variables and send them.                               *)
ScriptLine(sets, reads, cleans, sends, text) ==
  [sets |-> sets, reads |-> reads, cleans |-> cleans, sends |-> sends, text |-> text]
Sets(sets, reads, cleans, value) == ScriptLine(sets, reads, cleans, "none", <<sets>> \o value)
Asks(sends, text) == ScriptLine("none", {}, FALSE, sends, text)
RequestLines ==
  { Sets("A=", {"$USER"}, FALSE, <<"$USER">>), Sets("B=", {"$A"}, FALSE, <<"\"", "$A", "\"">>), Sets("A=", {"$B"}, FALSE, <<"b", "$B">>),
    Sets("A=", {"$USER"}, TRUE, <<"\"", "$(", "b", " ", "$USER", " ", "|", " ", "tr", ")", "\"">>),
    Sets("B=", {"$A"}, TRUE, <<"$(", "b", " ", "$A", " ", "|", " ", "tr", ")">>),
    Sets("A=", {"$USER", "$B"}, TRUE, <<"$(", "b", " ", "$USER", "$B", " ", "|", " ", "tr", ")">>),
    Sets("B=", {}, FALSE, <<"b">>),
    ScriptLine("B=", {"$A"}, FALSE, "$A", <<"B=", "\"", "$(", "curl", " ", "$A", ")", "\"">>),
    Asks("$A", <<"curl", " ", "$A">>), Asks("$USER", <<"sudo", " ", "curl", " ", "-x", " ", "\\", "\n", " ", "\"", "$USER", "\"">>),
    Asks("$B", <<"b", " ", "\"", "$(", "a", " ", "|", " ", "curl", " ", "(", "$B", ")", ")", "\"">>),
    Asks("none", <<"curl", " ", "b", " ", "|", " ", "b", " ", "$A", ";", "$USER">>),
    Asks("none", <<"curl", " ", "-data", " ", "\"", "$B", "\"", " ", "b">>),
    Asks("none", <<"b", " ", "'", "$(", "curl", " ", "$A", ")", "'">>) }
Requests == { [is |-> "requests", lines |-> lines] : lines \in UNION { [1..n -> RequestLines] : n \in 1..3 } }

MCFamilies ==
  {TwoCommands, ThreeCommands, HereDocuments, GivenScripts, Cases, Wrapped, AnyText, WrappedLines, ContinuedLines, Requests}
    \union Regexps \union Scalars
=============================================================================
