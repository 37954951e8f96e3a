----------------------------- MODULE ShellText -----------------------------
(***************************************************************************)
(* How the rules read the text of a script (rules/shell.go): shellCommands *)
(* cuts it into simple commands, shellWords a command into words, and      *)
(* unwrapCommand drops what stands before the program.                     *)
(*                                                                         *)
(* A text is a sequence of tokens: those the code looks for, and words as  *)
(* a whole.  A substitution opens with one token, "$(", a here-document    *)
(* with "<<", which has its delimiter, E, in it.                           *)
(***************************************************************************)
EXTENDS Integers, SequencesExt, FiniteSetsExt

Quotes == {"'", "\""}
Blank == {" ", "\n"}

Trim(text) ==
  LET solid == { i \in DOMAIN text : text[i] \notin Blank }
  IN  IF solid = {} THEN <<>> ELSE SubSeq(text, Min(solid), Max(solid))

At(script, i) == IF i \in DOMAIN script THEN script[i] ELSE "none"

-----------------------------------------------------------------------------
(* shellWords, a token at a time.                                          *)
Escapable == {"$(", "\"", "\\", "\n"}  \* what a backslash escapes inside "
NoWords == [i |-> 1, words |-> <<>>, cur |-> <<>>, inWord |-> FALSE, quote |-> "none"]
Took(s, n, tokens) == [s EXCEPT !.i = @ + n, !.cur = @ \o tokens, !.inWord = TRUE]
EndWord(s) == IF s.inWord THEN [s EXCEPT !.words = Append(@, s.cur), !.cur = <<>>, !.inWord = FALSE] ELSE s

QuotedWord(text, s, c) ==
  CASE c = s.quote -> [s EXCEPT !.i = @ + 1, !.quote = "none"]
    [] c = "\\" /\ s.quote = "\"" /\ At(text, s.i + 1) \in Escapable -> Took(s, 2, <<text[s.i + 1]>>)
    [] OTHER -> Took(s, 1, <<c>>)
UnquotedWord(text, s, c) ==
  CASE c \in Quotes -> [s EXCEPT !.i = @ + 1, !.quote = c, !.inWord = TRUE]
    [] c = "\\" /\ s.i < Len(text) -> Took(s, 2, <<text[s.i + 1]>>)
    [] c \in Blank -> [EndWord(s) EXCEPT !.i = @ + 1]
    [] OTHER -> Took(s, 1, <<c>>)
WordStep(text, s) ==
  IF s.quote # "none" THEN QuotedWord(text, s, text[s.i]) ELSE UnquotedWord(text, s, text[s.i])

RECURSIVE ScanWords(_, _)
ScanWords(text, s) == IF s.i > Len(text) THEN EndWord(s).words ELSE ScanWords(text, WordStep(text, s))
ShellWords(text) == ScanWords(text, NoWords)

(* skipWords, which finds the same words on its own: where the word after  *)
(* the first n begins.                                                     *)
(* A slip: quotes are taken for letters.                                   *)
SkipTokenPlain(text, s) == IF text[s.i] = "\\" THEN [s EXCEPT !.i = @ + 2] ELSE [s EXCEPT !.i = @ + 1]
SkipToken(text, s) ==
  CASE s.quote # "none" /\ text[s.i] = s.quote -> [i |-> s.i + 1, quote |-> "none"]
    [] text[s.i] = "\\" /\ s.quote # "'" -> [s EXCEPT !.i = @ + 2]
    [] s.quote = "none" /\ text[s.i] \in Quotes -> [i |-> s.i + 1, quote |-> text[s.i]]
    [] OTHER -> [s EXCEPT !.i = @ + 1]

RECURSIVE SkipWord(_, _)
SkipWord(text, s) ==
  IF s.i > Len(text) \/ (s.quote = "none" /\ text[s.i] \in Blank) THEN s.i ELSE SkipWord(text, SkipToken(text, s))
RECURSIVE SkipBlanks(_, _)
SkipBlanks(text, i) == IF At(text, i) \in Blank THEN SkipBlanks(text, i + 1) ELSE i
RECURSIVE SkipWords(_, _, _)
SkipWords(text, n, i) ==
  IF n = 0 THEN Min({i, Len(text) + 1})
  ELSE SkipWords(text, n - 1, SkipBlanks(text, SkipWord(text, [i |-> i, quote |-> "none"])))

-----------------------------------------------------------------------------
(* unwrapCommand.  Wrappers take options, some with a value, and arguments *)
(* of their own.  An option is its letters, or a long name.                *)
Letters == [option \in {"-c", "-k", "-n", "-nu", "-o", "-s", "-S", "-u", "-unode", "-x"} |->
              CASE option = "-nu" -> <<"-n", "-u">> [] option = "-unode" -> <<"-u", "node">> [] OTHER -> <<option>>]
LongOptions == {"--user", "--other"}
IsOption(token) == token \in DOMAIN Letters \union LongOptions \union {"--"}

CommandWrappers ==
  [sudo |-> [values |-> {"-u"}, long |-> {"--user"}, args |-> 0],
   timeout |-> [values |-> {"-k"}, long |-> {}, args |-> 1],
   nohup |-> [values |-> {}, long |-> {}, args |-> 0]]
ShellKeywords == {"if", "!", "("}
Assignments == {"A=", "B="}
PosixShells == {"sh", "bash"}

(* The base name of a program.                                             *)
BaseName(token) == IF token = "/bin/sh" THEN "sh" ELSE token
CommandName(words) == IF words # <<>> /\ Len(words[1]) = 1 THEN BaseName(words[1][1]) ELSE "other"

IsOptionWord(word) == word # <<>> /\ IsOption(word[1])
Drop(n, words) == SubSeq(words, Min({n, Len(words)}) + 1, Len(words))

(* Of a cluster the first letter with a value has the rest, or the next    *)
(* word when nothing is left.                                              *)
TakesValue(wrapper, word) ==
  IF word[1] \in LongOptions THEN Len(word) = 1 /\ word[1] \in wrapper.long
  ELSE LET at == { i \in DOMAIN Letters[word[1]] : Letters[word[1]][i] \in wrapper.values }
       IN  at # {} /\ Min(at) = Len(Letters[word[1]]) /\ Len(word) = 1
RECURSIVE SkipWrapper(_, _)
SkipWrapper(wrapper, words) ==
  IF words = <<>> \/ ~IsOptionWord(words[1]) THEN Drop(wrapper.args, words)
  ELSE IF words[1] = <<"--">> THEN Drop(wrapper.args, Tail(words))
  ELSE SkipWrapper(wrapper, Drop(IF TakesValue(wrapper, words[1]) THEN 2 ELSE 1, words))

(* skipEnvOptions; -S splits its value into words.                         *)
EnvValueOptions == {"-u"}
RECURSIVE SkipEnvOptions(_)
SkipEnvOptions(words) ==
  CASE words = <<>> -> words
    [] words # <<>> /\ words[1] = <<"--">> -> Tail(words)
    [] words # <<>> /\ words[1] = <<"-S">> ->
         IF Len(words) = 1 THEN <<>> ELSE ShellWords(words[2]) \o Drop(2, words)
    [] words # <<>> /\ IsOptionWord(words[1]) ->
         SkipEnvOptions(Drop(IF words[1][1] \in EnvValueOptions /\ Len(words[1]) = 1 THEN 2 ELSE 1, words))
    [] OTHER -> words

RECURSIVE UnwrapUntil(_, _)
UnwrapUntil(words, stop) ==
  LET w == words[1]
      name == CommandName(words)
      rest == Tail(words)
  IN  CASE words = <<>> -> <<>>
        [] words # <<>> /\ name = stop -> words
        [] words # <<>> /\ name # stop /\ w = <<"env">> -> UnwrapUntil(SkipEnvOptions(rest), stop)
        [] words # <<>> /\ name # stop /\ name \in DOMAIN CommandWrappers ->
             UnwrapUntil(SkipWrapper(CommandWrappers[name], rest), stop)
        [] words # <<>> /\ name \notin DOMAIN CommandWrappers \union {stop, "env"} ->
             CASE w = <<>> \/ (Len(w) = 1 /\ w[1] \in ShellKeywords) -> UnwrapUntil(rest, stop)
               [] w # <<>> /\ w # <<"(">> /\ w[1] \in {"$(", "("} -> UnwrapUntil(<<Tail(w)>> \o rest, stop)
               [] Len(w) > 1 /\ w[1] \in Assignments /\ w[2] = "$(" -> UnwrapUntil(<<SubSeq(w, 3, Len(w))>> \o rest, stop)
               [] w # <<>> /\ w[1] \in Assignments /\ At(w, 2) # "$(" -> UnwrapUntil(rest, stop)
               [] OTHER -> words
CommandWords(text) == UnwrapUntil(ShellWords(text), "none")

(* unwrappedText: the same with the text as it is written.                 *)
UnwrappedText(text) ==
  LET words == ShellWords(text)
      rest == UnwrapUntil(words, "env")
      from == SkipWords(text, Len(words) - Len(rest), 1)
  IN  IF rest = <<>> \/ Len(rest) = Len(words) \/ "$(" \in Range(SubSeq(text, 1, from - 1)) THEN text
      ELSE SubSeq(text, from, Len(text))

-----------------------------------------------------------------------------
(* The script that a shell runs after -c (shellCText), and a shell that    *)
(* reads one from its input (readsScriptFromStdin).                        *)
RECURSIVE ShellCArg(_, _, _)
ShellCArg(args, i, sawC) ==
  CASE i > Len(args) -> 0
    [] i <= Len(args) /\ args[i] = <<"-o">> -> ShellCArg(args, i + 2, sawC)
    [] i <= Len(args) /\ IsOptionWord(args[i]) -> ShellCArg(args, i + 1, sawC \/ args[i] = <<"-c">>)
    [] OTHER -> IF sawC THEN i ELSE 0
ShellCWords(words) ==
  IF CommandName(words) \notin PosixShells THEN <<>>
  ELSE LET at == ShellCArg(Tail(words), 1, FALSE) IN IF at = 0 THEN <<>> ELSE <<Tail(words)[at]>>
ShellCText(text) == ShellCWords(CommandWords(text))

RECURSIVE ReadsStdin(_)
ReadsStdin(args) ==
  CASE args = <<>> -> TRUE
    [] args # <<>> /\ args[1] = <<"-o">> -> ReadsStdin(Drop(2, args))
    [] args # <<>> /\ args[1] \in {<<"-x">>, <<"--other">>} -> ReadsStdin(Tail(args))
    [] OTHER -> args[1] = <<"-s">>
ReadsScriptFromStdin(words) == CommandName(words) \in PosixShells /\ ReadsStdin(Tail(words))

BeforeHeredoc(text) ==
  LET at == { i \in DOMAIN text : text[i] = "<<" } IN IF at = {} THEN text ELSE SubSeq(text, 1, Min(at) - 1)
ShellReadsHeredoc(cmds, at) ==
  \/ ReadsScriptFromStdin(CommandWords(BeforeHeredoc(cmds[at].text)))
  \/ /\ cmds[at].piped /\ at < Len(cmds)
     /\ ReadsScriptFromStdin(CommandWords(cmds[at + 1].text))

-----------------------------------------------------------------------------
(* shellCommands, a token at a time: s.i is the next one, start the line   *)
(* the command began on, substs the parentheses open in each "$(...)".     *)
Start == [i |-> 1, cmds |-> <<>>, cur |-> <<>>, line |-> 0, start |-> -1, quote |-> "none",
          substs |-> <<>>, heredocs |-> 0, heredocCmd |-> 0]

Wrote(s, n, tokens) == [s EXCEPT !.i = @ + n, !.cur = @ \o tokens]
Added(s, n, tokens) ==
  [Wrote(s, n, tokens) EXCEPT !.start = IF @ < 0 /\ ~(Range(tokens) \subseteq Blank) THEN s.line ELSE @]
Emit(s, n, follows) ==
  [s EXCEPT !.i = @ + n, !.cur = <<>>, !.start = -1,
            !.cmds = IF Trim(s.cur) = <<>> THEN @
                     ELSE Append(@, [text |-> Trim(s.cur), line |-> s.start, piped |-> follows = "|",
                                     orElse |-> follows = "||", andThen |-> follows = "&&"])]

Lines(tokens) == Len(SelectSeq(tokens, LAMBDA t : t = "\n"))

InQuotes(script, s, c) ==
  CASE c = "\\" /\ s.quote = "\"" /\ s.i < Len(script) ->
         [Wrote(s, 2, <<c, script[s.i + 1]>>) EXCEPT !.line = @ + Lines(<<script[s.i + 1]>>)]
    [] c = "$(" /\ s.quote = "\"" -> [Wrote(s, 1, <<c>>) EXCEPT !.substs = Append(@, 0), !.quote = "none"]
    [] c = s.quote -> [Wrote(s, 1, <<c>>) EXCEPT !.quote = "none"]
    [] OTHER -> [Wrote(s, 1, <<c>>) EXCEPT !.line = @ + Lines(<<c>>)]

(* The ) that closes a "$(...)" leads back into the quotes.                *)
ClosesSubst(s, c) == c = ")" /\ s.substs # <<>> /\ Last(s.substs) = 0
Counted(s, c) ==
  IF s.substs = <<>> THEN s
  ELSE [s EXCEPT !.substs[Len(s.substs)] = CASE c \in {"(", "$("} -> @ + 1 [] c = ")" -> @ - 1 [] OTHER -> @]

(* The rest of a line, from token i on.                                    *)
EndOfLine(script, i) == Min({ j \in i..Len(script) + 1 : At(script, j) \in {"\n", "none"} })

IsRedirection(script, i) ==
  CASE script[i] = "&" -> At(script, i - 1) \in {">", "<"} \/ At(script, i + 1) = ">"
    [] script[i] = "|" -> At(script, i - 1) = ">"
    [] OTHER -> FALSE

(* skipHeredoc: the last token of the body that starts after token i, and  *)
(* the lines it has.                                                       *)
RECURSIVE SkipHeredoc(_, _, _)
SkipHeredoc(script, from, lines) ==
  LET end == EndOfLine(script, from)
  IN  CASE from > Len(script) + 1 -> [end |-> Len(script) + 1, lines |-> lines]
        [] from <= Len(script) + 1 /\ Trim(SubSeq(script, from, end - 1)) = <<"E">> -> [end |-> end, lines |-> lines + 1]
        [] OTHER -> SkipHeredoc(script, end + 1, lines + 1)

(* heredocCommands leaves the line of the delimiter out.                   *)
HeredocBody(body) ==
  LET breaks == { i \in DOMAIN body : body[i] = "\n" }
      last == IF breaks = {} THEN 0 ELSE Max(breaks)
  IN  IF Trim(SubSeq(body, last + 1, Len(body))) = <<"E">> THEN SubSeq(body, 1, last) ELSE body
Shifted(cmds, by) == [i \in DOMAIN cmds |-> [cmds[i] EXCEPT !.line = @ + by]]

RECURSIVE ShellCommands(_)
HeredocCommands(body, first) == Shifted(ShellCommands(HeredocBody(body)), first)

(* A slip: a body is always data.                                          *)
AfterBodySkipped(script, s, runs, skipped) ==
  [s EXCEPT !.i = skipped.end, !.line = @ + skipped.lines, !.heredocs = @ - 1]
AfterBody(script, s, runs, skipped) ==
  [s EXCEPT !.i = skipped.end, !.line = @ + skipped.lines, !.heredocs = @ - 1,
            !.cmds = IF runs THEN @ \o HeredocCommands(SubSeq(script, s.i + 1, skipped.end - 1), s.line) ELSE @]
RECURSIVE Bodies(_, _, _)
Bodies(script, s, runs) ==
  IF s.heredocs = 0 THEN [s EXCEPT !.i = @ + 1]
  ELSE Bodies(script, AfterBody(script, s, runs, SkipHeredoc(script, s.i + 1, 0)), runs)

(* s.i stays at the newline, then at the last token of each body.          *)
NewLine(script, s) ==
  LET after == [Emit(s, 0, "\n") EXCEPT !.line = @ + 1]
  IN  Bodies(script, after, after.heredocs = 1 /\ ShellReadsHeredoc(after.cmds, after.heredocCmd))

Unquoted(script, s, c) ==
  CASE c = "\\" /\ s.i < Len(script) ->
         IF script[s.i + 1] = "\n" THEN [Wrote(s, 2, <<" ">>) EXCEPT !.line = @ + 1]
         ELSE Added(s, 2, <<c, script[s.i + 1]>>)
    [] c \in Quotes -> [Added(s, 1, <<c>>) EXCEPT !.quote = c]
    [] c = "#" /\ (s.cur = <<>> \/ script[s.i - 1] = " ") -> [s EXCEPT !.i = EndOfLine(script, s.i)]
    [] c = "<<" -> [Added(s, 1, <<c>>) EXCEPT !.heredocs = @ + 1,
                                              !.heredocCmd = IF s.heredocs = 0 THEN Len(s.cmds) + 1 ELSE @]
    [] c = "\n" -> NewLine(script, s)
    [] c = ";" -> Emit(s, 1, c)
    [] c \in {"&", "|"} /\ ~IsRedirection(script, s.i) ->
         IF At(script, s.i + 1) = c THEN Emit(s, 2, IF c = "|" THEN "||" ELSE "&&") ELSE Emit(s, 1, c)
    [] OTHER -> Added(s, 1, <<c>>)

CommandStep(script, s) ==
  CASE s.quote # "none" -> InQuotes(script, s, script[s.i])
    [] s.quote = "none" /\ ClosesSubst(s, script[s.i]) ->
         [Wrote(s, 1, <<")">>) EXCEPT !.substs = Front(@), !.quote = "\""]
    [] OTHER -> Unquoted(script, Counted(s, script[s.i]), script[s.i])

RECURSIVE ScanCommands(_, _)
ScanCommands(script, s) ==
  IF s.i > Len(script) THEN Emit(s, 1, "end").cmds ELSE ScanCommands(script, CommandStep(script, s))

(* The commands of a shell's -c come after all others.                     *)
MayRunShellC(script) ==
  /\ \E i \in DOMAIN script : BaseName(script[i]) \in PosixShells /\ At(script, i + 1) = " "
  /\ \E i \in DOMAIN script : script[i] = "-c" /\ At(script, i + 1) = " "
InnerCommands(cmd) ==
  FlattenSeq([i \in DOMAIN ShellCText(cmd.text) |-> Shifted(ShellCommands(ShellCText(cmd.text)[i]), cmd.line)])
ShellCommands(script) ==
  LET cmds == ScanCommands(script, Start)
  IN  IF MayRunShellC(script) THEN cmds \o FlattenSeq([i \in DOMAIN cmds |-> InnerCommands(cmds[i])]) ELSE cmds
=============================================================================
