----------------------------- MODULE Prefilter -----------------------------
(***************************************************************************)
(* The literals that every match of a regular expression must contain      *)
(* (rules/prefilter.go).  A text without any of them is not matched at     *)
(* all.                                                                    *)
(*                                                                         *)
(* An expression is [op, text, sub]: text are the letters of a literal,    *)
(* those of a class, or the two cases of a letter that is folded.  The     *)
(* assertion is the start of the text.  An empty list stands for nil.      *)
(***************************************************************************)
EXTENDS Integers, SequencesExt, FiniteSetsExt

CONSTANTS MaxExact,  \* the strings an expression is spelled out to
          MaxClass   \* the letters of a class that is

ASSUME LimitsAssumption == MaxExact \in Nat \ {0} /\ MaxClass \in Nat

Within(text, literal) ==
  \E i \in 1..Len(text) - Len(literal) + 1 : SubSeq(text, i, i + Len(literal) - 1) = literal

-----------------------------------------------------------------------------
(* exactStrings: all that an expression can match.                         *)
Product(as, bs) ==
  IF Len(as) * Len(bs) > MaxExact THEN <<>>
  ELSE FlattenSeq([i \in DOMAIN as |-> [j \in DOMAIN bs |-> as[i] \o bs[j]]])

Spelled(class) == IF Len(class) > MaxClass THEN <<>> ELSE [i \in DOMAIN class |-> <<class[i]>>]
Maybe(set) == IF set # <<>> /\ Len(set) < MaxExact THEN << <<>> >> \o set ELSE <<>>
Either(set, other) == IF set = <<>> \/ other = <<>> \/ Len(set) + Len(other) > MaxExact THEN <<>> ELSE set \o other
Both(set, other) == IF set = <<>> \/ other = <<>> THEN <<>> ELSE Product(set, other)

RECURSIVE ExactStrings(_)
ExactStrings(re) ==
  LET sets == [i \in DOMAIN re.sub |-> ExactStrings(re.sub[i])]
  IN  CASE re.op = "literal" -> <<re.text>>
        [] re.op \in {"empty", "assertion"} -> << <<>> >>
        [] re.op = "class" -> Spelled(re.text)
        [] re.op = "capture" -> sets[1]
        [] re.op = "quest" -> Maybe(sets[1])
        [] re.op = "alternate" -> FoldLeft(Either, sets[1], Tail(sets))
        [] re.op = "concat" -> FoldLeft(Both, << <<>> >>, sets)
        [] OTHER -> <<>>

-----------------------------------------------------------------------------
(* requiredLiterals.                                                       *)
Shortest(literals) == IF literals = <<>> THEN 0 ELSE Min({ Len(literals[i]) : i \in DOMAIN literals })
Consider(best, literals) == IF Shortest(literals) > Shortest(best) THEN literals ELSE best

(* Of a sequence of parts the best set counts; neighbours that match a few *)
(* strings are joined.                                                     *)
Exact(s, set) ==
  CASE s.run = <<>> -> [s EXCEPT !.run = set]
    [] s.run # <<>> /\ Product(s.run, set) # <<>> -> [s EXCEPT !.run = Product(@, set)]
    [] OTHER -> [best |-> Consider(s.best, s.run), run |-> set]
Inexact(s, literals) == [best |-> Consider(Consider(s.best, s.run), literals), run |-> <<>>]
Part(s, set, literals) == IF set = <<>> THEN Inexact(s, literals) ELSE Exact(s, set)
BestOf(s) == Consider(s.best, s.run)

AllOf(lists) == IF \E i \in DOMAIN lists : lists[i] = <<>> THEN <<>> ELSE FlattenSeq(lists)

RECURSIVE RequiredLiterals(_)
RequiredLiterals(re) ==
  LET parts == [i \in DOMAIN re.sub |-> [set |-> ExactStrings(re.sub[i]), literals |-> RequiredLiterals(re.sub[i])]]
  IN  CASE re.op = "literal" -> <<re.text>>
        [] re.op \in {"capture", "plus"} -> parts[1].literals
        [] re.op = "concat" ->
             BestOf(FoldLeft(LAMBDA s, part : Part(s, part.set, part.literals), [best |-> <<>>, run |-> <<>>], parts))
        [] re.op = "alternate" -> AllOf([i \in DOMAIN parts |-> parts[i].literals])
        [] OTHER -> <<>>

(* A literal that contains another one says nothing more.                  *)
(* A slip: the shorter ones go.                                            *)
RedundantShort(literals, i) ==
  \E j \in DOMAIN literals \ {i} : Within(literals[j], literals[i]) /\ (literals[i] # literals[j] \/ j < i)
Redundant(literals, i) ==
  \E j \in DOMAIN literals \ {i} : Within(literals[i], literals[j]) /\ (literals[i] # literals[j] \/ j < i)
Minimal(literals) ==
  IF <<>> \in Range(literals) THEN {}
  ELSE { literals[i] : i \in { i \in DOMAIN literals : ~Redundant(literals, i) } }

AnyOf(re) == Minimal(RequiredLiterals(re))
Possible(anyOf, text) == anyOf = {} \/ \E literal \in anyOf : Within(text, literal)

-----------------------------------------------------------------------------
(* What an expression matches: where a match that starts at i can end.     *)
RECURSIVE Ends(_, _, _)
RECURSIVE Repeated(_, _, _)
Repeated(re, text, from) ==
  LET next == from \union UNION { Ends(re, text, i) : i \in from }
  IN  IF next = from THEN from ELSE Repeated(re, text, next)
Ends(re, text, i) ==
  CASE re.op = "literal" -> IF SubSeq(text, i, Min({Len(text), i + Len(re.text) - 1})) = re.text THEN {i + Len(re.text)} ELSE {}
    [] re.op \in {"class", "folded"} -> IF i <= Len(text) /\ text[i] \in Range(re.text) THEN {i + 1} ELSE {}
    [] re.op = "empty" -> {i}
    [] re.op = "assertion" -> IF i = 1 THEN {i} ELSE {}
    [] re.op = "capture" -> Ends(re.sub[1], text, i)
    [] re.op = "quest" -> {i} \union Ends(re.sub[1], text, i)
    [] re.op = "plus" -> Repeated(re.sub[1], text, Ends(re.sub[1], text, i))
    [] re.op = "star" -> Repeated(re.sub[1], text, {i})
    [] re.op = "alternate" -> UNION { Ends(re.sub[k], text, i) : k \in DOMAIN re.sub }
    [] re.op = "concat" ->
         FoldLeft(LAMBDA from, sub : UNION { Ends(sub, text, j) : j \in from }, {i}, re.sub)
Matches(re, text) == \E i \in 1..Len(text) + 1 : Ends(re, text, i) # {}
=============================================================================
