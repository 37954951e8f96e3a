-------------------------- MODULE MCShellCheckRun --------------------------
(* Documents with scripts in every place that Run looks at.                *)
EXTENDS ShellCheckRun

(* A command on its line, one of - |- or - >-, blocks of - | with one line *)
(* and two, and a quoted scalar whose lines the parser does not know.      *)
Scalar(line, at, breaks, exact) == [line |-> line, at |-> at, breaks |-> breaks, exact |-> exact]
Line(n) == Scalar(n, <<n>>, FALSE, TRUE)
Stripped(n) == Scalar(n, <<n + 1>>, FALSE, TRUE)
Single(n) == Scalar(n, <<n + 1>>, TRUE, TRUE)
Block(n) == Scalar(n, <<n + 1, n + 2>>, TRUE, TRUE)
Folded(n) == Scalar(n, <<n, n + 2>>, TRUE, FALSE)

Without == << >>
AllDocs ==
  { [top |-> Without, default |-> Without, jobs |-> << >>],
    [top |-> [before_script |-> <<Line(1)>>, after_script |-> << >>], default |-> Without,
     jobs |-> << [script |-> <<Stripped(3), Folded(5)>>] >>],
    [top |-> Without, default |-> [hooks |-> <<Line(2)>>], jobs |-> << [run |-> <<Block(4), Single(7)>>] >>],
    [top |-> Without, default |-> Without,
     jobs |-> << [before_script |-> <<Folded(2)>>],
                 [script |-> <<Line(5), Stripped(6)>>, after_script |-> << >>] >>] }

NoCode == -1
=============================================================================
