--------------------------- MODULE MCPipelineFiles ---------------------------
(***************************************************************************)
(* The repositories PipelineFiles is checked on: the root top, two files a *)
(* and b that name each other, the root and the rest, and three files that *)
(* only get named: gone can't be used, far is outside the root and old is  *)
(* excluded.                                                               *)
(***************************************************************************)
EXTENDS PipelineFiles

CONSTANTS top, a, b, gone, far, old

Inc(paths)  == { [paths |-> <<p>>, wildcard |-> FALSE, rules |-> FALSE] : p \in paths }
Cond(paths) == { [paths |-> <<p>>, wildcard |-> FALSE, rules |-> TRUE] : p \in paths }
Glob(paths) == { [paths |-> paths, wildcard |-> TRUE, rules |-> FALSE] }
Trig(paths) == { [path |-> p, guess |-> FALSE] : p \in paths }
Guess(paths) == { [path |-> p, guess |-> TRUE] : p \in paths }

(* Files with up to t child pipelines and up to n local includes. *)
Files(triggers, t, entries, n) ==
  { [usable |-> TRUE, refs |-> References(s, e)] :
      s \in BoundedSeq(triggers, t), e \in BoundedSeq(entries, n) }

Unusable == [usable |-> FALSE, refs |-> << >>]
Plain    == [usable |-> TRUE, refs |-> << >>]

Repositories(rs, as, bs) ==
  { (top :> x) @@ (a :> y) @@ (b :> z) @@ (gone :> Unusable) @@ (far :> Plain) @@ (old :> Plain) :
      x \in rs, y \in as, z \in bs }

(* Cycles, shared files, files outside the root and excluded ones. *)
ShapeTrees ==
  Repositories(Files(Trig({a, far}), 1, Inc({a, b}) \cup Glob(<<a, b, gone>>), 2),
               Files(Trig({top, b}), 1, Inc({top, b, far}), 2),
               Files(Trig({a}), 1, Inc({top, a, gone, old}), 1))

(* Files that can't be used, named with and without rules: and guesses. *)
StrictTrees ==
  Repositories(Files(Trig({a, gone}) \cup Guess({b}), 1,
                     Inc({a, gone}) \cup Cond({a, b, gone}), 2),
               Files(Trig({b, gone}), 1, Inc({b, gone}) \cup Cond({gone}), 1),
               Files(Guess({gone}), 1, Inc({a, gone}) \cup Cond({gone}), 1))

AllTrees == ShapeTrees \cup StrictTrees
=============================================================================
