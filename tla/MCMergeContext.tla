--------------------------- MODULE MCMergeContext ---------------------------
(***************************************************************************)
(* The pipelines MergeContext is checked on: a root and up to three files, *)
(* with includes of every kind and with mappings that several files set to *)
(* different depths.                                                       *)
(***************************************************************************)
EXTENDS MergeContext

CONSTANTS root, a, b, c

Keys == {".t", "default", "job", "include"}

Paths == { <<k>> : k \in Keys } \cup { <<k, "script">> : k \in Keys }
         \cup { <<k, "image">> : k \in Keys } \cup { <<k, "image", "name">> : k \in Keys }

(* What a file may have at a key: nothing, a scalar, or a mapping. *)
Below(k) ==
  { {}, {<<k>>}, {<<k>>, <<k, "script">>}, {<<k>>, <<k, "image">>},
    {<<k>>, <<k, "script">>, <<k, "image">>, <<k, "image", "name">>} }

(* The lines a file has its entries on; a scalar takes two. *)
LineOf(p) ==
  (IF Top(p) = "include" THEN 0 ELSE 3) + Len(p) + (IF Len(p) > 1 /\ p[2] = "image" THEN 2 ELSE 0)

(* The file d with these paths, those in empty being mappings without keys. *)
Having(d, paths, empty) ==
  [p \in paths |->
     LET above == p \in empty \/ \E q \in paths : p \in Above(q)
     IN  [line |-> LineOf(p), mapping |-> above, value |-> d, breaks |-> IF above THEN 0 ELSE 1]]

Trees4(r, x, y, z) == (root :> r) @@ (a :> x) @@ (b :> y) @@ (c :> z)

At(d, k) ==
  { Having(d, s \cup (IF d = root THEN {<<"include">>} ELSE {}), e) :
      s \in Below(k), e \in {{}, {<<k>>, <<k, "image">>}} }

(* Every combination of what three files have at one key, for three ways   *)
(* to include them.                                                        *)
Merges ==
  { [includes |-> i, content |-> t] :
      i \in { Trees4(<<a, b>>, << >>, << >>, << >>), Trees4(<<a>>, <<b>>, << >>, << >>),
              Trees4(<<b, a>>, << >>, << >>, << >>) },
      t \in UNION { { Trees4(r, x, y, << >>) : r \in At(root, k), x \in At(a, k), y \in At(b, k) } :
                    k \in Keys \ {"include"} } }

(* Every way to include up to three files, cycles among them. *)
Orders ==
  { [includes |-> Trees4(r, x, y, z),
     content |-> [d \in Doc |-> Having(d, {<<"include">>, <<".t">>}, {})]] :
      r \in BoundedSeq({a, b, c}, 2), x \in BoundedSeq({root, b, c}, 2),
      y \in BoundedSeq({a, c}, 2), z \in BoundedSeq({a, b}, 1) }

AllPipelines == Merges \cup Orders
=============================================================================
