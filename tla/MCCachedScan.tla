----------------------------- MODULE MCCachedScan -----------------------------
(* Two pipeline files for CachedScan that include each other: the key of   *)
(* both has the same files.                                                *)
EXTENDS CachedScan, TLC

CONSTANTS ci, tpl

TwoCycles == (ci :> {ci, tpl}) @@ (tpl :> {ci, tpl})

Symmetry == Permutations(Proc) \cup Permutations(Version)
=============================================================================
