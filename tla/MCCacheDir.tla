------------------------------ MODULE MCCacheDir ------------------------------
(* CacheDir for model checking.  The processes are alike, and so are the   *)
(* keys and the results.                                                   *)
EXTENDS CacheDir, TLC

Symmetry == Permutations(Proc) \cup Permutations(Value) \cup Permutations(Key)
=============================================================================
