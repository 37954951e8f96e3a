------------------------------- MODULE CacheMap -------------------------------
(***************************************************************************)
(* What the result cache promises (package internal/cache), whatever it    *)
(* does with files: a map from keys to results that may forget anything at *)
(* any time, and that answers a Load with a miss, or with a whole result   *)
(* that some Store was called with under that key.                         *)
(***************************************************************************)
CONSTANTS
  Proc,     \* the glsec processes that share the cache directory
  Key,      \* the keys, as cache.Key computes them
  Value,    \* the results that can be stored
  None      \* no result

VARIABLES
  map,      \* the result a Load may answer with, for each key
  offered,  \* the pairs that Store was called with
  got       \* the answer to the last Load of each process, with its key

vars == <<map, offered, got>>

TypeOK ==
  /\ map \in [Key -> Value \cup {None}]
  /\ offered \subseteq Key \X Value
  /\ got \in [Proc -> (Key \X Value) \cup {None}]

Init ==
  /\ map = [k \in Key |-> None]
  /\ offered = {}
  /\ got = [p \in Proc |-> None]

(* Store is called; whether the result gets into the map is open. *)
Offer(k, v) ==
  /\ offered' = offered \cup {<<k, v>>}
  /\ UNCHANGED <<map, got>>

Put(k, v) ==
  /\ <<k, v>> \in offered
  /\ map' = [map EXCEPT ![k] = v]
  /\ UNCHANGED <<offered, got>>

(* Entries go, and processes end and lose what they have loaded. *)
Lose(keys, procs) ==
  /\ map' = [k \in Key |-> IF k \in keys THEN None ELSE map[k]]
  /\ got' = [p \in Proc |-> IF p \in procs THEN None ELSE got[p]]
  /\ UNCHANGED offered

Hit(p, k) ==
  /\ map[k] # None
  /\ got' = [got EXCEPT ![p] = <<k, map[k]>>]
  /\ UNCHANGED <<map, offered>>

Miss(p) ==
  /\ got' = [got EXCEPT ![p] = None]
  /\ UNCHANGED <<map, offered>>

Next ==
  \/ \E k \in Key, v \in Value : Offer(k, v) \/ Put(k, v)
  \/ \E keys \in SUBSET Key, procs \in SUBSET Proc : Lose(keys, procs)
  \/ \E p \in Proc : Miss(p) \/ \E k \in Key : Hit(p, k)

Spec == Init /\ [][Next]_vars
=============================================================================
