------------------------------ MODULE CachedScan ------------------------------
(***************************************************************************)
(* scanRoot (cmd/glsec/main.go) with the result cache around it: the files *)
(* are parsed, the key is computed from the files on disk, the cache is    *)
(* asked, and only on a miss the rules run and their result is stored.     *)
(* Several glsec processes scan, an editor changes the files, and the date *)
(* changes, at any step.                                                   *)
(*                                                                         *)
(* The cache is the one of CacheMap, which CacheDir implements.  A result  *)
(* is what it was computed from, so two results are equal only if they     *)
(* must be.                                                                *)
(***************************************************************************)
EXTENDS Integers

CONSTANTS
  Proc,            \* the glsec processes
  Roots,           \* the pipeline files that are scanned
  Source,          \* every file of the pipelines
  FilesOf,         \* for each root, the files collect finds from it
  Version,         \* the contents a file may have
  Options,         \* flags and versions: --only, --skip, --gitlab-version, ...
  None,            \* no result
  EditAnytime,     \* may files change during a scan?
  MaxScans,        \* bound: scans that are started
  MaxDay           \* bound: the last date

ASSUME ScanAssumption ==
  /\ Roots \subseteq Source
  /\ FilesOf \in [Roots -> SUBSET Source]
  /\ \A r \in Roots : r \in FilesOf[r]
  /\ EditAnytime \in BOOLEAN
  /\ MaxScans \in Nat /\ MaxDay \in Nat

Day == 0 .. MaxDay
Contents == UNION {[FilesOf[r] -> Version] : r \in Roots}

(* What the key is computed from, and what a result depends on. *)
Key == [day : Day, files : Contents, ignore : Version, options : Options]
Scan == [day : Day, root : Roots, files : Contents, ignore : Version, options : Options]

ASSUME NoneAssumption == None \notin Key /\ None \notin Scan

VARIABLES
  disk,      \* the content of each pipeline file
  ignore,    \* the content of .glsec-ignore and the config
  today,
  scans,     \* how many scans were started
  proc,      \* what each process is doing
  cache, offered, got   \* as map, offered and got in CacheMap

vars == <<disk, ignore, today, scans, proc, cache, offered, got>>

Cache == INSTANCE CacheMap WITH map <- cache, Value <- Scan

Steps == {"idle", "hash", "load", "rules", "store", "settle", "done"}
(* since is the date on which the key was computed, hit whether the result *)
(* came from the cache.                                                    *)
Process == [at : Steps, root : Roots \cup {None}, options : Options \cup {None},
            parsed : Contents \cup {None}, key : Key \cup {None}, result : Scan \cup {None},
            hit : BOOLEAN, since : Day]
Fresh == [at |-> "idle", root |-> None, options |-> None, parsed |-> None, key |-> None,
          result |-> None, hit |-> FALSE, since |-> 0]

TypeOK ==
  /\ disk \in [Source -> Version]
  /\ ignore \in Version
  /\ today \in Day
  /\ scans \in 0 .. MaxScans
  /\ proc \in [Proc -> Process]
  /\ \A p \in Proc : proc[p].at \in {"load", "store", "settle"} => proc[p].key # None
  /\ \A p \in Proc : proc[p].at \in {"store", "settle", "done"} <=> proc[p].result # None
  /\ Cache!TypeOK

Init ==
  /\ disk \in [Source -> Version]
  /\ ignore \in Version
  /\ today = 0
  /\ scans = 0
  /\ proc = [p \in Proc |-> Fresh]
  /\ Cache!Init

Same == UNCHANGED <<cache, offered, got>>
World == <<disk, ignore, today, scans>>

-----------------------------------------------------------------------------
(* The pipeline file and what it includes are read and parsed. *)
Parse(p, r, o) ==
  /\ proc[p].at \in {"idle", "done"}
  /\ scans < MaxScans
  /\ scans' = scans + 1
  /\ proc' = [proc EXCEPT ![p] = [Fresh EXCEPT !.at = "hash", !.root = r, !.options = o,
                                               !.parsed = [f \in FilesOf[r] |-> disk[f]]]]
  /\ UNCHANGED <<disk, ignore, today>> /\ Same

(* cache.Key reads the date, and every file once more. *)
FilesHashed(p) == [f \in FilesOf[proc[p].root] |-> disk[f]]

KeyWithoutOptions(p) ==                 \* mutant: the flags are not hashed
  [day |-> today, files |-> FilesHashed(p), ignore |-> ignore,
   options |-> CHOOSE o \in Options : TRUE]
KeyOf(p) ==
  [day |-> today, files |-> FilesHashed(p), ignore |-> ignore, options |-> proc[p].options]

Hash(p) ==
  /\ proc[p].at = "hash"
  /\ proc' = [proc EXCEPT ![p].at = "load", ![p].key = KeyOf(p), ![p].since = today]
  /\ UNCHANGED World /\ Same

(* The cache is off, a file can't be hashed, or ShellCheck is enabled and  *)
(* not found: the scan goes on without a key.                              *)
NoKey(p) ==
  /\ proc[p].at = "hash"
  /\ proc' = [proc EXCEPT ![p].at = "rules"]
  /\ UNCHANGED World /\ Same

LoadHit(p) ==
  /\ proc[p].at = "load"
  /\ Cache!Hit(p, proc[p].key)
  /\ proc' = [proc EXCEPT ![p].at = "done", ![p].result = cache[proc[p].key], ![p].hit = TRUE]
  /\ UNCHANGED World

LoadMiss(p) ==
  /\ proc[p].at = "load"
  /\ Cache!Miss(p)
  /\ proc' = [proc EXCEPT ![p].at = "rules"]
  /\ UNCHANGED World

(* The rules see the files as they were parsed.  collectFindings reads     *)
(* .glsec-ignore itself, and looks at the clock for expired suppressions.  *)
RunRules(p) ==
  /\ proc[p].at = "rules"
  /\ proc' = [proc EXCEPT ![p].at = IF proc[p].key = None THEN "done" ELSE "store",
                          ![p].result = [day |-> today, root |-> proc[p].root,
                                         files |-> proc[p].parsed, ignore |-> ignore,
                                         options |-> proc[p].options]]
  /\ UNCHANGED World /\ Same

Store(p) ==
  /\ proc[p].at = "store"
  /\ Cache!Offer(proc[p].key, proc[p].result)
  /\ proc' = [proc EXCEPT ![p].at = "settle"]
  /\ UNCHANGED World

Stored(p) ==
  /\ proc[p].at = "settle"
  /\ Cache!Put(proc[p].key, proc[p].result)
  /\ proc' = [proc EXCEPT ![p].at = "done"]
  /\ UNCHANGED World

NotStored(p) ==
  /\ proc[p].at = "settle"
  /\ proc' = [proc EXCEPT ![p].at = "done"]
  /\ UNCHANGED World /\ Same

-----------------------------------------------------------------------------
Scanning(p) == proc[p].at \notin {"idle", "done"}

EditFile(f, v) ==
  /\ EditAnytime \/ \A p \in Proc : ~Scanning(p)
  /\ disk' = [disk EXCEPT ![f] = v]
  /\ UNCHANGED <<ignore, today, scans, proc>> /\ Same

EditIgnore(v) ==
  /\ EditAnytime \/ \A p \in Proc : ~Scanning(p)
  /\ ignore' = v
  /\ UNCHANGED <<disk, today, scans, proc>> /\ Same

Midnight ==
  /\ today < MaxDay
  /\ today' = today + 1
  /\ UNCHANGED <<disk, ignore, scans, proc>> /\ Same

(* An entry goes: sweep, --clear-cache, or a file that was torn. *)
Forget(k) ==
  /\ cache[k] # None
  /\ Cache!Lose({k}, {})
  /\ UNCHANGED World /\ UNCHANGED proc

Next ==
  \/ \E p \in Proc :
       \/ \E r \in Roots, o \in Options : Parse(p, r, o)
       \/ Hash(p) \/ NoKey(p) \/ LoadHit(p) \/ LoadMiss(p) \/ RunRules(p)
       \/ Store(p) \/ Stored(p) \/ NotStored(p)
  \/ \E f \in Source, v \in Version : EditFile(f, v)
  \/ \E v \in Version : EditIgnore(v)
  \/ Midnight
  \/ \E k \in Key : Forget(k)

Spec == Init /\ [][Next]_vars

-----------------------------------------------------------------------------
Hits == {p \in Proc : proc[p].at = "done" /\ proc[p].hit}

(* A hit reports what a scan of the parsed files would (cache.go:41: the   *)
(* key is computed "from all inputs that affect scan results"): the same   *)
(* files, the same suppressions and the same options, although another     *)
(* process scanned them, on the same day or under a key computed before    *)
(* midnight.  The key does not say which of the files is the root, so the  *)
(* scan may have been of another root; then both have the same files.  And *)
(* no suppression is applied on a later day than it may be: the result is  *)
(* not from before the day that the key was computed on, and not from the  *)
(* future (cache.go: "a suppression that expired overnight").              *)
HitIsTheScan ==
  \A p \in Hits :
    /\ proc[p].result.files = proc[p].parsed
    /\ proc[p].result.ignore = proc[p].key.ignore
    /\ proc[p].result.options = proc[p].options
    /\ proc[p].result.day \in proc[p].since .. today
=============================================================================
