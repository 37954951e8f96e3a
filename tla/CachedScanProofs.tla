--------------------------- MODULE CachedScanProofs ---------------------------
(***************************************************************************)
(* What holds of CachedScan for every number of processes, files, versions *)
(* and options, checked by TLAPS: types, and that a hit of the result      *)
(* cache is a scan of what was parsed, as long as no file changes during a *)
(* scan.  What is left without that condition is HitIsAsAsked.             *)
(***************************************************************************)
EXTENDS CachedScan, TLAPS

(* What each process is doing, with what it has got so far. *)
Task(x) ==
  /\ x \in Process
  /\ x.at \in {"load", "store", "settle"} => x.key # None
  /\ x.at \in {"store", "settle", "done"} <=> x.result # None
  /\ x.at # "idle" => x.root \in Roots /\ x.options \in Options
                      /\ x.parsed \in [FilesOf[x.root] -> Version]
  /\ x.hit => x.key # None /\ x.result # None

(* A result that may be reported under the key, on any day until today. *)
Describes(k, v) == v.options = k.options /\ v.day \in k.day .. today

KeyRight(x) ==
  x.key # None =>
    /\ x.key.options = x.options
    /\ x.key.day = x.since /\ x.since <= today
    /\ x.result # None => Describes(x.key, x.result)

CacheRight ==
  /\ \A k \in Key : cache[k] # None => <<k, cache[k]>> \in offered
  /\ \A k \in Key, v \in Scan : <<k, v>> \in offered => Describes(k, v)

IInv ==
  /\ TypeOK
  /\ \A p \in Proc : Task(proc[p])
  /\ \A p \in Proc : KeyRight(proc[p])
  /\ CacheRight

(* The same of the files, which need to stand still under a scan: the key  *)
(* is computed from what was parsed, and the rules see that too.           *)
SameFiles(k, v) == v.files = k.files /\ v.ignore = k.ignore

FilesRight(x) ==
  /\ x.at \notin {"idle", "done"} =>
       /\ x.parsed = [f \in FilesOf[x.root] |-> disk[f]]
       /\ x.key # None => x.key.ignore = ignore
  /\ x.key # None =>
       /\ x.key.files = x.parsed
       /\ x.result # None => SameFiles(x.key, x.result)

FilesInv ==
  /\ \A p \in Proc : FilesRight(proc[p])
  /\ \A k \in Key, v \in Scan : <<k, v>> \in offered => SameFiles(k, v)

-----------------------------------------------------------------------------
LEMMA InitIInv == Init => IInv /\ FilesInv
<1> SUFFICES ASSUME Init
             PROVE  IInv /\ FilesInv
  OBVIOUS
<1>1. 0 \in Day
  BY ScanAssumption DEF Day
<1>2. Task(Fresh) /\ KeyRight(Fresh) /\ FilesRight(Fresh)
  BY <1>1 DEF Task, KeyRight, FilesRight, Fresh, Process, Steps
<1>3. TypeOK
  BY <1>1, <1>2, ScanAssumption DEF Init, TypeOK, Cache!Init, Cache!TypeOK, Task
<1>4. CacheRight /\ \A k \in Key, v \in Scan : <<k, v>> \in offered => SameFiles(k, v)
  BY DEF CacheRight, Init, Cache!Init
<1> QED
  BY <1>2, <1>3, <1>4 DEF Init, IInv, FilesInv

(* What a step of process p owes when it leaves p in x. *)
LEMMA Moves ==
  ASSUME IInv, NEW p \in Proc, NEW x,
         proc' = [proc EXCEPT ![p] = x], Task(x), KeyRight(x),
         UNCHANGED <<disk, ignore, today, offered>>, scans' \in 0 .. MaxScans,
         Cache!TypeOK', CacheRight'
  PROVE  IInv'
<1>1. proc \in [Proc -> Process]
  BY DEF IInv, TypeOK
<1>2. \A q \in Proc : proc'[q] = IF q = p THEN x ELSE proc[q]
  BY <1>1
<1>3. \A q \in Proc : Task(proc'[q])
  BY <1>2 DEF IInv
<1>4. \A q \in Proc : KeyRight(proc'[q])
  BY <1>2 DEF IInv
<1>5. \A q \in Proc : KeyRight(proc[q])'
  BY <1>4 DEF KeyRight, Describes
<1>6. \A q \in Proc : Task(proc[q])'
  BY <1>3 DEF Task
<1>7. proc' \in [Proc -> Process]
  BY <1>1, <1>3 DEF Task
<1>8. TypeOK'
  BY <1>6, <1>7 DEF IInv, TypeOK, Task
<1> QED
  BY <1>5, <1>6, <1>8 DEF IInv

(* The steps that leave the cache alone. *)
LEMMA QuietMoves ==
  ASSUME IInv, NEW p \in Proc, NEW x, Same,
         proc' = [proc EXCEPT ![p] = x], Task(x), KeyRight(x),
         UNCHANGED <<disk, ignore, today>>, scans' \in 0 .. MaxScans
  PROVE  IInv'
<1>1. Cache!TypeOK' /\ CacheRight'
  BY DEF IInv, TypeOK, Cache!TypeOK, CacheRight, Describes, Same
<1> QED
  BY <1>1, Moves DEF Same

LEMMA FilesParsed ==
  ASSUME TypeOK, NEW r \in Roots
  PROVE  [f \in FilesOf[r] |-> disk[f]] \in [FilesOf[r] -> Version] /\ [FilesOf[r] -> Version] \subseteq Contents
BY ScanAssumption DEF TypeOK, Contents

LEMMA ParseIInv ==
  ASSUME IInv, NEW p \in Proc, NEW r \in Roots, NEW o \in Options, Parse(p, r, o)
  PROVE  IInv'
<1> DEFINE x == [Fresh EXCEPT !.at = "hash", !.root = r, !.options = o,
                              !.parsed = [f \in FilesOf[r] |-> disk[f]]]
<1>1. 0 \in Day
  BY ScanAssumption DEF Day
<1>2. Task(x) /\ KeyRight(x)
  BY <1>1, FilesParsed DEF IInv, Task, KeyRight, Fresh, Process, Steps
<1>3. proc' = [proc EXCEPT ![p] = x] /\ Same /\ UNCHANGED <<disk, ignore, today>>
  BY DEF Parse
<1>4. scans' \in 0 .. MaxScans
  BY ScanAssumption DEF Parse, IInv, TypeOK
<1> HIDE DEF x
<1> QED
  BY <1>2, <1>3, <1>4, QuietMoves

LEMMA KeyTyped ==
  ASSUME IInv, NEW p \in Proc, proc[p].at # "idle"
  PROVE  KeyOf(p) \in Key
<1>1. FilesHashed(p) \in Contents
  BY FilesParsed DEF IInv, Task, FilesHashed
<1> QED
  BY <1>1 DEF KeyOf, Key, IInv, TypeOK, Task

LEMMA HashIInv ==
  ASSUME IInv, NEW p \in Proc, Hash(p)
  PROVE  IInv'
<1> DEFINE x == [proc[p] EXCEPT !.at = "load", !.key = KeyOf(p), !.since = today]
<1>1. proc[p].at = "hash" /\ Task(proc[p])
  BY DEF Hash, IInv
<1>2. KeyOf(p) \in Key /\ today \in Day
  BY <1>1, KeyTyped DEF IInv, TypeOK
<1>3. Task(x)
  BY <1>1, <1>2, NoneAssumption DEF Task, Process, Steps
<1>4. KeyRight(x)
  BY <1>1, <1>2 DEF Task, KeyRight, KeyOf, Process, Day
<1>5. proc' = [proc EXCEPT ![p] = x] /\ Same /\ UNCHANGED World
  BY DEF Hash
<1>6. scans' \in 0 .. MaxScans
  BY <1>5 DEF World, IInv, TypeOK
<1> HIDE DEF x
<1> QED
  BY <1>3, <1>4, <1>5, <1>6, QuietMoves DEF World

LEMMA ToRulesIInv ==
  ASSUME IInv, NEW p \in Proc, NoKey(p)
  PROVE  IInv'
<1> DEFINE x == [proc[p] EXCEPT !.at = "rules"]
<1>1. proc[p].at = "hash" /\ Task(proc[p]) /\ KeyRight(proc[p])
  BY DEF NoKey, IInv
<1>2. Task(x) /\ KeyRight(x)
  BY <1>1 DEF Task, Process, Steps, KeyRight
<1>3. proc' = [proc EXCEPT ![p] = x] /\ Same /\ UNCHANGED World
  BY DEF NoKey
<1>4. scans' \in 0 .. MaxScans
  BY <1>3 DEF World, IInv, TypeOK
<1> HIDE DEF x
<1> QED
  BY <1>2, <1>3, <1>4, QuietMoves DEF World

LEMMA LoadHitIInv ==
  ASSUME IInv, NEW p \in Proc, LoadHit(p)
  PROVE  IInv'
<1> DEFINE k == proc[p].key
           v == cache[k]
           x == [proc[p] EXCEPT !.at = "done", !.result = v, !.hit = TRUE]
<1>1. proc[p].at = "load" /\ Task(proc[p]) /\ KeyRight(proc[p])
  BY DEF LoadHit, IInv
<1>2. k \in Key /\ k # None /\ v \in Scan /\ v # None
  BY <1>1, NoneAssumption DEF LoadHit, Cache!Hit, IInv, TypeOK, Cache!TypeOK, Task, Process
<1>3. Describes(k, v)
  BY <1>2 DEF IInv, CacheRight
<1>4. Task(x) /\ KeyRight(x)
  BY <1>1, <1>2, <1>3 DEF Task, Process, Steps, KeyRight
<1>5. proc' = [proc EXCEPT ![p] = x] /\ UNCHANGED World
  BY DEF LoadHit
<1>6. UNCHANGED <<cache, offered>> /\ got' = [got EXCEPT ![p] = <<k, v>>]
  BY DEF LoadHit, Cache!Hit
<1>7. Cache!TypeOK' /\ CacheRight'
  BY <1>2, <1>5, <1>6 DEF IInv, TypeOK, Cache!TypeOK, CacheRight, Describes, World
<1>8. scans' \in 0 .. MaxScans
  BY <1>5 DEF World, IInv, TypeOK
<1> HIDE DEF x
<1> QED
  BY <1>4, <1>5, <1>6, <1>7, <1>8, Moves DEF World

LEMMA LoadMissIInv ==
  ASSUME IInv, NEW p \in Proc, LoadMiss(p)
  PROVE  IInv'
<1> DEFINE x == [proc[p] EXCEPT !.at = "rules"]
<1>1. proc[p].at = "load" /\ Task(proc[p]) /\ KeyRight(proc[p])
  BY DEF LoadMiss, IInv
<1>2. Task(x) /\ KeyRight(x)
  BY <1>1 DEF Task, Process, Steps, KeyRight
<1>3. proc' = [proc EXCEPT ![p] = x] /\ UNCHANGED World
  BY DEF LoadMiss
<1>4. UNCHANGED <<cache, offered>> /\ got' = [got EXCEPT ![p] = None]
  BY DEF LoadMiss, Cache!Miss
<1>5. Cache!TypeOK' /\ CacheRight'
  BY <1>3, <1>4 DEF IInv, TypeOK, Cache!TypeOK, CacheRight, Describes, World
<1>6. scans' \in 0 .. MaxScans
  BY <1>3 DEF World, IInv, TypeOK
<1> HIDE DEF x
<1> QED
  BY <1>2, <1>3, <1>4, <1>5, <1>6, Moves DEF World

LEMMA RunRulesIInv ==
  ASSUME IInv, NEW p \in Proc, RunRules(p)
  PROVE  IInv'
<1> DEFINE v == [day |-> today, root |-> proc[p].root, files |-> proc[p].parsed,
                 ignore |-> ignore, options |-> proc[p].options]
           x == [proc[p] EXCEPT !.at = IF proc[p].key = None THEN "done" ELSE "store",
                                !.result = v]
<1>1. proc[p].at = "rules" /\ Task(proc[p]) /\ KeyRight(proc[p])
  BY DEF RunRules, IInv
<1>2. v \in Scan /\ v # None
  BY <1>1, FilesParsed, NoneAssumption DEF Task, Scan, IInv, TypeOK
<1>3. Task(x)
  BY <1>1, <1>2 DEF Task, Process, Steps
<1>4. today \in Int /\ proc[p].since \in Int
  BY <1>1 DEF Task, Process, IInv, TypeOK, Day
<1>5. KeyRight(x)
  BY <1>1, <1>4 DEF Task, Process, KeyRight, Describes
<1>6. proc' = [proc EXCEPT ![p] = x] /\ Same /\ UNCHANGED World
  BY DEF RunRules
<1>7. scans' \in 0 .. MaxScans
  BY <1>6 DEF World, IInv, TypeOK
<1> HIDE DEF x
<1> QED
  BY <1>3, <1>5, <1>6, <1>7, QuietMoves DEF World

LEMMA StoreIInv ==
  ASSUME IInv, NEW p \in Proc, Store(p)
  PROVE  IInv'
<1> DEFINE k == proc[p].key
           v == proc[p].result
           x == [proc[p] EXCEPT !.at = "settle"]
<1>1. proc[p].at = "store" /\ Task(proc[p]) /\ KeyRight(proc[p])
  BY DEF Store, IInv
<1>2. k \in Key /\ v \in Scan /\ Describes(k, v)
  BY <1>1 DEF Task, Process, KeyRight
<1>3. Task(x) /\ KeyRight(x)
  BY <1>1 DEF Task, Process, Steps, KeyRight
<1>4. proc' = [proc EXCEPT ![p] = x] /\ UNCHANGED World
  BY DEF Store
<1>5. offered' = offered \cup {<<k, v>>} /\ UNCHANGED <<cache, got>>
  BY DEF Store, Cache!Offer
<1>6. Cache!TypeOK'
  BY <1>2, <1>5 DEF IInv, TypeOK, Cache!TypeOK
<1>7. CacheRight'
  BY <1>2, <1>4, <1>5 DEF IInv, CacheRight, Describes, World
<1>8. \A q \in Proc : proc'[q] = IF q = p THEN x ELSE proc[q]
  BY <1>4 DEF IInv, TypeOK
<1>9. \A q \in Proc : Task(proc'[q]) /\ KeyRight(proc'[q])
  BY <1>3, <1>8 DEF IInv
<1> HIDE DEF x
<1>10. \A q \in Proc : Task(proc[q])' /\ KeyRight(proc[q])'
  BY <1>4, <1>9 DEF Task, KeyRight, Describes, World
<1>11. TypeOK'
  <2>1. proc' \in [Proc -> Process]
    BY <1>3, <1>4 DEF IInv, TypeOK, Task
  <2> QED
    BY <1>4, <1>6, <1>10, <2>1 DEF IInv, TypeOK, Task, World
<1> QED
  BY <1>7, <1>10, <1>11 DEF IInv

LEMMA StoredIInv ==
  ASSUME IInv, NEW p \in Proc, Stored(p)
  PROVE  IInv'
<1> DEFINE k == proc[p].key
           v == proc[p].result
           x == [proc[p] EXCEPT !.at = "done"]
<1>1. proc[p].at = "settle" /\ Task(proc[p]) /\ KeyRight(proc[p])
  BY DEF Stored, IInv
<1>2. k \in Key /\ v \in Scan
  BY <1>1 DEF Task, Process
<1>3. Task(x) /\ KeyRight(x)
  BY <1>1 DEF Task, Process, Steps, KeyRight
<1>4. proc' = [proc EXCEPT ![p] = x] /\ UNCHANGED World
  BY DEF Stored
<1>5. <<k, v>> \in offered /\ cache' = [cache EXCEPT ![k] = v] /\ UNCHANGED <<offered, got>>
  BY DEF Stored, Cache!Put
<1>6. Cache!TypeOK' /\ CacheRight'
  BY <1>2, <1>4, <1>5 DEF IInv, TypeOK, Cache!TypeOK, CacheRight, Describes, World
<1>7. scans' \in 0 .. MaxScans
  BY <1>4 DEF World, IInv, TypeOK
<1> HIDE DEF x
<1> QED
  BY <1>3, <1>4, <1>5, <1>6, <1>7, Moves DEF World

LEMMA NotStoredIInv ==
  ASSUME IInv, NEW p \in Proc, NotStored(p)
  PROVE  IInv'
<1> DEFINE x == [proc[p] EXCEPT !.at = "done"]
<1>1. proc[p].at = "settle" /\ Task(proc[p]) /\ KeyRight(proc[p])
  BY DEF NotStored, IInv
<1>2. Task(x) /\ KeyRight(x)
  BY <1>1 DEF Task, Process, Steps, KeyRight
<1>3. proc' = [proc EXCEPT ![p] = x] /\ Same /\ UNCHANGED World
  BY DEF NotStored
<1>4. scans' \in 0 .. MaxScans
  BY <1>3 DEF World, IInv, TypeOK
<1> HIDE DEF x
<1> QED
  BY <1>2, <1>3, <1>4, QuietMoves DEF World

(* Editors, the clock, and what the cache forgets. *)
WorldMoves ==
  \/ \E f \in Source, v \in Version : EditFile(f, v)
  \/ \E v \in Version : EditIgnore(v)
  \/ Midnight
  \/ \E k \in Key : Forget(k)
  \/ UNCHANGED vars

LEMMA WorldIInv ==
  ASSUME IInv, WorldMoves
  PROVE  IInv'
<1>1. proc' = proc /\ offered' = offered /\ scans' = scans
  BY DEF WorldMoves, EditFile, EditIgnore, Midnight, Forget, Cache!Lose, Same, World, vars
<1>2. today' \in Day /\ today' \in Int /\ today <= today' /\ today \in Int
  <2>1. today \in 0 .. MaxDay /\ MaxDay \in Nat
    BY ScanAssumption DEF IInv, TypeOK, Day
  <2>2. today' = today \/ (today < MaxDay /\ today' = today + 1)
    BY DEF WorldMoves, EditFile, EditIgnore, Midnight, Forget, World, vars
  <2> QED
    BY <2>1, <2>2 DEF Day
<1>3. disk' \in [Source -> Version] /\ ignore' \in Version
  BY DEF IInv, TypeOK, WorldMoves, EditFile, EditIgnore, Midnight, Forget, World, vars
<1>4. \A k \in Key : cache'[k] \in {None, cache[k]}
  BY DEF IInv, TypeOK, Cache!TypeOK, WorldMoves, EditFile, EditIgnore, Midnight, Forget, Cache!Lose, Same, vars
<1>5. Cache!TypeOK'
  <2>1. CASE \E k \in Key : Forget(k)
    BY <1>1, <1>4, <2>1 DEF IInv, TypeOK, Cache!TypeOK, Forget, Cache!Lose
  <2>2. CASE Same
    BY <2>2 DEF IInv, TypeOK, Cache!TypeOK, Same
  <2> QED
    BY <2>1, <2>2 DEF WorldMoves, EditFile, EditIgnore, Midnight, vars, Same
<1>6. ASSUME NEW k, NEW v \in Scan, k.day \in Day, Describes(k, v)
      PROVE  v.options = k.options /\ v.day \in k.day .. today'
  BY <1>2, <1>6 DEF Describes, Scan, Day
<1>7. CacheRight'
  BY <1>1, <1>4, <1>6 DEF IInv, CacheRight, Key, Describes
<1>8. ASSUME NEW p \in Proc
      PROVE  KeyRight(proc[p])'
  <2>1. KeyRight(proc[p]) /\ Task(proc[p])
    BY DEF IInv
  <2>2. proc[p].key # None => proc[p].key.day \in Day
    BY <2>1 DEF Task, Process, Key
  <2>3. proc[p].since \in Int /\ (proc[p].result # None => proc[p].result \in Scan)
    BY <2>1 DEF Task, Process, Day
  <2>4. proc[p].key # None /\ proc[p].result # None =>
          /\ proc[p].result.options = proc[p].key.options
          /\ proc[p].result.day \in proc[p].key.day .. today'
    BY <1>6, <2>1, <2>2, <2>3 DEF KeyRight
  <2>5. proc[p].since <= today => proc[p].since <= today'
    BY <1>2, <2>3
  <2> QED
    BY <1>1, <2>1, <2>4, <2>5 DEF KeyRight, Describes
<1>9. \A p \in Proc : Task(proc[p])'
  BY <1>1 DEF IInv, Task
<1>10. TypeOK'
  BY <1>1, <1>2, <1>3, <1>5, <1>9 DEF IInv, TypeOK, Task
<1> QED
  BY <1>7, <1>8, <1>9, <1>10 DEF IInv

LEMMA StepIInv == IInv /\ [Next]_vars => IInv'
<1> SUFFICES ASSUME IInv, [Next]_vars
             PROVE  IInv'
  OBVIOUS
<1>1. ASSUME NEW p \in Proc, NEW r \in Roots, NEW o \in Options, Parse(p, r, o)
      PROVE  IInv'
  BY <1>1, ParseIInv
<1>2. ASSUME NEW p \in Proc, Hash(p) \/ NoKey(p) \/ LoadHit(p) \/ LoadMiss(p) \/ RunRules(p)
      PROVE  IInv'
  BY <1>2, HashIInv, ToRulesIInv, LoadHitIInv, LoadMissIInv, RunRulesIInv
<1>3. ASSUME NEW p \in Proc, Store(p) \/ Stored(p) \/ NotStored(p)
      PROVE  IInv'
  BY <1>3, StoreIInv, StoredIInv, NotStoredIInv
<1>4. CASE WorldMoves
  BY <1>4, WorldIInv
<1> QED
  BY <1>1, <1>2, <1>3, <1>4 DEF Next, WorldMoves

LEMMA Inductive == Spec => []IInv
<1>1. Init => IInv
  BY InitIInv
<1> QED
  BY <1>1, StepIInv, PTL DEF Spec

(* Every value keeps its type: a process that loads, stores or has stored  *)
(* has a key, and one has a result if and only if the rules have run for   *)
(* it or the cache has answered.                                           *)
THEOREM TypeCorrect == Spec => []TypeOK
<1>1. IInv => TypeOK
  BY DEF IInv
<1> QED
  BY <1>1, Inductive, PTL

(* Whatever is edited and whenever: a hit is the result of a scan with the *)
(* same flags, and it is not from before the day on which the key was      *)
(* computed, so that no suppression is applied on a later day than it may  *)
(* be (cache.go: "a suppression that expired overnight").                  *)
HitIsAsAsked ==
  \A p \in Hits :
    /\ proc[p].result.options = proc[p].options
    /\ proc[p].result.day \in proc[p].since .. today

THEOREM HitAsAsked == Spec => []HitIsAsAsked
<1>1. IInv => HitIsAsAsked
  BY DEF IInv, Task, KeyRight, Describes, HitIsAsAsked, Hits
<1> QED
  BY <1>1, Inductive, PTL

-----------------------------------------------------------------------------
(* The files. *)

LEMMA StepFiles ==
  ASSUME ~EditAnytime, IInv, FilesInv, [Next]_vars
  PROVE  FilesInv'
<1> DEFINE PairsRight(o) == \A k \in Key, v \in Scan : <<k, v>> \in o => SameFiles(k, v)
<1>1. ASSUME NEW p \in Proc, NEW x, proc' = [proc EXCEPT ![p] = x],
             UNCHANGED <<disk, ignore>>, FilesRight(x), PairsRight(offered')
      PROVE  FilesInv'
  <2>1. \A q \in Proc : proc'[q] = IF q = p THEN x ELSE proc[q]
    BY <1>1 DEF IInv, TypeOK
  <2>2. \A q \in Proc : FilesRight(proc'[q])
    BY <1>1, <2>1 DEF FilesInv
  <2>3. \A q \in Proc : FilesRight(proc[q])'
    BY <1>1, <2>2 DEF FilesRight
  <2> QED
    BY <1>1, <2>3 DEF FilesInv
<1>2. PairsRight(offered)
  BY DEF FilesInv
<1>3. ASSUME NEW p \in Proc, NEW r \in Roots, NEW o \in Options, Parse(p, r, o)
      PROVE  FilesInv'
  <2> DEFINE x == [Fresh EXCEPT !.at = "hash", !.root = r, !.options = o,
                                !.parsed = [f \in FilesOf[r] |-> disk[f]]]
  <2>1. FilesRight(x)
    BY DEF FilesRight, Fresh
  <2>2. proc' = [proc EXCEPT ![p] = x] /\ Same /\ UNCHANGED <<disk, ignore>>
    BY <1>3 DEF Parse
  <2> HIDE DEF x
  <2> QED
    BY <1>1, <1>2, <2>1, <2>2 DEF Same
<1>4. ASSUME NEW p \in Proc, Hash(p)
      PROVE  FilesInv'
  <2> DEFINE x == [proc[p] EXCEPT !.at = "load", !.key = KeyOf(p), !.since = today]
  <2>1. proc[p].at = "hash" /\ Task(proc[p]) /\ FilesRight(proc[p])
    BY <1>4 DEF Hash, IInv, FilesInv
  <2>2. KeyOf(p).files = proc[p].parsed /\ KeyOf(p).ignore = ignore
    BY <2>1 DEF FilesRight, KeyOf, FilesHashed
  <2>3. proc[p].result = None
    BY <2>1 DEF Task
  <2>4. FilesRight(x)
    BY <2>1, <2>2, <2>3 DEF FilesRight, Task, Process
  <2>5. proc' = [proc EXCEPT ![p] = x] /\ Same /\ UNCHANGED <<disk, ignore>>
    BY <1>4 DEF Hash, World
  <2> HIDE DEF x
  <2> QED
    BY <1>1, <1>2, <2>4, <2>5 DEF Same
<1>5. ASSUME NEW p \in Proc, NoKey(p) \/ LoadMiss(p)
      PROVE  FilesInv'
  <2> DEFINE x == [proc[p] EXCEPT !.at = "rules"]
  <2>1. proc[p].at \in {"hash", "load"} /\ Task(proc[p]) /\ FilesRight(proc[p])
    BY <1>5 DEF NoKey, LoadMiss, IInv, FilesInv
  <2>2. FilesRight(x)
    BY <2>1 DEF FilesRight, Task, Process
  <2>3. proc' = [proc EXCEPT ![p] = x] /\ UNCHANGED <<disk, ignore, offered>>
    BY <1>5 DEF NoKey, LoadMiss, World, Same, Cache!Miss
  <2> HIDE DEF x
  <2> QED
    BY <1>1, <1>2, <2>2, <2>3
<1>6. ASSUME NEW p \in Proc, LoadHit(p)
      PROVE  FilesInv'
  <2> DEFINE k == proc[p].key
             v == cache[k]
             x == [proc[p] EXCEPT !.at = "done", !.result = v, !.hit = TRUE]
  <2>1. proc[p].at = "load" /\ Task(proc[p]) /\ FilesRight(proc[p])
    BY <1>6 DEF LoadHit, IInv, FilesInv
  <2>2. k \in Key /\ k # None /\ v \in Scan /\ v # None
    BY <1>6, <2>1, NoneAssumption DEF LoadHit, Cache!Hit, IInv, TypeOK, Cache!TypeOK, Task, Process
  <2>3. SameFiles(k, v)
    BY <1>2, <2>2 DEF IInv, CacheRight
  <2>4. FilesRight(x)
    BY <2>1, <2>2, <2>3 DEF FilesRight, Task, Process
  <2>5. proc' = [proc EXCEPT ![p] = x] /\ UNCHANGED <<disk, ignore, offered>>
    BY <1>6 DEF LoadHit, World, Cache!Hit
  <2> HIDE DEF x
  <2> QED
    BY <1>1, <1>2, <2>4, <2>5
<1>7. ASSUME NEW p \in Proc, RunRules(p)
      PROVE  FilesInv'
  <2> DEFINE v == [day |-> today, root |-> proc[p].root, files |-> proc[p].parsed,
                   ignore |-> ignore, options |-> proc[p].options]
             x == [proc[p] EXCEPT !.at = IF proc[p].key = None THEN "done" ELSE "store",
                                  !.result = v]
  <2>1. proc[p].at = "rules" /\ Task(proc[p]) /\ FilesRight(proc[p])
    BY <1>7 DEF RunRules, IInv, FilesInv
  <2>2. proc[p].key # None => SameFiles(proc[p].key, v)
    BY <2>1 DEF FilesRight, SameFiles
  <2>3. FilesRight(x)
    BY <2>1, <2>2 DEF FilesRight, Task, Process
  <2>4. proc' = [proc EXCEPT ![p] = x] /\ Same /\ UNCHANGED <<disk, ignore>>
    BY <1>7 DEF RunRules, World
  <2> HIDE DEF x
  <2> QED
    BY <1>1, <1>2, <2>3, <2>4 DEF Same
<1>8. ASSUME NEW p \in Proc, Store(p)
      PROVE  FilesInv'
  <2> DEFINE x == [proc[p] EXCEPT !.at = "settle"]
  <2>1. proc[p].at = "store" /\ Task(proc[p]) /\ FilesRight(proc[p])
    BY <1>8 DEF Store, IInv, FilesInv
  <2>2. SameFiles(proc[p].key, proc[p].result)
    BY <2>1 DEF FilesRight, Task
  <2>3. PairsRight(offered')
    BY <1>2, <1>8, <2>2 DEF Store, Cache!Offer
  <2>4. FilesRight(x)
    BY <2>1 DEF FilesRight, Task, Process
  <2>5. proc' = [proc EXCEPT ![p] = x] /\ UNCHANGED <<disk, ignore>>
    BY <1>8 DEF Store, World
  <2> HIDE DEF x
  <2> QED
    BY <1>1, <2>3, <2>4, <2>5
<1>9. ASSUME NEW p \in Proc, Stored(p) \/ NotStored(p)
      PROVE  FilesInv'
  <2> DEFINE x == [proc[p] EXCEPT !.at = "done"]
  <2>1. proc[p].at = "settle" /\ Task(proc[p]) /\ FilesRight(proc[p])
    BY <1>9 DEF Stored, NotStored, IInv, FilesInv
  <2>2. FilesRight(x)
    BY <2>1 DEF FilesRight, Task, Process
  <2>3. proc' = [proc EXCEPT ![p] = x] /\ UNCHANGED <<disk, ignore, offered>>
    BY <1>9 DEF Stored, NotStored, World, Same, Cache!Put
  <2> HIDE DEF x
  <2> QED
    BY <1>1, <1>2, <2>2, <2>3
<1>10. ASSUME \/ \E f \in Source, v \in Version : EditFile(f, v)
              \/ \E v \in Version : EditIgnore(v)
       PROVE  FilesInv'
  <2>1. \A p \in Proc : proc[p].at \in {"idle", "done"}
    BY <1>10 DEF EditFile, EditIgnore, Scanning
  <2>2. proc' = proc /\ offered' = offered
    BY <1>10 DEF EditFile, EditIgnore, Same
  <2>3. \A p \in Proc : FilesRight(proc[p])'
    BY <2>1, <2>2 DEF FilesInv, FilesRight
  <2> QED
    BY <1>2, <2>2, <2>3 DEF FilesInv
<1>11. ASSUME Midnight \/ (\E k \in Key : Forget(k)) \/ UNCHANGED vars
       PROVE  FilesInv'
  <2>1. UNCHANGED <<proc, offered, disk, ignore>>
    BY <1>11 DEF Midnight, Forget, Cache!Lose, Same, World, vars
  <2>2. \A p \in Proc : FilesRight(proc[p])'
    BY <2>1 DEF FilesInv, FilesRight
  <2> QED
    BY <1>2, <2>1, <2>2 DEF FilesInv
<1> HIDE DEF PairsRight
<1> QED
  BY <1>3, <1>4, <1>5, <1>6, <1>7, <1>8, <1>9, <1>10, <1>11 DEF Next

(* As long as no file changes during a scan, a hit reports what a scan of  *)
(* the parsed files would: whichever process made the result, for          *)
(* whichever root, and whatever became of the cache meanwhile.  With edits *)
(* at any time it does not hold, since the files are read once to be       *)
(* parsed and once more for the key (cmd/glsec/main.go:598).               *)
THEOREM HitsAreScans == ~EditAnytime => (Spec => []HitIsTheScan)
<1> SUFFICES ASSUME ~EditAnytime
             PROVE  Spec => []HitIsTheScan
  OBVIOUS
<1>1. Init => IInv /\ FilesInv
  BY InitIInv
<1>2. IInv /\ FilesInv /\ [Next]_vars => FilesInv'
  BY StepFiles
<1>3. IInv /\ FilesInv => HitIsTheScan
  BY ZenonT(40) DEF IInv, FilesInv, Task, KeyRight, Describes, FilesRight, SameFiles, HitIsTheScan, Hits
<1> QED
  BY <1>1, <1>2, <1>3, StepIInv, PTL DEF Spec
=============================================================================
