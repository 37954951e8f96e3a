------------------------------- MODULE CacheDir -------------------------------
(***************************************************************************)
(* The result cache as files (internal/cache/cache.go): Load, Store with   *)
(* its sweep, and Clear, run by several glsec processes on one directory.  *)
(* A step is one call into the file system.  Processes die at any step,    *)
(* and the machine may lose power: nothing is synced, so a file written    *)
(* lately keeps its name and loses the end of its content.                 *)
(*                                                                         *)
(* A result is written in two parts, so that a half-written file and a mix *)
(* of two results can be told from a whole one.  Files are numbered in the *)
(* order they are made; a name os.CreateTemp picks is never picked again.  *)
(***************************************************************************)
EXTENDS Integers, Sequences

CONSTANTS
  Proc,         \* the glsec processes that share the directory
  Key,          \* the keys, as cache.Key computes them
  Value,        \* what tells the results apart
  None,         \* no result
  MaxFiles,     \* bound: files that are ever made
  MaxTime,      \* bound: the last tick of the clock
  StaleAfter    \* staleAfter, in ticks

Result(v) == <<v, v>>   \* the bytes of a whole entry
Results == {Result(v) : v \in Value}

ASSUME CacheAssumption ==
  /\ None \notin Seq(Value)
  /\ None \notin Key \X Seq(Value)
  /\ MaxFiles \in Nat
  /\ MaxTime \in Nat
  /\ StaleAfter \in Nat \ {0}

VARIABLES
  files,    \* the files ever made: for which key, the parts written, and when
  temps,    \* the files in the directory under a temporary name
  entry,    \* the file in the directory as <key>.json, or 0
  clock,
  proc,     \* what each process is doing
  offered,  \* the pairs that Store was called with
  got,      \* the answer to the last Load of each process, with its key
  orphans   \* the temporary files whose process died or could not remove them

vars == <<files, temps, entry, clock, proc, offered, got, orphans>>

FileId == 1 .. Len(files)

(* A name in the directory, and the file it stood for when it was listed. *)
Name == [temp : BOOLEAN, key : Key, file : Nat]

Steps == {"idle", "read", "create", "write", "rename", "discard", "list", "check", "remove"}

(* at is the step a process takes next; key and value are what it loads or *)
(* stores, file the temporary file it writes, clearing whether it removes  *)
(* for Clear or for sweep, now the time sweep was given, names what        *)
(* ReadDir listed and could be removed, left what is still to be looked    *)
(* at, and doomed the name that is about to be removed.                    *)
Process == [at : Steps, key : Key \cup {None}, value : Value \cup {None}, file : Nat, clearing : BOOLEAN,
            now : Nat, names : SUBSET Name, left : SUBSET Name, doomed : SUBSET Name]

Fresh == [at |-> "idle", key |-> None, value |-> None, file |-> 0, clearing |-> FALSE,
          now |-> 0, names |-> {}, left |-> {}, doomed |-> {}]

TypeOK ==
  /\ files \in Seq([key : Key, parts : Seq(Value), mtime : Nat])
  /\ temps \subseteq FileId
  /\ entry \in [Key -> {0} \cup FileId]
  /\ clock \in Nat
  /\ proc \in [Proc -> Process]
  /\ \A p \in Proc : proc[p].file \in {0} \cup FileId
  /\ offered \subseteq Key \X Results
  /\ got \in [Proc -> (Key \X Seq(Value)) \cup {None}]
  /\ orphans \subseteq FileId

Init ==
  /\ files = << >>
  /\ temps = {}
  /\ entry = [k \in Key |-> 0]
  /\ clock = 0
  /\ proc = [p \in Proc |-> Fresh]
  /\ offered = {}
  /\ got = [p \in Proc |-> None]
  /\ orphans = {}

-----------------------------------------------------------------------------
At(p, step) == proc[p].at = step
Goto(p, step) == proc' = [proc EXCEPT ![p].at = step]
Finished(p) == proc' = [proc EXCEPT ![p] = Fresh]

(* The content json.Unmarshal accepts: no proper prefix of an entry is a   *)
(* JSON value.                                                             *)
Whole(f) == Len(files[f].parts) = 2

Stale(f, now) == now - files[f].mtime >= StaleAfter

(* The file that a name stands for now, or 0. *)
Linked(n) ==
  IF n.temp THEN (IF n.file \in temps THEN n.file ELSE 0) ELSE entry[n.key]

Listing ==
  {[temp |-> TRUE, key |-> files[f].key, file |-> f] : f \in temps} \cup
  {[temp |-> FALSE, key |-> k, file |-> entry[k]] : k \in {x \in Key : entry[x] # 0}}

Unlink(n) ==
  IF n.temp
  THEN temps' = temps \ {n.file} /\ UNCHANGED entry
  ELSE entry' = [entry EXCEPT ![n.key] = 0] /\ UNCHANGED temps

-----------------------------------------------------------------------------
(* Load: Lstat finds no entry, or one, which is then read. *)
LoadMiss(p, k) ==
  /\ At(p, "idle")
  /\ entry[k] = 0
  /\ got' = [got EXCEPT ![p] = None]
  /\ UNCHANGED <<files, temps, entry, clock, proc, offered, orphans>>

Lstat(p, k) ==
  /\ At(p, "idle")
  /\ entry[k] # 0
  /\ proc' = [proc EXCEPT ![p].at = "read", ![p].key = k]
  /\ UNCHANGED <<files, temps, entry, clock, offered, got, orphans>>

(* ReadFile opens what the name stands for by now, and that file does not  *)
(* change any more.  A file that is gone or does not parse is a miss.      *)
AnswerAnyContent(k) ==                  \* mutant: errors of Unmarshal are ignored
  IF entry[k] # 0 THEN <<k, files[entry[k]].parts>> ELSE None

Answer(k) ==
  IF entry[k] # 0 /\ Whole(entry[k]) THEN <<k, files[entry[k]].parts>> ELSE None

Read(p) ==
  /\ At(p, "read")
  /\ got' = [got EXCEPT ![p] = Answer(proc[p].key)]
  /\ Finished(p)
  /\ UNCHANGED <<files, temps, entry, clock, offered, orphans>>

-----------------------------------------------------------------------------
(* The temporary file that a process would leave behind if it stopped now. *)
Owned(p) == temps \cap {proc[p].file}

StartStore(p, k, v) ==
  /\ At(p, "idle")
  /\ proc' = [proc EXCEPT ![p].at = "create", ![p].key = k, ![p].value = v]
  /\ offered' = offered \cup {<<k, Result(v)>>}
  /\ UNCHANGED <<files, temps, entry, clock, got, orphans>>

(* No directory, one that others can write to, or no temporary file. *)
StoreGivesUp(p) ==
  /\ At(p, "create")
  /\ Finished(p)
  /\ UNCHANGED <<files, temps, entry, clock, offered, got, orphans>>

CreateTemp(p) ==
  /\ At(p, "create")
  /\ Len(files) < MaxFiles
  /\ files' = Append(files, [key |-> proc[p].key, parts |-> << >>, mtime |-> clock])
  /\ temps' = temps \cup {Len(files) + 1}
  /\ proc' = [proc EXCEPT ![p].at = "write", ![p].file = Len(files) + 1]
  /\ UNCHANGED <<entry, clock, offered, got, orphans>>

(* The file is written through its descriptor, whatever became of its name. *)
WritePart(p) ==
  LET f == proc[p].file IN
  /\ At(p, "write")
  /\ files' = [files EXCEPT ![f].parts = Append(@, proc[p].value), ![f].mtime = clock]
  /\ Goto(p, IF Len(files[f].parts) = 0 THEN "write" ELSE "rename")
  /\ UNCHANGED <<temps, entry, clock, offered, got, orphans>>

WriteFails(p) ==
  /\ At(p, "write")
  /\ Goto(p, "discard")
  /\ UNCHANGED <<files, temps, entry, clock, offered, got, orphans>>

Rename(p) ==
  LET f == proc[p].file IN
  /\ At(p, "rename")
  /\ f \in temps
  /\ temps' = temps \ {f}
  /\ entry' = [entry EXCEPT ![proc[p].key] = f]
  /\ Goto(p, "list")
  /\ UNCHANGED <<files, clock, offered, got, orphans>>

(* The temporary name is gone, or the system refuses (on Windows, while    *)
(* another process reads the entry).                                       *)
RenameFails(p) ==
  /\ At(p, "rename")
  /\ Goto(p, "discard")
  /\ UNCHANGED <<files, temps, entry, clock, offered, got, orphans>>

Discard(p) ==
  /\ At(p, "discard")
  /\ temps' = temps \ {proc[p].file}
  /\ Goto(p, "list")
  /\ UNCHANGED <<files, entry, clock, offered, got, orphans>>

(* The error of this os.Remove is ignored too. *)
DiscardFails(p) ==
  /\ At(p, "discard")
  /\ Goto(p, "list")
  /\ orphans' = orphans \cup Owned(p)
  /\ UNCHANGED <<files, temps, entry, clock, offered, got>>

-----------------------------------------------------------------------------
StartClear(p) ==
  /\ At(p, "idle")
  /\ proc' = [proc EXCEPT ![p].at = "list", ![p].clearing = TRUE]
  /\ UNCHANGED <<files, temps, entry, clock, offered, got, orphans>>

List(p) ==
  /\ At(p, "list")
  /\ proc' = [proc EXCEPT ![p].at = "check", ![p].now = clock,
                          ![p].names = Listing, ![p].left = Listing]
  /\ UNCHANGED <<files, temps, entry, clock, offered, got, orphans>>

(* Clear removes each name; sweep first looks at the age of the file that  *)
(* the name stands for by then, if any.                                    *)
MustGoLater(p, n) ==                    \* mutant: one tick too late
  \/ proc[p].clearing
  \/ Linked(n) # 0 /\ proc[p].now - files[Linked(n)].mtime > StaleAfter

MustGo(p, n) ==
  proc[p].clearing \/ (Linked(n) # 0 /\ Stale(Linked(n), proc[p].now))

Check(p) ==
  /\ At(p, "check")
  /\ \E n \in proc[p].left :
       proc' = IF MustGo(p, n)
               THEN [proc EXCEPT ![p].at = "remove", ![p].left = @ \ {n}, ![p].doomed = {n}]
               ELSE [proc EXCEPT ![p].left = @ \ {n}]
  /\ UNCHANGED <<files, temps, entry, clock, offered, got, orphans>>

(* os.Remove of the name, whatever it stands for now.  A name that is gone *)
(* is no error.                                                            *)
Remove(p) ==
  /\ At(p, "remove")
  /\ \E n \in proc[p].doomed : Unlink(n)
  /\ proc' = [proc EXCEPT ![p].at = "check", ![p].doomed = {}]
  /\ UNCHANGED <<files, clock, offered, got, orphans>>

(* A file that can't be removed: sweep goes on, Clear returns the error. *)
RemoveFails(p) ==
  /\ At(p, "remove")
  /\ IF proc[p].clearing
     THEN Finished(p)
     ELSE proc' = [proc EXCEPT ![p].at = "check", ![p].doomed = {},
                               ![p].names = @ \ proc[p].doomed]
  /\ UNCHANGED <<files, temps, entry, clock, offered, got, orphans>>

EndRemoval(p) ==
  /\ At(p, "check")
  /\ proc[p].left = {}
  /\ Finished(p)
  /\ UNCHANGED <<files, temps, entry, clock, offered, got, orphans>>

-----------------------------------------------------------------------------
Tick ==
  /\ clock < MaxTime
  /\ clock' = clock + 1
  /\ UNCHANGED <<files, temps, entry, proc, offered, got, orphans>>

(* The process is killed, or ends as the program does after each scan.     *)
Die(p) ==
  /\ Finished(p)
  /\ got' = [got EXCEPT ![p] = None]
  /\ orphans' = orphans \cup Owned(p)
  /\ UNCHANGED <<files, temps, entry, clock, offered>>

(* Files written in this tick may lose their last part; older content is   *)
(* on the disk.                                                            *)
PowerLoss ==
  /\ \E lost \in SUBSET {f \in FileId : files[f].mtime = clock /\ files[f].parts # << >>} :
       files' = [f \in FileId |->
                  IF f \in lost
                  THEN [files[f] EXCEPT !.parts = SubSeq(@, 1, Len(@) - 1)]
                  ELSE files[f]]
  /\ proc' = [p \in Proc |-> Fresh]
  /\ got' = [p \in Proc |-> None]
  /\ orphans' = orphans \cup UNION {Owned(p) : p \in Proc}
  /\ UNCHANGED <<temps, entry, clock, offered>>

Next ==
  \/ \E p \in Proc :
       \/ \E k \in Key : LoadMiss(p, k) \/ Lstat(p, k)
       \/ \E k \in Key, v \in Value : StartStore(p, k, v)
       \/ Read(p)
       \/ StoreGivesUp(p) \/ CreateTemp(p)
       \/ WritePart(p) \/ WriteFails(p)
       \/ Rename(p) \/ RenameFails(p) \/ Discard(p) \/ DiscardFails(p)
       \/ StartClear(p)
       \/ List(p) \/ Check(p) \/ Remove(p) \/ RemoveFails(p) \/ EndRemoval(p)
       \/ Die(p)
  \/ Tick
  \/ PowerLoss

Spec == Init /\ [][Next]_vars

-----------------------------------------------------------------------------
(* What a Load of the key would answer with. *)
Readable(k) ==
  IF entry[k] # 0 /\ Whole(entry[k]) THEN files[entry[k]].parts ELSE None

(* The directory keeps the promise of CacheMap: every hit is a whole       *)
(* result as some Store was given it, under the key it was given with,     *)
(* never a mix of two or part of one (concurrency_test.go:18), whoever     *)
(* writes, sweeps, clears or dies meanwhile.                               *)
Map == INSTANCE CacheMap WITH map <- [k \in Key |-> Readable(k)], Value <- Results
Implements == Map!Spec

(* No temporary file stays behind: each one has a process that is about to *)
(* rename or remove it, unless its process died or could not remove it     *)
(* (assertNoTempFiles).                                                    *)
NoTempStays ==
  \A f \in temps \ orphans :
    \E p \in Proc : proc[p].file = f /\ proc[p].at \in {"write", "rename", "discard"}

(* Sweep and Clear miss nothing: when one ends without a failure, no file  *)
(* that it listed is in the directory under the name it listed, if it was  *)
(* stale, or for Clear at all, although others store, sweep and clear in   *)
(* between (docs/usage.md, "Result cache": entries from earlier days are   *)
(* removed when glsec stores a new one).                                   *)
RemovedAll ==
  \A p \in Proc : \A n \in proc[p].names \ (proc[p].left \cup proc[p].doomed) :
    (proc[p].clearing \/ Stale(n.file, proc[p].now)) => Linked(n) # n.file

(* Nothing that must go stays, of what processes leave when they die and   *)
(* of what sweep and clear were to remove (cache.go:193, 222).             *)
NothingStays == NoTempStays /\ RemovedAll
=============================================================================
