---------------------------- MODULE CacheDirProofs ----------------------------
(***************************************************************************)
(* What holds of CacheDir for every number of processes, keys, results and *)
(* files, checked by TLAPS: types, and that the directory implements       *)
(* CacheMap.                                                               *)
(***************************************************************************)
EXTENDS CacheDir, SequenceTheorems, TLAPS

File == [key : Key, parts : Seq(Value), mtime : Nat]

LEMMA FileTyped ==
  ASSUME TypeOK
  PROVE  /\ files \in Seq(File)
         /\ Len(files) \in Nat
         /\ \A f \in FileId : /\ files[f] \in File
                              /\ files[f].key \in Key
                              /\ files[f].parts \in Seq(Value)
                              /\ files[f].mtime \in Nat
<1>1. files \in Seq(File) /\ Len(files) \in Nat
  BY DEF TypeOK, File
<1>2. \A f \in FileId : files[f] \in File
  BY <1>1, ElementOfSeq DEF FileId
<1> QED
  BY <1>1, <1>2 DEF File

(* The names that ReadDir lists. *)
LEMMA ListingTyped ==
  ASSUME TypeOK
  PROVE  Listing \subseteq Name
<1>1. ASSUME NEW f \in temps
      PROVE  [temp |-> TRUE, key |-> files[f].key, file |-> f] \in Name
  BY FileTyped DEF Name, TypeOK, FileId
<1>2. ASSUME NEW k \in Key
      PROVE  [temp |-> FALSE, key |-> k, file |-> entry[k]] \in Name
  <2>1. entry[k] \in Nat
    BY FileTyped DEF TypeOK, FileId
  <2> QED
    BY <2>1 DEF Name
<1> QED
  BY <1>1, <1>2 DEF Listing

LEMMA InitTypeOK ==
  ASSUME Init
  PROVE  TypeOK
<1>1. Fresh \in Process
  BY DEF Fresh, Process, Steps
<1>2. Len(files) = 0 /\ files \in Seq(File)
  BY DEF Init
<1>3. \A p \in Proc : proc[p].file \in {0} \cup FileId
  BY DEF Init, Fresh
<1> QED
  BY <1>1, <1>2, <1>3 DEF Init, TypeOK, File

-----------------------------------------------------------------------------
(* The inductive invariant. *)

(* A process that writes or renames its temporary file has a key and a     *)
(* result that Store was called with, and its file, which is no entry yet, *)
(* has that key and the parts of that result it has written.               *)
Task(x) ==
  /\ x.at = "read" => x.key \in Key
  /\ x.at \in {"create", "write", "rename"} =>
       x.key \in Key /\ x.value \in Value /\ <<x.key, Result(x.value)>> \in offered
  /\ x.at \in {"write", "rename", "discard"} => x.file \in FileId
  /\ x.at \in {"write", "rename"} =>
       files[x.file].key = x.key /\ \A k \in Key : entry[k] # x.file
  /\ x.at = "write" => files[x.file].parts \in {<< >>, <<x.value>>}
  /\ x.at = "rename" => files[x.file].parts = Result(x.value)

Tasks == \A p \in Proc : Task(proc[p])

Writing == {"write", "rename"}

(* No two processes write to the same file.                                *)
Apart ==
  \A p, q \in Proc :
    p # q /\ proc[p].at \in Writing /\ proc[q].at \in Writing => proc[p].file # proc[q].file

(* The file of an entry was made for its key, and a whole file has what    *)
(* Store was called with.                                                  *)
FilesRight ==
  /\ \A k \in Key : entry[k] # 0 => files[entry[k]].key = k
  /\ \A f \in FileId : Len(files[f].parts) \in {0, 1, 2}
  /\ \A f \in FileId : Whole(f) => <<files[f].key, files[f].parts>> \in offered

IInv == TypeOK /\ Tasks /\ Apart /\ FilesRight

LEMMA InitIInv ==
  ASSUME Init
  PROVE  IInv
<1>1. TypeOK
  BY InitTypeOK
<1>2. \A p \in Proc : proc[p].at = "idle"
  BY DEF Init, Fresh
<1>3. FileId = {} /\ \A k \in Key : entry[k] = 0
  BY DEF Init, FileId
<1> QED
  BY <1>1, <1>2, <1>3 DEF IInv, Tasks, Task, Apart, Writing, FilesRight

-----------------------------------------------------------------------------
(* Steps that leave the files and the directory alone. *)

LEMMA QuietStep ==
  ASSUME IInv, NEW p \in Proc, NEW x \in Process,
         proc' = [proc EXCEPT ![p] = x],
         x.at \notin {"create", "write", "rename"},
         x.at = "read" => x.key \in Key,
         x.at = "discard" => x.file \in FileId,
         x.file \in {0, proc[p].file},
         UNCHANGED <<files, temps, entry, clock, offered>>,
         got' \in [Proc -> (Key \X Seq(Value)) \cup {None}],
         orphans' \subseteq FileId
  PROVE  IInv'
<1>1. FileId' = FileId /\ \A f : Whole(f)' <=> Whole(f)
  BY DEF FileId, Whole
<1>2. /\ proc' \in [Proc -> Process]
      /\ \A q \in Proc : proc'[q] = IF q = p THEN x ELSE proc[q]
      /\ \A q \in Proc : proc'[q].file \in {0} \cup FileId
  BY DEF IInv, TypeOK
<1>3. TypeOK'
  BY <1>1, <1>2 DEF IInv, TypeOK
<1>4. Tasks'
  <2>1. ASSUME NEW q \in Proc, NEW y, y = proc'[q]
        PROVE  Task(y)'
    <3>1. CASE q = p
      BY <1>1, <1>2, <2>1, <3>1 DEF Task
    <3>2. CASE q # p
      BY <1>1, <1>2, <2>1, <3>2 DEF IInv, Tasks, Task
    <3> QED
      BY <3>1, <3>2
  <2> QED
    BY <2>1 DEF Tasks, Task
<1>5. Apart'
  BY <1>2 DEF IInv, Apart, Writing
<1>6. FilesRight'
  BY <1>1 DEF IInv, FilesRight
<1> QED
  BY <1>3, <1>4, <1>5, <1>6 DEF IInv

QuietAction(p) ==
  \/ \E k \in Key : LoadMiss(p, k) \/ Lstat(p, k)
  \/ Read(p) \/ StoreGivesUp(p) \/ WriteFails(p) \/ RenameFails(p) \/ DiscardFails(p)
  \/ StartClear(p) \/ List(p) \/ Check(p) \/ RemoveFails(p) \/ EndRemoval(p) \/ Die(p)

LEMMA AnswerTyped ==
  ASSUME TypeOK, NEW k \in Key
  PROVE  Answer(k) \in (Key \X Seq(Value)) \cup {None}
<1>1. entry[k] # 0 => entry[k] \in FileId
  BY DEF TypeOK
<1> QED
  BY <1>1, FileTyped DEF Answer

LEMMA QuietIInv ==
  ASSUME IInv, NEW p \in Proc, QuietAction(p)
  PROVE  IInv'
<1> DEFINE y == proc[p]
<1>1. /\ y \in Process /\ TypeOK
      /\ got \in [Proc -> (Key \X Seq(Value)) \cup {None}]
      /\ orphans \subseteq FileId
  BY DEF IInv, TypeOK
<1>2. Fresh \in Process /\ Fresh.file = 0 /\ Fresh.at = "idle"
  BY DEF Fresh, Process, Steps
<1>3. CASE \/ \E k \in Key : Lstat(p, k)
           \/ WriteFails(p) \/ RenameFails(p)
           \/ StartClear(p) \/ List(p)
           \/ Check(p)
           \/ RemoveFails(p) /\ ~proc[p].clearing
  <2>1. PICK x \in Process :
          /\ proc' = [proc EXCEPT ![p] = x]
          /\ x.at \notin {"create", "write", "rename"}
          /\ x.at = "read" => x.key \in Key
          /\ x.at = "discard" => x.file \in FileId
          /\ x.file \in {0, proc[p].file}
    <3>1. ASSUME NEW k \in Key, Lstat(p, k)
          PROVE  LET x == [y EXCEPT !.at = "read", !.key = k]
                 IN  /\ x \in Process /\ proc' = [proc EXCEPT ![p] = x]
                     /\ x.at = "read" /\ x.key \in Key /\ x.file = y.file
      BY <1>1, <3>1 DEF Lstat, Process, Steps
    <3>2. ASSUME WriteFails(p) \/ RenameFails(p)
          PROVE  LET x == [y EXCEPT !.at = "discard"]
                 IN  /\ x \in Process /\ proc' = [proc EXCEPT ![p] = x]
                     /\ x.at = "discard" /\ x.file \in FileId /\ x.file = y.file
      <4>1. y.file \in FileId
        BY <3>2 DEF IInv, Tasks, Task, WriteFails, RenameFails, At
      <4> QED
        BY <1>1, <3>2, <4>1 DEF WriteFails, RenameFails, Goto, Process, Steps
    <3>3. ASSUME StartClear(p)
          PROVE  LET x == [y EXCEPT !.at = "list", !.clearing = TRUE]
                 IN  /\ x \in Process /\ proc' = [proc EXCEPT ![p] = x]
                     /\ x.at = "list" /\ x.file = y.file
      BY <1>1, <3>3 DEF StartClear, Process, Steps
    <3>4. ASSUME List(p)
          PROVE  LET x == [y EXCEPT !.at = "check", !.now = clock, !.names = Listing, !.left = Listing]
                 IN  /\ x \in Process /\ proc' = [proc EXCEPT ![p] = x]
                     /\ x.at = "check" /\ x.file = y.file
      <4>1. clock \in Nat /\ Listing \in SUBSET Name
        BY <1>1, ListingTyped DEF TypeOK
      <4> QED
        BY <1>1, <3>4, <4>1 DEF List, Process, Steps
    <3>5. ASSUME NEW n \in y.left
          PROVE  LET x == [y EXCEPT !.at = "remove", !.left = y.left \ {n}, !.doomed = {n}]
                     z == [y EXCEPT !.left = y.left \ {n}]
                 IN  /\ x \in Process /\ x.at = "remove" /\ x.file = y.file
                     /\ z \in Process /\ z.at = y.at /\ z.file = y.file
      <4>1. y.left \ {n} \in SUBSET Name /\ {n} \in SUBSET Name
        BY <1>1 DEF Process
      <4> QED
        BY <1>1, <4>1 DEF Process, Steps
    <3>6. ASSUME RemoveFails(p), ~proc[p].clearing
          PROVE  LET x == [y EXCEPT !.at = "check", !.doomed = {}, !.names = y.names \ y.doomed]
                 IN  /\ x \in Process /\ proc' = [proc EXCEPT ![p] = x]
                     /\ x.at = "check" /\ x.file = y.file
      <4>1. y.names \ y.doomed \in SUBSET Name
        BY <1>1 DEF Process
      <4> QED
        BY <1>1, <3>6, <4>1 DEF RemoveFails, Process, Steps
    <3>7. CASE Check(p)
      <4>1. PICK n \in y.left :
              proc' = IF MustGo(p, n)
                      THEN [proc EXCEPT ![p] = [y EXCEPT !.at = "remove", !.left = y.left \ {n}, !.doomed = {n}]]
                      ELSE [proc EXCEPT ![p] = [y EXCEPT !.left = y.left \ {n}]]
        BY <3>7 DEF Check
      <4>2. y.at = "check"
        BY <3>7 DEF Check, At
      <4> QED
        BY <3>5, <4>1, <4>2
    <3> QED
      BY <1>3, <3>1, <3>2, <3>3, <3>4, <3>6, <3>7
  <2>2. UNCHANGED <<files, temps, entry, clock, offered, got, orphans>>
    BY <1>3 DEF Lstat, WriteFails, RenameFails, StartClear, List, Check, RemoveFails
  <2> QED
    BY <1>1, <2>1, <2>2, QuietStep
<1>4. CASE \/ \E k \in Key : LoadMiss(p, k)
           \/ Read(p) \/ StoreGivesUp(p) \/ EndRemoval(p) \/ Die(p)
           \/ RemoveFails(p) /\ proc[p].clearing
  <2>1. /\ UNCHANGED <<files, temps, entry, clock, offered>>
        /\ got' \in [Proc -> (Key \X Seq(Value)) \cup {None}]
        /\ orphans' \subseteq FileId
    <3>1. CASE Read(p)
      <4>1. proc[p].key \in Key
        BY <3>1 DEF IInv, Tasks, Task, Read, At
      <4> QED
        BY <1>1, <3>1, <4>1, AnswerTyped DEF Read
    <3>2. CASE Die(p)
      BY <1>1, <3>2 DEF Die, Owned, TypeOK
    <3>3. CASE ~Read(p) /\ ~Die(p)
      BY <1>1, <1>4, <3>3 DEF LoadMiss, StoreGivesUp, EndRemoval, RemoveFails
    <3> QED
      BY <3>1, <3>2, <3>3
  <2>2. CASE proc' = [proc EXCEPT ![p] = Fresh]
    BY <1>2, <2>1, <2>2, QuietStep
  <2>3. CASE \E k \in Key : LoadMiss(p, k)
    <3>1. proc' = [proc EXCEPT ![p] = y] /\ y.at = "idle"
      BY <1>1, <2>3 DEF LoadMiss, At, TypeOK
    <3> QED
      BY <1>1, <2>1, <3>1, QuietStep
  <2> QED
    BY <1>4, <2>2, <2>3 DEF Read, StoreGivesUp, EndRemoval, Die, RemoveFails, Finished
<1>5. CASE DiscardFails(p)
  <2> DEFINE x == [y EXCEPT !.at = "list"]
  <2>1. x \in Process /\ x.at = "list" /\ x.file = y.file /\ proc' = [proc EXCEPT ![p] = x]
    BY <1>1, <1>5 DEF DiscardFails, Goto, Process, Steps
  <2>2. UNCHANGED <<files, temps, entry, clock, offered, got>> /\ orphans' \subseteq FileId
    BY <1>1, <1>5 DEF DiscardFails, Owned, TypeOK
  <2> HIDE DEF x
  <2> QED
    BY <1>1, <2>1, <2>2, QuietStep
<1> QED
  BY <1>3, <1>4, <1>5 DEF QuietAction

-----------------------------------------------------------------------------
(* Steps of a Store. *)

LEMMA StartStoreIInv ==
  ASSUME IInv, NEW p \in Proc, NEW k \in Key, NEW v \in Value, StartStore(p, k, v)
  PROVE  IInv'
<1> DEFINE x == [proc[p] EXCEPT !.at = "create", !.key = k, !.value = v]
<1>1. /\ proc' = [proc EXCEPT ![p] = x]
      /\ offered' = offered \cup {<<k, Result(v)>>}
      /\ UNCHANGED <<files, temps, entry, clock, got, orphans>>
  BY DEF StartStore
<1>2. x \in Process /\ x.at = "create" /\ x.key = k /\ x.value = v /\ x.file = proc[p].file
  BY ZenonT(40) DEF IInv, TypeOK, Process, Steps
<1> HIDE DEF x
<1>3. /\ proc' \in [Proc -> Process]
      /\ \A q \in Proc : proc'[q] = IF q = p THEN x ELSE proc[q]
      /\ \A q \in Proc : proc'[q].file \in {0} \cup FileId
  BY <1>1, <1>2 DEF IInv, TypeOK
<1>4. FileId' = FileId /\ \A f : Whole(f)' <=> Whole(f)
  BY <1>1 DEF FileId, Whole
<1>5. TypeOK'
  <2>1. <<k, Result(v)>> \in Key \X Results
    BY DEF Results
  <2> QED
    BY <1>1, <1>3, <1>4, <2>1 DEF IInv, TypeOK
<1>6. ASSUME NEW q \in Proc, NEW y, y = proc'[q]
      PROVE  Task(y)'
  <2>1. CASE q = p
    BY <1>1, <1>2, <1>3, <1>6, <2>1 DEF Task
  <2>2. CASE q # p
    BY <1>1, <1>3, <1>4, <1>6, <2>2 DEF IInv, Tasks, Task
  <2> QED
    BY <2>1, <2>2
<1>7. Tasks'
  BY <1>6 DEF Tasks, Task
<1>8. Apart'
  BY <1>2, <1>3 DEF IInv, Apart, Writing
<1>9. FilesRight'
  BY <1>1, <1>4 DEF IInv, FilesRight
<1> QED
  BY <1>5, <1>7, <1>8, <1>9 DEF IInv

(* A new file is in nobody's hands and no entry.                           *)
LEMMA CreateTempIInv ==
  ASSUME IInv, NEW p \in Proc, CreateTemp(p)
  PROVE  IInv'
<1>0. PICK n : n = Len(files) + 1
  OBVIOUS
<1> DEFINE x == [proc[p] EXCEPT !.at = "write", !.file = n]
           new == [key |-> proc[p].key, parts |-> << >>, mtime |-> clock]
<1>1. /\ proc' = [proc EXCEPT ![p] = x]
      /\ files' = Append(files, new)
      /\ temps' = temps \cup {n}
      /\ UNCHANGED <<entry, clock, offered, got, orphans>>
  BY <1>0 DEF CreateTemp
<1>2. /\ proc[p].key \in Key /\ proc[p].value \in Value
      /\ <<proc[p].key, Result(proc[p].value)>> \in offered
      /\ Len(files) \in Nat /\ n \in Nat
  BY <1>0, FileTyped DEF IInv, Tasks, Task, CreateTemp, At
<1>3. x \in Process /\ x.at = "write" /\ x.key = proc[p].key /\ x.value = proc[p].value
      /\ x.file = n
  BY ZenonT(40), <1>2 DEF IInv, TypeOK, Process, Steps
<1>4. new \in File /\ new.key = proc[p].key /\ new.parts = << >>
  BY <1>2, EmptySeq DEF IInv, TypeOK, File
<1> HIDE DEF x, new
<1>5. /\ files' \in Seq(File) /\ Len(files') = n
      /\ files'[n] = new
      /\ \A f \in FileId : files'[f] = files[f]
  BY <1>0, <1>1, <1>4, FileTyped, AppendProperties DEF FileId, IInv
<1>6. FileId' = FileId \cup {n} /\ n \notin FileId /\ n # 0
  BY <1>0, <1>2, <1>5 DEF FileId
<1>7. /\ proc' \in [Proc -> Process]
      /\ \A q \in Proc : proc'[q] = IF q = p THEN x ELSE proc[q]
      /\ \A q \in Proc : proc'[q].file \in {0} \cup FileId'
  BY <1>1, <1>3, <1>6 DEF IInv, TypeOK
<1>8. TypeOK'
  BY <1>1, <1>5, <1>6, <1>7 DEF IInv, TypeOK, File
<1>9. \A k \in Key : entry[k] # n
  BY <1>6 DEF IInv, TypeOK
<1>10. ASSUME NEW q \in Proc, NEW y, y = proc'[q]
       PROVE  Task(y)'
  <2>1. CASE q = p
    BY <1>1, <1>2, <1>3, <1>4, <1>5, <1>6, <1>7, <1>9, <1>10, <2>1 DEF Task
  <2>2. CASE q # p
    <3>1. y = proc[q] /\ Task(y)
      BY <1>7, <1>10, <2>2 DEF IInv, Tasks
    <3> QED
      BY <1>1, <1>5, <1>6, <3>1 DEF Task
  <2> QED
    BY <2>1, <2>2
<1>11. Tasks'
  BY <1>10 DEF Tasks, Task
<1>12. Apart'
  <2>1. \A q \in Proc : proc[q].file # n
    BY <1>6 DEF IInv, TypeOK
  <2> QED
    BY <1>3, <1>7, <2>1 DEF IInv, Apart, Writing
<1>13. FilesRight'
  <2>1. /\ ~Whole(n)' /\ \A f \in FileId : Whole(f)' <=> Whole(f)
        /\ Len(files'[n].parts) = 0
    BY SMTT(30), <1>4, <1>5 DEF Whole
  <2>2. \A k \in Key : entry[k] # 0 => entry[k] \in FileId
    BY DEF IInv, TypeOK
  <2>3. \A k \in Key : entry'[k] # 0 => files'[entry'[k]].key = k
    BY <1>1, <1>5, <2>2 DEF IInv, FilesRight
  <2>4. \A f \in FileId' : Len(files'[f].parts) \in {0, 1, 2}
    BY <1>5, <1>6, <2>1 DEF IInv, FilesRight
  <2>5. \A f \in FileId' : Whole(f)' => <<files'[f].key, files'[f].parts>> \in offered'
    BY <1>1, <1>5, <1>6, <2>1 DEF IInv, FilesRight
  <2> QED
    BY <2>3, <2>4, <2>5 DEF FilesRight
<1> QED
  BY <1>8, <1>11, <1>12, <1>13 DEF IInv

LEMMA Parts ==
  ASSUME NEW v \in Value
  PROVE  /\ Append(<< >>, v) = <<v>>
         /\ Append(<<v>>, v) = Result(v)
         /\ Len(<< >>) = 0 /\ Len(<<v>>) = 1 /\ Len(Result(v)) = 2
         /\ <<v>> \in Seq(Value) /\ Result(v) \in Seq(Value)
<1>1. /\ << >> \in Seq(Value) /\ Len(<< >>) = 0
      /\ <<v>> \in Seq(Value) /\ Len(<<v>>) = 1 /\ <<v>>[1] = v
      /\ <<v, v>> \in Seq(Value) /\ Len(<<v, v>>) = 2
      /\ <<v, v>>[1] = v /\ <<v, v>>[2] = v
  OBVIOUS
<1>2. Append(<< >>, v) = <<v>>
  <2>1. /\ Append(<< >>, v) \in Seq(Value) /\ Len(Append(<< >>, v)) = 1
        /\ Append(<< >>, v)[1] = v
    BY <1>1, AppendProperties
  <2> QED
    BY <1>1, <2>1, SeqEqual
<1>3. Append(<<v>>, v) = <<v, v>>
  <2>1. /\ Append(<<v>>, v) \in Seq(Value) /\ Len(Append(<<v>>, v)) = 2
        /\ Append(<<v>>, v)[1] = v /\ Append(<<v>>, v)[2] = v
    BY <1>1, AppendProperties
  <2>2. PICK s, t : s = Append(<<v>>, v) /\ t = <<v, v>>
    OBVIOUS
  <2>3. /\ s \in Seq(Value) /\ t \in Seq(Value) /\ Len(s) = 2 /\ Len(t) = 2
        /\ s[1] = t[1] /\ s[2] = t[2]
    BY <1>1, <2>1, <2>2
  <2>4. \A i \in 1 .. Len(s) : s[i] = t[i]
    BY <2>3
  <2>5. s = t
    BY <2>3, <2>4, SeqEqual
  <2> QED
    BY <2>2, <2>5
<1> QED
  BY <1>1, <1>2, <1>3 DEF Result

LEMMA WritePartIInv ==
  ASSUME IInv, NEW p \in Proc, WritePart(p)
  PROVE  IInv'
<1>0. PICK f : f = proc[p].file
  OBVIOUS
<1> DEFINE v == proc[p].value
           first == Len(files[f].parts) = 0
           e == [files[f] EXCEPT !.parts = Append(files[f].parts, v), !.mtime = clock]
           x == [proc[p] EXCEPT !.at = IF first THEN "write" ELSE "rename"]
<1>1. /\ proc' = [proc EXCEPT ![p] = x]
      /\ files' = [files EXCEPT ![f] = e]
      /\ UNCHANGED <<temps, entry, clock, offered, got, orphans>>
  BY <1>0 DEF WritePart, Goto
<1>2. /\ At(p, "write") /\ proc[p].key \in Key /\ v \in Value /\ f \in FileId
      /\ <<proc[p].key, Result(v)>> \in offered
      /\ files[f].key = proc[p].key
      /\ \A k \in Key : entry[k] # f
      /\ files[f].parts \in {<< >>, <<v>>}
  BY <1>0 DEF IInv, Tasks, Task, WritePart, At
<1>3. /\ Append(files[f].parts, v) = IF first THEN <<v>> ELSE Result(v)
      /\ first <=> files[f].parts = << >>
      /\ Append(files[f].parts, v) \in Seq(Value)
  <2>1. CASE files[f].parts = << >>
    BY <1>2, <2>1, Parts
  <2>2. CASE files[f].parts = <<v>>
    BY <1>2, <2>2, Parts
  <2> QED
    BY <1>2, <2>1, <2>2
<1>4. e \in File /\ e.key = proc[p].key /\ e.parts = IF first THEN <<v>> ELSE Result(v)
  BY <1>2, <1>3, FileTyped DEF IInv, TypeOK, File
<1>5. /\ x \in Process
      /\ x.at = IF first THEN "write" ELSE "rename"
      /\ x.key = proc[p].key /\ x.value = v /\ x.file = f
  BY ZenonT(40), <1>0 DEF IInv, TypeOK, Process, Steps
<1> HIDE DEF x, e, first
<1>6. /\ files' \in Seq(File) /\ Len(files') = Len(files) /\ FileId' = FileId
      /\ \A g \in FileId : files'[g] = IF g = f THEN e ELSE files[g]
  BY <1>1, <1>2, <1>4, FileTyped, ExceptSeq DEF FileId, IInv
<1>7. /\ proc' \in [Proc -> Process]
      /\ \A q \in Proc : proc'[q] = IF q = p THEN x ELSE proc[q]
      /\ \A q \in Proc : proc'[q].file \in {0} \cup FileId'
  BY <1>1, <1>2, <1>5, <1>6 DEF IInv, TypeOK
<1>8. TypeOK'
  BY <1>1, <1>6, <1>7 DEF IInv, TypeOK, File
<1>9. ASSUME NEW q \in Proc, NEW y, y = proc'[q]
      PROVE  Task(y)'
  <2>1. CASE q = p
    BY <1>1, <1>2, <1>4, <1>5, <1>6, <1>7, <1>9, <2>1 DEF Task
  <2>2. CASE q # p
    <3>1. y = proc[q] /\ Task(y)
      BY <1>7, <1>9, <2>2 DEF IInv, Tasks
    <3>2. y.at \in Writing => y.file # f
      BY <1>0, <1>2, <2>2, <3>1 DEF IInv, Apart, Writing, At
    <3> QED
      BY <1>1, <1>6, <3>1, <3>2 DEF Task, Writing
  <2> QED
    BY <2>1, <2>2
<1>10. Tasks'
  BY <1>9 DEF Tasks, Task
<1>11. Apart'
  BY <1>0, <1>2, <1>5, <1>7 DEF IInv, Apart, Writing, At
<1>12. FilesRight'
  <2>1. \A k \in Key : entry[k] # 0 => files'[entry[k]].key = k
    BY <1>2, <1>6 DEF IInv, FilesRight, TypeOK
  <2>2. ASSUME NEW g \in FileId, Len(files'[g].parts) = 2
        PROVE  <<files'[g].key, files'[g].parts>> \in offered
    <3>1. CASE g = f
      BY <1>2, <1>4, <1>6, <2>2, <3>1
    <3>2. CASE g # f
      BY <1>6, <2>2, <3>2 DEF IInv, FilesRight, Whole
    <3> QED
      BY <3>1, <3>2
  <2>3. \A g \in FileId : Len(files'[g].parts) \in {0, 1, 2}
    <3>1. Len(e.parts) \in {0, 1, 2}
      <4>1. Len(<<v>>) = 1 /\ Len(Result(v)) = 2
        BY <1>2, Parts
      <4>2. e.parts = <<v>> \/ e.parts = Result(v)
        BY <1>4
      <4> QED
        BY <4>1, <4>2, Zenon
    <3> QED
      BY <1>6, <3>1 DEF IInv, FilesRight
  <2> QED
    BY <1>1, <1>6, <2>1, <2>2, <2>3 DEF FilesRight, Whole
<1> QED
  BY <1>8, <1>10, <1>11, <1>12 DEF IInv

LEMMA RenameIInv ==
  ASSUME IInv, NEW p \in Proc, Rename(p)
  PROVE  IInv'
<1> DEFINE f == proc[p].file
           x == [proc[p] EXCEPT !.at = "list"]
<1>1. /\ proc' = [proc EXCEPT ![p] = x]
      /\ temps' = temps \ {f}
      /\ entry' = [entry EXCEPT ![proc[p].key] = f]
      /\ UNCHANGED <<files, clock, offered, got, orphans>>
  BY DEF Rename, Goto
<1>2. /\ At(p, "rename") /\ proc[p].key \in Key /\ f \in FileId
      /\ files[f].key = proc[p].key
  BY DEF IInv, Tasks, Task, Rename, At
<1>3. x \in Process /\ x.at = "list" /\ x.file = f
  BY ZenonT(40) DEF IInv, TypeOK, Process, Steps
<1> HIDE DEF x
<1>4. FileId' = FileId /\ \A g : Whole(g)' <=> Whole(g)
  BY <1>1 DEF FileId, Whole
<1>5. /\ proc' \in [Proc -> Process]
      /\ \A q \in Proc : proc'[q] = IF q = p THEN x ELSE proc[q]
      /\ \A q \in Proc : proc'[q].file \in {0} \cup FileId'
  BY <1>1, <1>3, <1>4 DEF IInv, TypeOK
<1>6. \A k \in Key : entry'[k] = IF k = proc[p].key THEN f ELSE entry[k]
  BY <1>1, <1>2 DEF IInv, TypeOK
<1>7. TypeOK'
  BY <1>1, <1>2, <1>4, <1>5 DEF IInv, TypeOK
<1>8. ASSUME NEW q \in Proc, NEW y, y = proc'[q]
      PROVE  Task(y)'
  <2>1. CASE q = p
    BY <1>3, <1>5, <1>8, <2>1 DEF Task
  <2>2. CASE q # p
    <3>1. y = proc[q] /\ Task(y)
      BY <1>5, <1>8, <2>2 DEF IInv, Tasks
    <3>2. y.at \in Writing => y.file # f
      BY <1>2, <2>2, <3>1 DEF IInv, Apart, Writing, At
    <3> QED
      BY <1>1, <1>4, <1>6, <3>1, <3>2 DEF Task, Writing
  <2> QED
    BY <2>1, <2>2
<1>9. Tasks'
  BY <1>8 DEF Tasks, Task
<1>10. Apart'
  BY <1>3, <1>5 DEF IInv, Apart, Writing
<1>11. FilesRight'
  BY <1>1, <1>2, <1>4, <1>6 DEF IInv, FilesRight
<1> QED
  BY <1>7, <1>9, <1>10, <1>11 DEF IInv

-----------------------------------------------------------------------------
(* Steps that remove names, and steps of the world outside.                *)

(* Names go, and no process begins to write.                               *)
LEMMA LesserStep ==
  ASSUME IInv, NEW p \in Proc, NEW x \in Process,
         proc' = [proc EXCEPT ![p] = x],
         x.at \in {"list", "check"}, x.file = proc[p].file,
         temps' \subseteq temps,
         entry' \in [Key -> {0} \cup FileId],
         \A k \in Key : entry'[k] \in {0, entry[k]},
         UNCHANGED <<files, clock, offered, got, orphans>>
  PROVE  IInv'
<1>1. FileId' = FileId /\ \A f : Whole(f)' <=> Whole(f)
  BY DEF FileId, Whole
<1>2. /\ proc' \in [Proc -> Process]
      /\ \A q \in Proc : proc'[q] = IF q = p THEN x ELSE proc[q]
      /\ \A q \in Proc : proc'[q].file \in {0} \cup FileId'
  BY <1>1 DEF IInv, TypeOK
<1>3. TypeOK'
  BY <1>1, <1>2 DEF IInv, TypeOK
<1>4. ASSUME NEW q \in Proc, NEW y, y = proc'[q]
      PROVE  Task(y)'
  <2>1. CASE q = p
    BY <1>2, <1>4, <2>1 DEF Task
  <2>2. CASE q # p
    <3>1. y = proc[q] /\ Task(y)
      BY <1>2, <1>4, <2>2 DEF IInv, Tasks
    <3>2. y.file \in FileId => y.file # 0
      BY FileTyped DEF FileId, IInv
    <3> QED
      BY <1>1, <3>1, <3>2 DEF Task
  <2> QED
    BY <2>1, <2>2
<1>5. Tasks'
  BY <1>4 DEF Tasks, Task
<1>6. Apart'
  BY <1>2 DEF IInv, Apart, Writing
<1>7. FilesRight'
  BY <1>1 DEF IInv, FilesRight
<1> QED
  BY <1>3, <1>5, <1>6, <1>7 DEF IInv

LEMMA DiscardIInv ==
  ASSUME IInv, NEW p \in Proc, Discard(p)
  PROVE  IInv'
<1> DEFINE x == [proc[p] EXCEPT !.at = "list"]
<1>1. x \in Process /\ x.at = "list" /\ x.file = proc[p].file
  BY ZenonT(40) DEF IInv, TypeOK, Process, Steps
<1>2. proc' = [proc EXCEPT ![p] = x]
  BY DEF Discard, Goto
<1>3. temps' \subseteq temps /\ UNCHANGED <<files, entry, clock, offered, got, orphans>>
  BY DEF Discard
<1>4. entry \in [Key -> {0} \cup FileId]
  BY DEF IInv, TypeOK
<1> HIDE DEF x
<1> QED
  BY <1>1, <1>2, <1>3, <1>4, LesserStep

LEMMA RemoveIInv ==
  ASSUME IInv, NEW p \in Proc, Remove(p)
  PROVE  IInv'
<1> DEFINE x == [proc[p] EXCEPT !.at = "check", !.doomed = {}]
<1>1. x \in Process /\ x.at = "check" /\ x.file = proc[p].file
  BY ZenonT(40) DEF IInv, TypeOK, Process, Steps
<1>2. proc' = [proc EXCEPT ![p] = x] /\ UNCHANGED <<files, clock, offered, got, orphans>>
  BY DEF Remove
<1>3. PICK n \in proc[p].doomed : Unlink(n)
  BY DEF Remove
<1>4. n \in Name /\ n.key \in Key
  BY DEF IInv, TypeOK, Process, Name
<1>5. entry \in [Key -> {0} \cup FileId]
  BY DEF IInv, TypeOK
<1>6. /\ temps' \subseteq temps
      /\ entry' \in [Key -> {0} \cup FileId]
      /\ \A k \in Key : entry'[k] \in {0, entry[k]}
  BY <1>3, <1>4, <1>5 DEF Unlink
<1> HIDE DEF x
<1> QED
  BY <1>1, <1>2, <1>6, LesserStep

LEMMA TickIInv ==
  ASSUME IInv, Tick
  PROVE  IInv'
<1>1. clock' \in Nat /\ UNCHANGED <<files, temps, entry, proc, offered, got, orphans>>
  BY DEF Tick, IInv, TypeOK
<1>2. TypeOK'
  BY <1>1 DEF IInv, TypeOK, FileId
<1>3. Tasks' /\ Apart' /\ FilesRight'
  BY <1>1 DEF IInv, Tasks, Task, Apart, FilesRight, FileId, Whole
<1> QED
  BY <1>2, <1>3 DEF IInv

(* A file that loses its end is not whole, and nobody goes on writing it.  *)
LEMMA PowerLossFiles ==
  ASSUME IInv, PowerLoss
  PROVE  /\ files' \in Seq(File)
         /\ FileId' = FileId
         /\ \A f \in FileId :
              /\ files'[f].key = files[f].key
              /\ files'[f].parts = files[f].parts \/ Len(files'[f].parts) \in {0, 1}
<1>1. PICK lost \in SUBSET {f \in FileId : files[f].mtime = clock /\ files[f].parts # << >>} :
        files' = [f \in FileId |->
                   IF f \in lost
                   THEN [files[f] EXCEPT !.parts = SubSeq(files[f].parts, 1, Len(files[f].parts) - 1)]
                   ELSE files[f]]
  BY DEF PowerLoss
<1>2. ASSUME NEW f \in FileId
      PROVE  /\ files'[f] \in File
             /\ files'[f].key = files[f].key
             /\ files'[f].parts = files[f].parts \/ Len(files'[f].parts) \in {0, 1}
  <2>1. CASE f \in lost
    <3> DEFINE s == files[f].parts
               t == SubSeq(s, 1, Len(s) - 1)
    <3>1. s \in Seq(Value) /\ s # << >> /\ Len(s) \in {0, 1, 2} /\ Len(s) \in Nat \ {0}
      BY <2>1, FileTyped, EmptySeq DEF IInv, FilesRight
    <3>2. t \in Seq(Value) /\ Len(t) \in {0, 1}
      <4>1. CASE Len(s) = 1
        BY <3>1, <4>1, SubSeqProperties
      <4>2. CASE Len(s) = 2
        BY <3>1, <4>2, SubSeqProperties
      <4> QED
        BY <3>1, <4>1, <4>2
    <3>3. files'[f] = [files[f] EXCEPT !.parts = t]
      BY <1>1, <2>1
    <3> HIDE DEF t
    <3> QED
      BY <3>2, <3>3, FileTyped DEF IInv, File
  <2>2. CASE f \notin lost
    BY <1>1, <2>2, FileTyped DEF IInv
  <2> QED
    BY <2>1, <2>2
<1>3. Len(files) \in Nat /\ DOMAIN files' = 1 .. Len(files)
  BY <1>1, FileTyped DEF IInv, FileId
<1>4. files' \in [1 .. Len(files) -> File]
  BY <1>1, <1>2, <1>3 DEF FileId
<1>5. files' \in Seq(File) /\ Len(files') = Len(files)
  BY <1>3, <1>4, SeqDef
<1> QED
  BY <1>2, <1>5 DEF FileId

LEMMA PowerLossIInv ==
  ASSUME IInv, PowerLoss
  PROVE  IInv'
<1>1. /\ proc' = [p \in Proc |-> Fresh] /\ got' = [p \in Proc |-> None]
      /\ orphans' = orphans \cup UNION {Owned(p) : p \in Proc}
      /\ UNCHANGED <<temps, entry, clock, offered>>
  BY DEF PowerLoss
<1>2. Fresh \in Process /\ Fresh.file = 0 /\ Fresh.at = "idle"
  BY DEF Fresh, Process, Steps
<1>3. UNION {Owned(p) : p \in Proc} \subseteq FileId
  BY DEF Owned, IInv, TypeOK
<1>4. TypeOK'
  BY <1>1, <1>2, <1>3, PowerLossFiles DEF IInv, TypeOK, File
<1>5. Tasks' /\ Apart'
  BY <1>1, <1>2 DEF Tasks, Task, Apart, Writing
<1>6. FilesRight'
  <2>1. \A k \in Key : entry'[k] # 0 => files'[entry'[k]].key = k
    BY <1>1, PowerLossFiles DEF IInv, FilesRight, TypeOK
  <2>2. \A f \in FileId : Len(files'[f].parts) \in {0, 1, 2}
    BY PowerLossFiles DEF IInv, FilesRight
  <2>3. \A f \in FileId : Whole(f)' => <<files'[f].key, files'[f].parts>> \in offered'
    <3> SUFFICES ASSUME NEW f \in FileId, Len(files'[f].parts) = 2
                 PROVE  <<files'[f].key, files'[f].parts>> \in offered
      BY <1>1 DEF Whole
    <3>1. files'[f].parts = files[f].parts /\ files'[f].key = files[f].key
      BY SMTT(30), PowerLossFiles
    <3> QED
      BY <3>1 DEF IInv, FilesRight, Whole
  <2> QED
    BY <2>1, <2>2, <2>3, PowerLossFiles DEF FilesRight
<1> QED
  BY <1>4, <1>5, <1>6 DEF IInv

-----------------------------------------------------------------------------
LEMMA StepIInv ==
  ASSUME IInv, [Next]_vars
  PROVE  IInv'
<1>1. ASSUME NEW p \in Proc, QuietAction(p)
      PROVE  IInv'
  BY <1>1, QuietIInv
<1>2. ASSUME NEW p \in Proc, NEW k \in Key, NEW v \in Value, StartStore(p, k, v)
      PROVE  IInv'
  BY <1>2, StartStoreIInv
<1>3. ASSUME NEW p \in Proc,
             CreateTemp(p) \/ WritePart(p) \/ Rename(p) \/ Discard(p) \/ Remove(p)
      PROVE  IInv'
  BY <1>3, CreateTempIInv, WritePartIInv, RenameIInv, DiscardIInv, RemoveIInv
<1>4. CASE Tick \/ PowerLoss
  BY <1>4, TickIInv, PowerLossIInv
<1>5. CASE UNCHANGED vars
  <2>1. TypeOK'
    BY <1>5 DEF IInv, TypeOK, FileId, vars
  <2>2. Tasks' /\ Apart' /\ FilesRight'
    BY <1>5 DEF IInv, Tasks, Task, Apart, FilesRight, FileId, Whole, vars
  <2> QED
    BY <2>1, <2>2 DEF IInv
<1> QED
  BY <1>1, <1>2, <1>3, <1>4, <1>5 DEF Next, QuietAction

(* Every value keeps its type; in particular a process that writes has a   *)
(* file to write to.                                                       *)
THEOREM TypeCorrect == Spec => []TypeOK
<1>1. Init => IInv
  BY InitIInv
<1>2. IInv /\ [Next]_vars => IInv'
  BY StepIInv
<1>3. IInv => TypeOK
  BY DEF IInv
<1> QED
  BY <1>1, <1>2, <1>3, PTL DEF Spec

-----------------------------------------------------------------------------
(* The directory implements the map. *)

LEMMA ReadableResult ==
  ASSUME IInv, NEW k \in Key, entry[k] # 0, Whole(entry[k])
  PROVE  <<k, files[entry[k]].parts>> \in offered /\ files[entry[k]].parts \in Results
<1>1. entry[k] \in FileId /\ files[entry[k]].key = k
  BY DEF IInv, TypeOK, FilesRight
<1>2. <<k, files[entry[k]].parts>> \in offered
  BY <1>1 DEF IInv, FilesRight
<1> QED
  BY <1>2 DEF IInv, TypeOK

(* A step that leaves what can be read alone. *)
LEMMA SameReadable ==
  ASSUME IInv, UNCHANGED entry,
         \A k \in Key : entry[k] # 0 => files'[entry[k]] = files[entry[k]]
  PROVE  [k \in Key |-> Readable(k)]' = [k \in Key |-> Readable(k)]
<1>1. ASSUME NEW k \in Key
      PROVE  Readable(k)' = Readable(k)
  BY DEF Readable, Whole
<1> QED
  BY <1>1

LEMMA ReadMaps ==
  ASSUME IInv, NEW p \in Proc, Read(p)
  PROVE  Map!Next
<1> DEFINE k == proc[p].key
<1>1. k \in Key
  BY DEF IInv, Tasks, Task, Read, At
<1>2. [j \in Key |-> Readable(j)]' = [j \in Key |-> Readable(j)]
  BY SameReadable DEF Read
<1>3. CASE entry[k] # 0 /\ Whole(entry[k])
  <2>1. Readable(k) = files[entry[k]].parts /\ Readable(k) # None
    <3>1. entry[k] \in FileId
      BY <1>1, <1>3 DEF IInv, TypeOK
    <3>2. files[entry[k]].parts \in Seq(Value)
      BY <3>1, FileTyped DEF IInv
    <3> QED
      BY <1>3, <3>2, CacheAssumption DEF Readable
  <2>2. got' = [got EXCEPT ![p] = <<k, Readable(k)>>] /\ UNCHANGED offered
    BY <1>3, <2>1 DEF Read, Answer
  <2>3. Map!Hit(p, k)
    BY <1>1, <1>2, <2>1, <2>2 DEF Map!Hit
  <2> QED
    BY <1>1, <2>3 DEF Map!Next
<1>4. CASE ~(entry[k] # 0 /\ Whole(entry[k]))
  <2>1. got' = [got EXCEPT ![p] = None] /\ UNCHANGED offered
    BY <1>4 DEF Read, Answer
  <2>2. Map!Miss(p)
    BY <1>2, <2>1 DEF Map!Miss
  <2> QED
    BY <2>2 DEF Map!Next
<1> QED
  BY <1>3, <1>4

(* Entries that can't be read any more, and processes that end, are what   *)
(* the map may lose; a step that loses nothing is one of these too.        *)
LEMMA LoseMaps ==
  ASSUME IInv, NEW procs \in SUBSET Proc,
         \A k \in Key : Readable(k)' \in {None, Readable(k)},
         got' = [q \in Proc |-> IF q \in procs THEN None ELSE got[q]],
         UNCHANGED offered
  PROVE  Map!Next
<1> DEFINE keys == {k \in Key : Readable(k)' = None}
<1>1. [k \in Key |-> Readable(k)]'
        = [k \in Key |-> IF k \in keys THEN None ELSE [j \in Key |-> Readable(j)][k]]
  OBVIOUS
<1>2. keys \in SUBSET Key
  OBVIOUS
<1> HIDE DEF keys
<1>3. Map!Lose(keys, procs)
  BY <1>1 DEF Map!Lose
<1> QED
  BY <1>2, <1>3 DEF Map!Next

LEMMA StartStoreMaps ==
  ASSUME IInv, NEW p \in Proc, NEW k \in Key, NEW v \in Value, StartStore(p, k, v)
  PROVE  Map!Next
<1>1. [j \in Key |-> Readable(j)]' = [j \in Key |-> Readable(j)]
  BY SameReadable DEF StartStore
<1>2. Map!Offer(k, Result(v))
  BY <1>1 DEF Map!Offer, StartStore
<1>3. Result(v) \in Results
  BY DEF Results
<1> QED
  BY <1>2, <1>3 DEF Map!Next

LEMMA RenameMaps ==
  ASSUME IInv, NEW p \in Proc, Rename(p)
  PROVE  Map!Next
<1> DEFINE f == proc[p].file
           key == proc[p].key
           v == Result(proc[p].value)
<1>1. /\ key \in Key /\ proc[p].value \in Value /\ f \in FileId /\ f # 0
      /\ <<key, v>> \in offered
      /\ files[f].parts = v
  BY FileTyped DEF IInv, Tasks, Task, Rename, At, FileId
<1>2. /\ entry' = [entry EXCEPT ![key] = f]
      /\ UNCHANGED <<files, offered, got>>
  BY DEF Rename
<1>3. v \in Results /\ Len(v) = 2
  BY <1>1, Parts DEF Results
<1> HIDE DEF f, key, v
<1>4. ASSUME NEW k \in Key
      PROVE  Readable(k)' = IF k = key THEN v ELSE Readable(k)
  <2>1. CASE k = key
    <3>1. entry'[k] = f /\ files'[f].parts = v
      BY <1>1, <1>2, <2>1 DEF IInv, TypeOK
    <3> QED
      BY <1>1, <1>3, <2>1, <3>1 DEF Readable, Whole
  <2>2. CASE k # key
    BY <1>2, <2>2 DEF Readable, Whole, IInv, TypeOK
  <2> QED
    BY <2>1, <2>2
<1>5. [k \in Key |-> Readable(k)]' = [[k \in Key |-> Readable(k)] EXCEPT ![key] = v]
  BY <1>4
<1>6. Map!Put(key, v)
  BY <1>1, <1>2, <1>5 DEF Map!Put
<1> QED
  BY <1>1, <1>3, <1>6 DEF Map!Next

(* What a step of each kind does to the map. *)
LEMMA RemoveMaps ==
  ASSUME IInv, NEW p \in Proc, Remove(p)
  PROVE  Map!Next
<1>1. PICK n \in proc[p].doomed : Unlink(n)
  BY DEF Remove
<1>2. n.key \in Key
  BY DEF IInv, TypeOK, Process, Name
<1>3. UNCHANGED <<files, offered, got>>
  BY DEF Remove
<1>4. \A k \in Key : entry'[k] \in {0, entry[k]}
  BY <1>1, <1>2 DEF Unlink, IInv, TypeOK
<1>5. \A k \in Key : Readable(k)' \in {None, Readable(k)}
  BY <1>3, <1>4 DEF Readable, Whole
<1> DEFINE nobody == {}
<1>6. nobody \in SUBSET Proc
  OBVIOUS
<1>7. got' = [q \in Proc |-> IF q \in nobody THEN None ELSE got[q]]
  BY <1>3 DEF IInv, TypeOK
<1>8. offered' = offered
  BY <1>3
<1> HIDE DEF nobody
<1> QED
  BY <1>5, <1>6, <1>7, <1>8, LoseMaps

LEMMA PowerLossMaps ==
  ASSUME IInv, PowerLoss
  PROVE  Map!Next
<1>1. ASSUME NEW k \in Key
      PROVE  Readable(k)' \in {None, Readable(k)}
  <2>1. entry' = entry
    BY DEF PowerLoss
  <2>2. CASE entry[k] = 0
    BY <2>1, <2>2 DEF Readable
  <2>3. CASE entry[k] # 0
    <3>1. entry[k] \in FileId
      BY <2>3 DEF IInv, TypeOK
    <3>2. \/ files'[entry[k]].parts = files[entry[k]].parts
          \/ Len(files'[entry[k]].parts) # 2
      BY <3>1, PowerLossFiles
    <3> QED
      BY <2>1, <3>2 DEF Readable, Whole
  <2> QED
    BY <2>2, <2>3
<1>2. got' = [q \in Proc |-> IF q \in Proc THEN None ELSE got[q]] /\ UNCHANGED offered
  BY DEF PowerLoss
<1> QED
  BY <1>1, <1>2, LoseMaps

LEMMA DieMaps ==
  ASSUME IInv, NEW p \in Proc, Die(p)
  PROVE  Map!Next
<1>1. \A k \in Key : Readable(k)' = Readable(k)
  BY DEF Die, Readable, Whole
<1>2. got' = [q \in Proc |-> IF q \in {p} THEN None ELSE got[q]] /\ UNCHANGED offered
  BY DEF Die, IInv, TypeOK
<1> QED
  BY <1>1, <1>2, LoseMaps

LEMMA LoadMissMaps ==
  ASSUME IInv, NEW p \in Proc, NEW k \in Key, LoadMiss(p, k)
  PROVE  Map!Next
<1>1. [j \in Key |-> Readable(j)]' = [j \in Key |-> Readable(j)]
  BY SameReadable DEF LoadMiss
<1>2. Map!Miss(p)
  BY <1>1 DEF Map!Miss, LoadMiss
<1> QED
  BY <1>2 DEF Map!Next

(* The steps that the map does not see.                                    *)
LEMMA HiddenMaps ==
  ASSUME IInv,
         \/ Tick
         \/ UNCHANGED vars
         \/ \E p \in Proc :
              \/ \E k \in Key : Lstat(p, k)
              \/ StoreGivesUp(p) \/ CreateTemp(p) \/ WritePart(p) \/ WriteFails(p)
              \/ RenameFails(p) \/ Discard(p) \/ DiscardFails(p)
              \/ StartClear(p) \/ List(p) \/ Check(p) \/ RemoveFails(p) \/ EndRemoval(p)
  PROVE  UNCHANGED <<[k \in Key |-> Readable(k)], offered, got>>
<1>1. entry' = entry /\ offered' = offered /\ got' = got
  BY DEF Tick, vars, Lstat, StoreGivesUp, CreateTemp, WritePart, WriteFails, RenameFails,
         Discard, DiscardFails, StartClear, List, Check, RemoveFails, EndRemoval
<1>2. ASSUME NEW k \in Key, entry[k] # 0
      PROVE  files'[entry[k]] = files[entry[k]]
  <2>1. entry[k] \in FileId
    BY <1>2 DEF IInv, TypeOK
  <2>2. ASSUME NEW p \in Proc, CreateTemp(p)
        PROVE  files'[entry[k]] = files[entry[k]]
    <3> DEFINE new == [key |-> proc[p].key, parts |-> << >>, mtime |-> clock]
    <3>1. new \in File
      BY <2>2, EmptySeq DEF IInv, TypeOK, Tasks, Task, CreateTemp, At, File
    <3>2. files' = Append(files, new)
      BY <2>2 DEF CreateTemp
    <3> HIDE DEF new
    <3> QED
      BY <2>1, <3>1, <3>2, FileTyped, AppendProperties DEF FileId, IInv
  <2>3. ASSUME NEW p \in Proc, WritePart(p)
        PROVE  files'[entry[k]] = files[entry[k]]
    <3>0. PICK f : f = proc[p].file
      OBVIOUS
    <3> DEFINE e == [files[f] EXCEPT !.parts = Append(files[f].parts, proc[p].value), !.mtime = clock]
    <3>1. entry[k] # f
      BY <2>3, <3>0 DEF IInv, Tasks, Task, WritePart, At
    <3>2. files' = [files EXCEPT ![f] = e]
      BY <2>3, <3>0 DEF WritePart
    <3> HIDE DEF e
    <3>3. entry[k] \in DOMAIN files
      BY <2>1, FileTyped DEF IInv, FileId
    <3> QED
      BY <3>1, <3>2, <3>3
  <2> QED
    BY <2>2, <2>3 DEF Tick, vars, Lstat, StoreGivesUp, WriteFails, RenameFails,
         Discard, DiscardFails, StartClear, List, Check, RemoveFails, EndRemoval
<1> QED
  BY <1>1, <1>2, SameReadable

(* Whatever the processes do, and whenever they or the machine die, the    *)
(* directory is a map from keys to whole results that may forget.          *)
THEOREM DirectoryIsMap == Spec => Implements
<1>1. Init => Map!Init
  BY DEF Init, Map!Init, Readable
<1>2. IInv /\ [Next]_vars => [Map!Next]_(Map!vars)
  <2> SUFFICES ASSUME IInv, [Next]_vars
               PROVE  Map!Next \/ UNCHANGED <<[k \in Key |-> Readable(k)], offered, got>>
    BY DEF Map!vars
  <2>1. ASSUME NEW p \in Proc, NEW k \in Key, LoadMiss(p, k)
        PROVE  Map!Next
    BY <2>1, LoadMissMaps
  <2>2. ASSUME NEW p \in Proc, NEW k \in Key, NEW v \in Value, StartStore(p, k, v)
        PROVE  Map!Next
    BY <2>2, StartStoreMaps
  <2>3. ASSUME NEW p \in Proc, Read(p) \/ Rename(p) \/ Remove(p) \/ Die(p)
        PROVE  Map!Next
    BY <2>3, ReadMaps, RenameMaps, RemoveMaps, DieMaps
  <2>4. CASE PowerLoss
    BY <2>4, PowerLossMaps
  <2> QED
    BY <2>1, <2>2, <2>3, <2>4, HiddenMaps DEF Next
<1>3. Init => IInv
  BY InitIInv
<1>4. IInv /\ [Next]_vars => IInv'
  BY StepIInv
<1> QED
  BY <1>1, <1>2, <1>3, <1>4, PTL DEF Spec, Implements, Map!Spec

-----------------------------------------------------------------------------
(* What sweep and Clear leave. *)

(* No file is an entry and a temporary file at once.                       *)
EntriesApart == \A k \in Key : entry[k] \notin temps

(* A process that removes: the names it listed stand for files that were   *)
(* made, an entry for one that is no temporary file any more, so that a    *)
(* name which is gone never stands for its file again.                     *)
Removing(x) ==
  /\ x.at = "idle" => x.names = {}
  /\ x.now <= clock
  /\ \A n \in x.names : n.file \in FileId /\ (n.temp \/ n.file \notin temps)
  /\ x.doomed # {} => x.at = "remove"
  /\ \A n, m \in x.doomed : n = m
  /\ \A n \in x.names \ (x.left \cup x.doomed) :
       (x.clearing \/ Stale(n.file, x.now)) => Linked(n) # n.file

RemovalRight == EntriesApart /\ \A p \in Proc : Removing(proc[p])

(* What every step but a loss of power does to a name that was listed: its *)
(* file stays made, and does not get the name back; a file that was not    *)
(* stale does not become so for a time that is past.                       *)
NamesOnlyGo ==
  /\ EntriesApart'
  /\ clock <= clock'
  /\ \A n \in Name : n.file \in FileId /\ (n.temp \/ n.file \notin temps) =>
       /\ n.file \in FileId' /\ (n.temp \/ n.file \notin temps')
       /\ Linked(n)' = n.file => Linked(n) = n.file
       /\ \A now \in Nat : now <= clock /\ Stale(n.file, now)' => Stale(n.file, now)

LEMMA SameNames ==
  ASSUME IInv, EntriesApart, UNCHANGED <<files, temps, entry, clock>>
  PROVE  NamesOnlyGo
BY DEF NamesOnlyGo, IInv, TypeOK, EntriesApart, FileId, Linked, Stale

(* Only the names change, and a new entry was a temporary file.            *)
LEMMA LesserNames ==
  ASSUME IInv, EntriesApart, UNCHANGED <<files, clock>>, temps' \subseteq temps,
         \A k \in Key : entry'[k] \in {0, entry[k]} \/ entry'[k] \in temps \ temps'
  PROVE  NamesOnlyGo
<1>1. FileId' = FileId /\ clock' = clock /\ clock \in Nat /\ 0 \notin FileId
  BY FileTyped DEF FileId, IInv, TypeOK
<1>2. EntriesApart'
  BY <1>1 DEF EntriesApart, IInv, TypeOK
<1>3. ASSUME NEW n \in Name, n.file \in FileId, n.temp \/ n.file \notin temps,
             Linked(n)' = n.file
      PROVE  Linked(n) = n.file
  <2>1. CASE n.temp
    BY <1>1, <1>3, <2>1 DEF Linked
  <2>2. CASE ~n.temp
    BY <1>1, <1>3, <2>2 DEF Linked, Name
  <2> QED
    BY <2>1, <2>2
<1>4. \A n \in Name, now \in Nat : Stale(n.file, now)' => Stale(n.file, now)
  BY DEF Stale
<1> QED
  BY <1>1, <1>2, <1>3, <1>4 DEF NamesOnlyGo

LEMMA CreateTempNames ==
  ASSUME IInv, EntriesApart, NEW p \in Proc, CreateTemp(p)
  PROVE  NamesOnlyGo
<1> DEFINE new == [key |-> proc[p].key, parts |-> << >>, mtime |-> clock]
           f == Len(files) + 1
<1>1. /\ files' = Append(files, new) /\ temps' = temps \cup {f}
      /\ UNCHANGED <<entry, clock>> /\ clock \in Nat
  BY DEF CreateTemp, IInv, TypeOK
<1>2. new \in File
  BY EmptySeq DEF IInv, TypeOK, Tasks, Task, CreateTemp, At, File
<1> HIDE DEF new
<1>3. Len(files) \in Nat /\ f \notin FileId /\ f # 0
  BY FileTyped DEF IInv, FileId
<1>4. FileId \subseteq FileId' /\ \A g \in FileId : files'[g] = files[g]
  BY <1>1, <1>2, FileTyped, AppendProperties DEF FileId, IInv
<1> HIDE DEF f
<1>5. EntriesApart'
  BY <1>1, <1>3 DEF EntriesApart, IInv, TypeOK
<1>6. ASSUME NEW n \in Name, n.file \in FileId, n.temp \/ n.file \notin temps
      PROVE  /\ n.file \in FileId' /\ (n.temp \/ n.file \notin temps')
             /\ Linked(n)' = n.file => Linked(n) = n.file
             /\ \A now \in Nat : Stale(n.file, now)' => Stale(n.file, now)
  <2>1. n.file # f
    BY <1>3, <1>6
  <2>2. Linked(n)' = n.file => Linked(n) = n.file
    BY <1>1, <2>1 DEF Linked
  <2>3. \A now \in Nat : Stale(n.file, now)' => Stale(n.file, now)
    BY <1>4, <1>6 DEF Stale
  <2> QED
    BY <1>1, <1>4, <1>6, <2>1, <2>2, <2>3
<1> QED
  BY <1>1, <1>5, <1>6 DEF NamesOnlyGo

(* A file that is written to is not stale.                                 *)
LEMMA WritePartNames ==
  ASSUME IInv, EntriesApart, NEW p \in Proc, WritePart(p)
  PROVE  NamesOnlyGo
<1>0. PICK f : f = proc[p].file
  OBVIOUS
<1> DEFINE e == [files[f] EXCEPT !.parts = Append(files[f].parts, proc[p].value), !.mtime = clock]
<1>1. files' = [files EXCEPT ![f] = e] /\ UNCHANGED <<temps, entry, clock>> /\ clock \in Nat
  BY <1>0 DEF WritePart, IInv, TypeOK
<1>2. f \in FileId /\ files[f] \in File
  BY <1>0, FileTyped DEF IInv, Tasks, Task, WritePart, At
<1>3. e.mtime = clock
  BY <1>2 DEF File
<1> HIDE DEF e
<1>4. DOMAIN files = FileId /\ DOMAIN files' = FileId
  BY <1>1, FileTyped DEF IInv, FileId
<1>5. FileId' = FileId
  BY IInv, <1>1, <1>4, FileTyped, WritePartIInv DEF FileId, IInv
<1>6. EntriesApart'
  BY <1>1 DEF EntriesApart
<1>7. ASSUME NEW n \in Name, n.file \in FileId, NEW now \in Nat, now <= clock, Stale(n.file, now)'
      PROVE  Stale(n.file, now)
  <2>1. CASE n.file = f
    <3>1. files'[f].mtime = clock
      BY <1>1, <1>2, <1>3, <1>4
    <3> QED
      BY <1>1, <1>7, <2>1, <3>1, CacheAssumption DEF Stale
  <2>2. CASE n.file # f
    <3>1. files'[n.file] = files[n.file]
      BY <1>1, <1>4, <1>7, <2>2
    <3> QED
      BY <1>7, <3>1 DEF Stale
  <2> QED
    BY <2>1, <2>2
<1>8. \A n : Linked(n)' = Linked(n)
  BY <1>1 DEF Linked
<1> QED
  BY <1>1, <1>5, <1>6, <1>7, <1>8 DEF NamesOnlyGo

(* The steps that are not a process ending or the power going.             *)
LEMMA RemoveNames ==
  ASSUME IInv, EntriesApart, NEW p \in Proc, Remove(p)
  PROVE  NamesOnlyGo
<1>1. PICK n \in proc[p].doomed : Unlink(n)
  BY DEF Remove
<1>2. n.key \in Key /\ UNCHANGED <<files, clock>>
  BY DEF IInv, TypeOK, Process, Name, Remove
<1>3. temps' \subseteq temps /\ \A k \in Key : entry'[k] \in {0, entry[k]}
  BY <1>1, <1>2 DEF Unlink, IInv, TypeOK
<1> QED
  BY <1>2, <1>3, LesserNames

LEMMA RenameNames ==
  ASSUME IInv, EntriesApart, NEW p \in Proc, Rename(p)
  PROVE  NamesOnlyGo
<1>1. UNCHANGED <<files, clock>> /\ temps' \subseteq temps
  BY DEF Rename
<1>2. proc[p].file \in temps \ temps'
  BY DEF Rename
<1>3. \A k \in Key : entry'[k] \in {0, entry[k]} \/ entry'[k] \in temps \ temps'
  BY <1>2 DEF Rename, IInv, TypeOK
<1> QED
  BY <1>1, <1>3, LesserNames

LEMMA DiscardNames ==
  ASSUME IInv, EntriesApart, NEW p \in Proc, Discard(p)
  PROVE  NamesOnlyGo
<1>1. UNCHANGED <<files, clock, entry>> /\ temps' \subseteq temps
  BY DEF Discard
<1> QED
  BY <1>1, LesserNames

LEMMA TickNames ==
  ASSUME IInv, EntriesApart, Tick
  PROVE  NamesOnlyGo
BY DEF NamesOnlyGo, Tick, IInv, TypeOK, EntriesApart, FileId, Linked, Stale

LEMMA ClockTyped ==
  ASSUME IInv, [Next]_vars
  PROVE  clock \in Nat /\ clock' \in Nat
BY StepIInv DEF IInv, TypeOK

(* What a process has removed stays removed while others go on.            *)
LEMMA RemovingStays ==
  ASSUME IInv, [Next]_vars, NamesOnlyGo, NEW x \in Process, Removing(x)
  PROVE  Removing(x)'
<1>1. x.now \in Nat /\ x.names \subseteq Name /\ x.now <= clock
  BY DEF Process, Removing
<1>2. ASSUME NEW n \in x.names
      PROVE  /\ n \in Name /\ n.file \in FileId' /\ (n.temp \/ n.file \notin temps')
             /\ Linked(n)' = n.file => Linked(n) = n.file
             /\ Stale(n.file, x.now)' => Stale(n.file, x.now)
  BY <1>1, <1>2 DEF NamesOnlyGo, Removing
<1>3. x.now <= clock'
  BY <1>1, ClockTyped DEF NamesOnlyGo
<1> QED
  BY <1>2, <1>3 DEF Removing

(* A step of p that leaves its names as the step says.                     *)
LEMMA RemovingStep ==
  ASSUME IInv, RemovalRight, [Next]_vars, NamesOnlyGo, NEW p \in Proc, NEW x,
         proc' = [proc EXCEPT ![p] = x], Removing(x)'
  PROVE  RemovalRight'
<1>1. ASSUME NEW q \in Proc, NEW y, y = proc'[q]
      PROVE  Removing(y)'
  <2>1. CASE q = p
    BY <1>1, <2>1 DEF IInv, TypeOK
  <2>2. CASE q # p
    <3>1. y = proc[q] /\ y \in Process /\ Removing(y)
      BY <1>1, <2>2 DEF IInv, TypeOK, RemovalRight
    <3> QED
      BY <3>1, RemovingStays
  <2> QED
    BY <2>1, <2>2
<1>2. \A q \in Proc : Removing(proc[q])'
  BY <1>1 DEF Removing
<1> QED
  BY <1>2 DEF RemovalRight, NamesOnlyGo

(* The steps of a process, one kind after the other. *)

LEMMA KeepRemoving ==
  ASSUME IInv, RemovalRight, [Next]_vars, NamesOnlyGo, NEW p \in Proc, NEW x,
         proc' = [proc EXCEPT ![p] = x], proc[p].at # "remove", x.at # "idle",
         \/ /\ x.names = proc[p].names /\ x.left = proc[p].left /\ x.doomed = proc[p].doomed
            /\ x.now = proc[p].now /\ x.clearing = proc[p].clearing
         \/ proc[p].at = "idle" /\ x.names = {} /\ x.doomed = proc[p].doomed /\ x.now = proc[p].now
  PROVE  RemovalRight'
<1> DEFINE y == proc[p]
<1>1. y \in Process /\ Removing(y)
  BY DEF IInv, TypeOK, RemovalRight
<1>2. PICK z : z = y /\ Removing(z)'
  BY <1>1, RemovingStays
<1>3. z.doomed = {} /\ z.now <= clock'
  BY <1>1, <1>2 DEF Removing
<1>4. Removing(x)'
  <2>1. CASE x.names = {}
    BY <1>2, <1>3, <2>1 DEF Removing
  <2>2. CASE x.names # {}
    BY <1>2, <1>3, <2>2 DEF Removing
  <2> QED
    BY <2>1, <2>2
<1> QED
  BY <1>4, RemovingStep

LEMMA FreshRemoving ==
  ASSUME IInv, RemovalRight, [Next]_vars, NamesOnlyGo, NEW p \in Proc,
         proc' = [proc EXCEPT ![p] = Fresh]
  PROVE  RemovalRight'
<1>1. Removing(Fresh)'
  BY ClockTyped DEF Removing, Fresh
<1>2. PICK x : x = Fresh
  OBVIOUS
<1> QED
  BY <1>1, <1>2, RemovingStep

LEMMA ListRemoving ==
  ASSUME IInv, RemovalRight, [Next]_vars, NEW p \in Proc, List(p)
  PROVE  RemovalRight'
<1> DEFINE y == proc[p]
<1>1. UNCHANGED <<files, temps, entry, clock>>
  BY DEF List
<1>2. NamesOnlyGo
  BY <1>1, SameNames DEF RemovalRight
<1>3. PICK x : x = [y EXCEPT !.at = "check", !.now = clock, !.names = Listing, !.left = Listing]
  OBVIOUS
<1>4. y \in Process /\ Removing(y) /\ y.at = "list"
  BY DEF IInv, TypeOK, RemovalRight, List, At
<1>5. \A n \in Listing : n.file \in FileId /\ (n.temp \/ n.file \notin temps)
  BY DEF Listing, IInv, TypeOK, RemovalRight, EntriesApart
<1>6. /\ x.at = "check" /\ x.now = clock /\ x.names = Listing /\ x.left = Listing
      /\ x.doomed = {}
  BY <1>3, <1>4 DEF Process, Removing
<1>7. Removing(x)'
  BY <1>1, <1>5, <1>6, ClockTyped DEF Removing, FileId
<1> QED
  BY <1>2, <1>3, <1>7, RemovingStep DEF List

LEMMA CheckRemoving ==
  ASSUME IInv, RemovalRight, [Next]_vars, NEW p \in Proc, Check(p)
  PROVE  RemovalRight'
<1> DEFINE y == proc[p]
<1>1. UNCHANGED <<files, temps, entry, clock>>
  BY DEF Check
<1>2. NamesOnlyGo
  BY <1>1, SameNames DEF RemovalRight
<1>3. PICK n \in y.left :
        proc' = IF MustGo(p, n)
                THEN [proc EXCEPT ![p] = [y EXCEPT !.at = "remove", !.left = y.left \ {n}, !.doomed = {n}]]
                ELSE [proc EXCEPT ![p] = [y EXCEPT !.left = y.left \ {n}]]
  BY DEF Check
<1>4. y \in Process /\ Removing(y) /\ y.at = "check" /\ y.doomed = {}
  BY DEF IInv, TypeOK, RemovalRight, Check, At, Removing
<1>5. CASE MustGo(p, n)
  <2>1. PICK x : x = [y EXCEPT !.at = "remove", !.left = y.left \ {n}, !.doomed = {n}]
    OBVIOUS
  <2>2. /\ x.at = "remove" /\ x.left = y.left \ {n} /\ x.doomed = {n}
        /\ x.names = y.names /\ x.now = y.now /\ x.clearing = y.clearing
    BY <1>4, <2>1 DEF Process
  <2>3. Removing(x)
    BY <1>4, <2>2 DEF Removing
  <2>4. Removing(x)'
    BY <1>1, <2>3 DEF Removing, FileId, Linked, Stale
  <2> QED
    BY <1>2, <1>3, <1>5, <2>1, <2>4, RemovingStep
<1>6. CASE ~MustGo(p, n)
  <2>1. PICK x : x = [y EXCEPT !.left = y.left \ {n}]
    OBVIOUS
  <2>2. /\ x.at = "check" /\ x.left = y.left \ {n} /\ x.doomed = {}
        /\ x.names = y.names /\ x.now = y.now /\ x.clearing = y.clearing
    BY <1>4, <2>1 DEF Process
  <2>3. n \in y.names => ~y.clearing /\ (Stale(n.file, y.now) => Linked(n) # n.file)
    <3>1. n \in y.names => n.file # 0
      BY <1>4, FileTyped DEF Removing, FileId, IInv
    <3> QED
      BY <1>6, <3>1 DEF MustGo
  <2>4. Removing(x)
    BY <1>4, <2>2, <2>3 DEF Removing
  <2>5. Removing(x)'
    BY <1>1, <2>4 DEF Removing, FileId, Linked, Stale
  <2> QED
    BY <1>2, <1>3, <1>6, <2>1, <2>5, RemovingStep
<1> QED
  BY <1>5, <1>6

LEMMA RemoveRemoving ==
  ASSUME IInv, RemovalRight, [Next]_vars, NEW p \in Proc, Remove(p)
  PROVE  RemovalRight'
<1> DEFINE y == proc[p]
<1>1. NamesOnlyGo
  BY RemoveNames DEF RemovalRight
<1>2. PICK n \in y.doomed : Unlink(n)
  BY DEF Remove
<1>3. y \in Process /\ Removing(y) /\ n \in Name
  BY DEF IInv, TypeOK, RemovalRight, Process
<1>4. \A m \in y.doomed : m = n
  BY <1>3 DEF Removing
<1>5. n \in y.names => Linked(n)' # n.file
  <2>1. n \in y.names => n.file # 0
    BY <1>3, FileTyped DEF Removing, FileId, IInv
  <2>2. CASE n.temp
    BY <1>2, <2>1, <2>2 DEF Unlink, Linked
  <2>3. CASE ~n.temp
    BY <1>2, <1>3, <2>1, <2>3 DEF Unlink, Linked, Name, IInv, TypeOK
  <2> QED
    BY <2>2, <2>3
<1>6. PICK x : x = [y EXCEPT !.at = "check", !.doomed = {}]
  OBVIOUS
<1>7. /\ x.at = "check" /\ x.left = y.left /\ x.doomed = {}
      /\ x.names = y.names /\ x.now = y.now /\ x.clearing = y.clearing
  BY <1>3, <1>6 DEF Process
<1>8. PICK z : z = y /\ Removing(z)'
  BY <1>1, <1>3, RemovingStays
<1>9. Removing(x)'
  BY <1>4, <1>5, <1>7, <1>8 DEF Removing
<1> QED
  BY <1>1, <1>6, <1>9, RemovingStep DEF Remove

LEMMA RemoveFailsRemoving ==
  ASSUME IInv, RemovalRight, [Next]_vars, NEW p \in Proc, RemoveFails(p)
  PROVE  RemovalRight'
<1> DEFINE y == proc[p]
<1>1. UNCHANGED <<files, temps, entry, clock>>
  BY DEF RemoveFails
<1>2. NamesOnlyGo
  BY <1>1, SameNames DEF RemovalRight
<1>3. CASE y.clearing
  BY <1>2, <1>3, FreshRemoving DEF RemoveFails, Finished
<1>4. CASE ~y.clearing
  <2>1. PICK x : x = [y EXCEPT !.at = "check", !.doomed = {}, !.names = y.names \ y.doomed]
    OBVIOUS
  <2>2. y \in Process /\ Removing(y)
    BY DEF IInv, TypeOK, RemovalRight
  <2>3. /\ x.at = "check" /\ x.left = y.left /\ x.doomed = {}
        /\ x.names = y.names \ y.doomed /\ x.now = y.now /\ x.clearing = y.clearing
    BY <2>1, <2>2 DEF Process
  <2>4. Removing(x)
    BY <2>2, <2>3 DEF Removing
  <2>5. Removing(x)'
    BY <1>1, <2>4 DEF Removing, FileId, Linked, Stale
  <2>6. proc' = [proc EXCEPT ![p] = x]
    BY <1>4, <2>1 DEF RemoveFails
  <2> QED
    BY <1>2, <2>5, <2>6, RemovingStep
<1> QED
  BY <1>3, <1>4

(* The steps that write, and the first step of each operation. *)
LEMMA OtherRemoving ==
  ASSUME IInv, RemovalRight, [Next]_vars, NEW p \in Proc,
         \/ \E k \in Key : Lstat(p, k)
         \/ \E k \in Key, v \in Value : StartStore(p, k, v)
         \/ CreateTemp(p) \/ WritePart(p) \/ WriteFails(p)
         \/ Rename(p) \/ RenameFails(p) \/ Discard(p) \/ DiscardFails(p)
         \/ StartClear(p)
  PROVE  RemovalRight'
<1> DEFINE y == proc[p]
<1>1. NamesOnlyGo
  <2>1. CASE CreateTemp(p) \/ WritePart(p) \/ Rename(p) \/ Discard(p)
    BY <2>1, CreateTempNames, WritePartNames, RenameNames, DiscardNames DEF RemovalRight
  <2>2. CASE UNCHANGED <<files, temps, entry, clock>>
    BY <2>2, SameNames DEF RemovalRight
  <2> QED
    BY <2>1, <2>2 DEF Lstat, StartStore, WriteFails, RenameFails, DiscardFails, StartClear
<1>2. y \in Process /\ Removing(y)
  BY DEF IInv, TypeOK, RemovalRight
<1>3. ASSUME NEW k \in Key, Lstat(p, k)
      PROVE  RemovalRight'
  <2>1. PICK x : x = [y EXCEPT !.at = "read", !.key = k]
    OBVIOUS
  <2>2. /\ x.at = "read" /\ x.left = y.left /\ x.doomed = y.doomed
        /\ x.names = y.names /\ x.now = y.now /\ x.clearing = y.clearing
    BY <1>2, <2>1 DEF Process
  <2> QED
    BY <1>1, <1>3, <2>1, <2>2, KeepRemoving DEF Lstat, At
<1>4. ASSUME NEW k \in Key, NEW v \in Value, StartStore(p, k, v)
      PROVE  RemovalRight'
  <2>1. PICK x : x = [y EXCEPT !.at = "create", !.key = k, !.value = v]
    OBVIOUS
  <2>2. /\ x.at = "create" /\ x.left = y.left /\ x.doomed = y.doomed
        /\ x.names = y.names /\ x.now = y.now /\ x.clearing = y.clearing
    BY <1>2, <2>1 DEF Process
  <2> QED
    BY <1>1, <1>4, <2>1, <2>2, KeepRemoving DEF StartStore, At
<1>5. CASE CreateTemp(p)
  <2>1. PICK x : x = [y EXCEPT !.at = "write", !.file = Len(files) + 1]
    OBVIOUS
  <2>2. /\ x.at = "write" /\ x.left = y.left /\ x.doomed = y.doomed
        /\ x.names = y.names /\ x.now = y.now /\ x.clearing = y.clearing
    BY <1>2, <2>1 DEF Process
  <2> QED
    BY <1>1, <1>5, <2>1, <2>2, KeepRemoving DEF CreateTemp, At
<1>6. ASSUME NEW step \in {"write", "rename", "discard", "list"}, Goto(p, step), y.at # "remove"
      PROVE  RemovalRight'
  <2>1. PICK x : x = [y EXCEPT !.at = step]
    OBVIOUS
  <2>2. /\ x.at = step /\ x.left = y.left /\ x.doomed = y.doomed
        /\ x.names = y.names /\ x.now = y.now /\ x.clearing = y.clearing
    BY <1>2, <2>1 DEF Process
  <2> QED
    BY <1>1, <1>6, <2>1, <2>2, KeepRemoving DEF Goto
<1>7. CASE WritePart(p) \/ WriteFails(p) \/ Rename(p) \/ RenameFails(p) \/ Discard(p) \/ DiscardFails(p)
  BY <1>6, <1>7 DEF WritePart, WriteFails, Rename, RenameFails, Discard, DiscardFails, At
<1>8. CASE StartClear(p)
  <2>1. PICK x : x = [y EXCEPT !.at = "list", !.clearing = TRUE]
    OBVIOUS
  <2>2. /\ x.at = "list" /\ x.left = y.left /\ x.doomed = y.doomed
        /\ x.names = y.names /\ x.now = y.now
    BY <1>2, <2>1 DEF Process
  <2>3. y.at = "idle" /\ y.names = {}
    BY <1>2, <1>8 DEF StartClear, At, Removing
  <2> QED
    BY <1>1, <1>8, <2>1, <2>2, <2>3, KeepRemoving DEF StartClear
<1> QED
  BY <1>3, <1>4, <1>5, <1>7, <1>8

LEMMA StepRemovalRight ==
  ASSUME IInv, RemovalRight, [Next]_vars
  PROVE  RemovalRight'
<1>1. ASSUME NEW p \in Proc,
             \/ \E k \in Key : Lstat(p, k)
             \/ \E k \in Key, v \in Value : StartStore(p, k, v)
             \/ CreateTemp(p) \/ WritePart(p) \/ WriteFails(p)
             \/ Rename(p) \/ RenameFails(p) \/ Discard(p) \/ DiscardFails(p)
             \/ StartClear(p)
      PROVE  RemovalRight'
  BY <1>1, OtherRemoving
<1>2. ASSUME NEW p \in Proc, List(p) \/ Check(p) \/ Remove(p) \/ RemoveFails(p)
      PROVE  RemovalRight'
  BY <1>2, ListRemoving, CheckRemoving, RemoveRemoving, RemoveFailsRemoving
<1>3. ASSUME NEW p \in Proc, Read(p) \/ StoreGivesUp(p) \/ EndRemoval(p) \/ Die(p)
      PROVE  RemovalRight'
  <2>1. UNCHANGED <<files, temps, entry, clock>> /\ Finished(p)
    BY <1>3 DEF Read, StoreGivesUp, EndRemoval, Die
  <2> QED
    BY <2>1, SameNames, FreshRemoving DEF RemovalRight, Finished
<1>4. CASE (\E p \in Proc, k \in Key : LoadMiss(p, k)) \/ UNCHANGED vars
  <2>1. UNCHANGED <<files, temps, entry, clock, proc>>
    BY <1>4 DEF LoadMiss, vars
  <2> QED
    BY <2>1 DEF RemovalRight, EntriesApart, Removing, FileId, Linked, Stale
<1>5. CASE Tick
  <2>1. proc' = proc /\ NamesOnlyGo
    BY <1>5, TickNames DEF Tick, RemovalRight
  <2>2. ASSUME NEW p \in Proc, NEW y, y = proc'[p]
        PROVE  Removing(y)'
    BY <2>1, <2>2, RemovingStays DEF RemovalRight, IInv, TypeOK
  <2>3. \A p \in Proc : Removing(proc[p])'
    BY <2>2 DEF Removing
  <2> QED
    BY <2>1, <2>3 DEF RemovalRight, NamesOnlyGo
<1>6. CASE PowerLoss
  <2>1. proc' = [p \in Proc |-> Fresh] /\ UNCHANGED <<temps, entry, clock>>
    BY <1>6 DEF PowerLoss
  <2>2. \A p \in Proc : Removing(proc[p])'
    BY <2>1, ClockTyped DEF Removing, Fresh
  <2> QED
    BY <2>1, <2>2 DEF RemovalRight, EntriesApart
<1> QED
  BY <1>1, <1>2, <1>3, <1>4, <1>5, <1>6 DEF Next

(* A temporary file has its process, or is an orphan.                      *)
Holds(x, f) == x.file = f /\ x.at \in {"write", "rename", "discard"}

LEMMA HeldStep ==
  ASSUME IInv, NoTempStays, NEW p \in Proc, NEW x,
         proc' = [proc EXCEPT ![p] = x], orphans \subseteq orphans',
         \A f \in temps' \ orphans' : (f \in temps /\ ~Holds(proc[p], f)) \/ Holds(x, f)
  PROVE  NoTempStays'
<1>1. \A q \in Proc : proc'[q] = IF q = p THEN x ELSE proc[q]
  BY DEF IInv, TypeOK
<1>2. \A f \in temps' \ orphans' : \E q \in Proc : Holds(proc'[q], f)
  BY <1>1 DEF NoTempStays, Holds
<1> QED
  BY <1>2 DEF NoTempStays, Holds

LEMMA StepNoTempStays ==
  ASSUME IInv, NoTempStays, [Next]_vars
  PROVE  NoTempStays'
<1>0. proc \in [Proc -> Process] /\ orphans \subseteq FileId
  BY DEF IInv, TypeOK
<1>1. ASSUME NEW p \in Proc,
             \/ \E k \in Key : LoadMiss(p, k) \/ Lstat(p, k)
             \/ \E k \in Key, v \in Value : StartStore(p, k, v)
             \/ Read(p) \/ StoreGivesUp(p) \/ StartClear(p)
             \/ List(p) \/ Check(p) \/ Remove(p) \/ RemoveFails(p) \/ EndRemoval(p)
      PROVE  NoTempStays'
  <2>1. \E x : proc' = [proc EXCEPT ![p] = x]
    <3>1. CASE \E k \in Key : LoadMiss(p, k)
      <4>1. proc' = [proc EXCEPT ![p] = proc[p]]
        BY <1>0, <3>1 DEF LoadMiss
      <4> QED
        BY <4>1
    <3>2. CASE Check(p)
      <4>1. PICK n : proc' = IF MustGo(p, n)
               THEN [proc EXCEPT ![p].at = "remove", ![p].left = @ \ {n}, ![p].doomed = {n}]
               ELSE [proc EXCEPT ![p].left = @ \ {n}]
        BY <3>2 DEF Check
      <4> QED
        BY <4>1
    <3> QED
      BY <1>1, <3>1, <3>2 DEF Lstat, StartStore, Read, StoreGivesUp, StartClear, List, Remove,
                              RemoveFails, EndRemoval, Finished
  <2>2. proc[p].at \notin {"write", "rename", "discard"}
    BY <1>1 DEF LoadMiss, Lstat, StartStore, Read, StoreGivesUp, StartClear, List, Check, Remove,
                RemoveFails, EndRemoval, At
  <2>3. orphans' = orphans /\ temps' \subseteq temps
    BY <1>1 DEF LoadMiss, Lstat, StartStore, Read, StoreGivesUp, StartClear, List, Check, Remove,
                RemoveFails, EndRemoval, Unlink
  <2> QED
    BY <2>1, <2>2, <2>3, HeldStep DEF Holds
<1>2. ASSUME NEW p \in Proc, CreateTemp(p)
      PROVE  NoTempStays'
  <2>1. PICK x : x = [proc[p] EXCEPT !.at = "write", !.file = Len(files) + 1]
    OBVIOUS
  <2>2. x.at = "write" /\ x.file = Len(files) + 1
    BY <1>0, <2>1 DEF Process
  <2>3. orphans' = orphans /\ temps' = temps \cup {Len(files) + 1} /\ proc[p].at = "create"
    BY <1>2 DEF CreateTemp, At
  <2>4. \A f \in temps' \ orphans' : (f \in temps /\ ~Holds(proc[p], f)) \/ Holds(x, f)
    BY <2>2, <2>3 DEF Holds
  <2>5. proc' = [proc EXCEPT ![p] = x]
    BY <1>2, <2>1 DEF CreateTemp
  <2> QED
    BY <2>3, <2>4, <2>5, HeldStep
<1>3. ASSUME NEW p \in Proc, NEW step \in {"write", "rename", "discard"}, Goto(p, step),
             UNCHANGED <<temps, orphans>>, proc[p].at \in {"write", "rename", "discard"}
      PROVE  NoTempStays'
  <2>1. PICK x : x = [proc[p] EXCEPT !.at = step]
    OBVIOUS
  <2>2. x.at = step /\ x.file = proc[p].file
    BY <1>0, <2>1 DEF Process
  <2>3. \A f \in temps' \ orphans' : (f \in temps /\ ~Holds(proc[p], f)) \/ Holds(x, f)
    BY <1>3, <2>2 DEF Holds
  <2>4. proc' = [proc EXCEPT ![p] = x]
    BY <1>3, <2>1 DEF Goto
  <2> QED
    BY <1>3, <2>3, <2>4, HeldStep
<1>4. ASSUME NEW p \in Proc, WritePart(p) \/ WriteFails(p) \/ RenameFails(p)
      PROVE  NoTempStays'
  BY <1>3, <1>4 DEF WritePart, WriteFails, RenameFails, At
<1>5. ASSUME NEW p \in Proc, Rename(p) \/ Discard(p) \/ DiscardFails(p)
      PROVE  NoTempStays'
  <2>1. \E x : proc' = [proc EXCEPT ![p] = x]
    BY <1>5 DEF Rename, Discard, DiscardFails, Goto
  <2>2. orphans \subseteq orphans' /\ temps' \subseteq temps
    BY <1>5 DEF Rename, Discard, DiscardFails
  <2>3. \A f \in temps' \ orphans' : proc[p].file # f
    BY <1>5 DEF Rename, Discard, DiscardFails, Owned
  <2> QED
    BY <2>1, <2>2, <2>3, HeldStep DEF Holds
<1>6. ASSUME NEW p \in Proc, Die(p)
      PROVE  NoTempStays'
  <2>1. /\ proc' = [proc EXCEPT ![p] = Fresh] /\ orphans' = orphans \cup Owned(p)
        /\ temps' = temps
    BY <1>6 DEF Die, Finished
  <2> QED
    BY <2>1, HeldStep DEF Holds, Owned
<1>7. CASE Tick \/ UNCHANGED vars
  BY <1>7 DEF Tick, vars, NoTempStays
<1>8. CASE PowerLoss
  <2>1. temps' = temps /\ orphans' = orphans \cup UNION {Owned(p) : p \in Proc}
    BY <1>8 DEF PowerLoss
  <2>2. temps' \ orphans' = {}
    BY <2>1 DEF NoTempStays, Owned
  <2> QED
    BY <2>2 DEF NoTempStays
<1> QED
  BY <1>1, <1>2, <1>4, <1>5, <1>6, <1>7, <1>8 DEF Next

(* Nothing that must go stays in the directory, however many processes     *)
(* store, sweep and clear at once, and whoever dies: a temporary file has  *)
(* a process that will rename or remove it, or one that died or failed to; *)
(* and what sweep and Clear have removed does not come back.               *)
THEOREM NothingStaysBehind == Spec => []NothingStays
<1>1. Init => IInv /\ RemovalRight /\ NoTempStays
  <2> SUFFICES ASSUME Init
               PROVE  IInv /\ RemovalRight /\ NoTempStays
    OBVIOUS
  <2>1. Removing(Fresh)
    BY DEF Init, Removing, Fresh
  <2>2. temps = {} /\ \A p \in Proc : proc[p] = Fresh
    BY DEF Init
  <2> QED
    BY <2>1, <2>2, InitIInv DEF RemovalRight, EntriesApart, NoTempStays
<1>2. IInv /\ RemovalRight /\ NoTempStays /\ [Next]_vars => (RemovalRight /\ NoTempStays)'
  BY StepRemovalRight, StepNoTempStays
<1>3. IInv /\ [Next]_vars => IInv'
  BY StepIInv
<1>4. RemovalRight /\ NoTempStays => NothingStays
  BY DEF RemovalRight, Removing, NothingStays, RemovedAll
<1> QED
  BY <1>1, <1>2, <1>3, <1>4, PTL DEF Spec
=============================================================================
