------------------------- MODULE PipelineFilesProofs -------------------------
(***************************************************************************)
(* What holds of PipelineFiles for every set of files, every repository    *)
(* and every number of documents, checked by TLAPS.                        *)
(***************************************************************************)
EXTENDS PipelineFiles, FiniteSetTheorems, SequenceTheorems, TLAPS

USE DEF Absent, NoDoc

Document == [file : File, pipeline : Nat, caller : Nat, optional : BOOLEAN,
             next : Nat \ {0}, includes : Seq(Nat)]

-----------------------------------------------------------------------------
(* Facts about one step. *)

LEMMA DocTyped ==
  ASSUME TypeOK
  PROVE  /\ Len(docs) \in Nat
         /\ docs \in Seq(Document)
         /\ \A d \in DocId :
              /\ d \in Nat \ {0}
              /\ docs[d] \in Document
              /\ docs[d].file \in File
              /\ docs[d].optional \in BOOLEAN
              /\ docs[d].next \in Nat \ {0}
              /\ docs[d].pipeline \in 0 .. d - 1
              /\ docs[d].caller \in 0 .. d - 1
              /\ PipelineOf(d) \in DocId
              /\ Refs(d) \in Seq(Reference)
              /\ Len(Refs(d)) \in Nat
              /\ DOMAIN Refs(d) = 1 .. Len(Refs(d))
<1>1. docs \in Seq(Document) /\ Len(docs) \in Nat
  BY DEF TypeOK, Document
<1>2. ASSUME NEW d \in DocId
      PROVE  /\ d \in Nat \ {0}
             /\ docs[d] \in Document
             /\ docs[d].pipeline \in 0 .. d - 1
             /\ docs[d].caller \in 0 .. d - 1
  <2>1. docs[d] \in Document
    BY <1>1, ElementOfSeq DEF DocId
  <2>2. docs[d].pipeline \in 0 .. d - 1 /\ docs[d].caller \in 0 .. d - 1
    BY DEF TypeOK
  <2> QED
    BY <1>1, <2>1, <2>2 DEF DocId
<1>3. ASSUME NEW d \in DocId
      PROVE  PipelineOf(d) \in DocId
  BY <1>1, <1>2 DEF DocId, PipelineOf
<1>4. ASSUME NEW d \in DocId
      PROVE  Refs(d) \in Seq(Reference)
  <2>1. docs[d].file \in File
    BY <1>2 DEF Document
  <2> QED
    BY <2>1 DEF TypeOK, Refs, Content
<1>5. ASSUME NEW d \in DocId
      PROVE  Len(Refs(d)) \in Nat /\ DOMAIN Refs(d) = 1 .. Len(Refs(d))
  BY <1>4, LenProperties
<1> QED
  BY <1>1, <1>2, <1>3, <1>4, <1>5 DEF Document

LEMMA CurrentTyped ==
  ASSUME TypeOK, Following
  PROVE  /\ current \in DocId
         /\ docs[current].next \in 1 .. Len(Refs(current))
<1>1. current \in DocId
  BY DocTyped DEF TypeOK, Following, DocId
<1> QED
  BY <1>1, DocTyped DEF Following

LEMMA RefTyped ==
  ASSUME TypeOK, Following
  PROVE  /\ Ref \in Reference
         /\ Ref.path \in File
         /\ Ref.included \in BOOLEAN
         /\ Ref.rules \in BOOLEAN
         /\ Ref.guess \in BOOLEAN
<1>1. Ref \in Reference
  BY CurrentTyped, DocTyped, ElementOfSeq DEF Ref
<1> QED
  BY <1>1 DEF Reference

(* The documents after follow has dealt with one reference of current.     *)
OneFurther(s) ==
  /\ s \in Seq(Document)
  /\ Len(s) = Len(docs)
  /\ \A d \in DocId :
       /\ s[d].file = docs[d].file
       /\ s[d].pipeline = docs[d].pipeline
       /\ s[d].caller = docs[d].caller
       /\ s[d].optional = docs[d].optional
       /\ s[d].next = IF d = current THEN docs[d].next + 1 ELSE docs[d].next

LEMMA DocumentUpdate ==
  ASSUME NEW x \in Document, NEW i \in Seq(Nat)
  PROVE  /\ [x EXCEPT !.next = x.next + 1] \in Document
         /\ [x EXCEPT !.next = x.next + 1, !.includes = i] \in Document
<1>1. x.next + 1 \in Nat \ {0}
  BY DEF Document
<1>2. x = [file |-> x.file, pipeline |-> x.pipeline, caller |-> x.caller,
           optional |-> x.optional, next |-> x.next, includes |-> x.includes]
  BY DEF Document
<1> QED
  BY <1>1, <1>2, Zenon DEF Document

LEMMA AdvanceIsOneFurther ==
  ASSUME TypeOK, Following
  PROVE  /\ OneFurther(Advanced)
         /\ \A k \in Nat : OneFurther(AdvancedWith(k))
<1> DEFINE old == docs[current]
<1>1. current \in DocId /\ old \in Document /\ docs \in Seq(Document)
  BY CurrentTyped, DocTyped
<1>2. ASSUME NEW e \in Document,
             e.file = old.file, e.pipeline = old.pipeline, e.caller = old.caller,
             e.optional = old.optional, e.next = old.next + 1
      PROVE  OneFurther([docs EXCEPT ![current] = e])
  <2>1. /\ [docs EXCEPT ![current] = e] \in Seq(Document)
        /\ Len([docs EXCEPT ![current] = e]) = Len(docs)
        /\ \A d \in DocId : [docs EXCEPT ![current] = e][d] = IF d = current THEN e ELSE docs[d]
    BY <1>1, <1>2, ExceptSeq DEF DocId
  <2> QED
    BY <2>1, <1>2 DEF OneFurther
<1>3. OneFurther(Advanced)
  <2> DEFINE e == [old EXCEPT !.next = old.next + 1]
  <2>1. /\ e \in Document
        /\ e.file = old.file /\ e.pipeline = old.pipeline /\ e.caller = old.caller
        /\ e.optional = old.optional /\ e.next = old.next + 1
    BY <1>1, old.includes \in Seq(Nat), DocumentUpdate DEF Document
  <2>2. Advanced = [docs EXCEPT ![current] = e]
    BY <1>1 DEF Advanced
  <2> HIDE DEF e
  <2> QED
    BY <1>2, <2>1, <2>2
<1>4. ASSUME NEW k \in Nat
      PROVE  OneFurther(AdvancedWith(k))
  <2> DEFINE more == Append(old.includes, k)
             e == [old EXCEPT !.next = old.next + 1, !.includes = more]
  <2>1. more \in Seq(Nat)
    BY <1>1, AppendProperties DEF Document
  <2> HIDE DEF more
  <2>2. /\ e \in Document
        /\ e.file = old.file /\ e.pipeline = old.pipeline /\ e.caller = old.caller
        /\ e.optional = old.optional /\ e.next = old.next + 1
    BY <1>1, <2>1, DocumentUpdate DEF Document
  <2>3. AdvancedWith(k) = [docs EXCEPT ![current] = e]
    BY <1>1 DEF AdvancedWith, more
  <2> HIDE DEF e
  <2> QED
    BY <1>2, <2>2, <2>3
<1> QED
  BY <1>3, <1>4

LEMMA MembersUpdate ==
  ASSUME NEW m \in Seq([File -> Int]), NEW p \in 1 .. Len(m), NEW f \in File, NEW v \in Int
  PROVE  LET m1 == [m EXCEPT ![p][f] = v]
         IN  /\ m1 \in Seq([File -> Int])
             /\ Len(m1) = Len(m)
             /\ \A q \in 1 .. Len(m), g \in File :
                  m1[q][g] = IF q = p /\ g = f THEN v ELSE m[q][g]
<1> DEFINE e == [m[p] EXCEPT ![f] = v]
<1>1. m[p] \in [File -> Int]
  BY ElementOfSeq
<1>2. e \in [File -> Int] /\ \A g \in File : e[g] = IF g = f THEN v ELSE m[p][g]
  BY <1>1
<1>3. [m EXCEPT ![p][f] = v] = [m EXCEPT ![p] = e]
  OBVIOUS
<1> HIDE DEF e
<1> QED
  BY <1>2, <1>3, ExceptSeq

(* The new document, and the others, after follow has entered a file.      *)
LEMMA EnterDocs ==
  ASSUME TypeOK, Enter
  PROVE  LET new == Len(docs) + 1
             p   == PipelineOf(current)
         IN  /\ docs' \in Seq(Document)
             /\ Len(docs') = new
             /\ \E s : /\ OneFurther(s)
                       /\ \A d \in DocId : docs'[d] = s[d]
             /\ docs'[new].file = Ref.path
             /\ docs'[new].pipeline = IF Ref.included THEN p ELSE NoDoc
             /\ docs'[new].caller = current
             /\ docs'[new].optional = BelowOptional(Ref)
             /\ docs'[new].next = 1
<1> DEFINE new == Len(docs) + 1
           p   == PipelineOf(current)
           doc == [file     |-> Ref.path,
                   pipeline |-> IF Ref.included THEN p ELSE NoDoc,
                   caller   |-> current,
                   optional |-> BelowOptional(Ref),
                   next     |-> 1,
                   includes |-> << >>]
<1>1. Following /\ Len(docs) \in Nat /\ current \in Nat /\ p \in Nat
  BY CurrentTyped, DocTyped DEF Enter
<1>2. BelowOptional(Ref) \in BOOLEAN
  BY <1>1, CurrentTyped, DocTyped, RefTyped DEF BelowOptional
<1>3. doc \in Document
  <2>1. doc.includes \in Seq(Nat)
    BY EmptySeq
  <2> QED
    BY <1>1, <1>2, <2>1, RefTyped DEF Document
<1>4. PICK s : OneFurther(s) /\ docs' = Append(s, doc)
  <2>1. docs' = Append(AdvancedWith(new), doc) \/ docs' = Append(Advanced, doc)
    BY DEF Enter
  <2> QED
    BY <1>1, <2>1, AdvanceIsOneFurther
<1> HIDE DEF doc
<1>5. /\ docs' \in Seq(Document)
      /\ Len(docs') = new
      /\ docs'[new] = doc
      /\ \A d \in DocId : docs'[d] = s[d]
  BY <1>3, <1>4, AppendProperties DEF OneFurther, DocId
<1>6. /\ doc.file = Ref.path
      /\ doc.pipeline = IF Ref.included THEN p ELSE NoDoc
      /\ doc.caller = current
      /\ doc.optional = BelowOptional(Ref)
      /\ doc.next = 1
  BY Zenon DEF doc
<1>7. \E t : OneFurther(t) /\ \A d \in DocId : docs'[d] = t[d]
  BY <1>4, <1>5, Zenon
<1> QED
  BY <1>5, <1>6, <1>7, Zenon

(* A step of collect leaves the repository and what was collected alone,   *)
(* except that the current document's loop goes on.                        *)
Grows ==
  /\ tree' = tree
  /\ docs' \in Seq(Document)
  /\ Len(docs') \in Nat
  /\ Len(docs) <= Len(docs')
  /\ \A d \in DocId :
       /\ docs'[d].file = docs[d].file
       /\ docs'[d].pipeline = docs[d].pipeline
       /\ docs'[d].caller = docs[d].caller
       /\ docs'[d].optional = docs[d].optional
       /\ docs'[d].next = IF d = current /\ Following THEN docs[d].next + 1 ELSE docs[d].next

(* follow deals with a reference without entering the file. *)
Stays == SkipExcluded \/ IncludeAgain \/ TriggerAgain \/ LeaveOutside \/ Unreadable

LEMMA StayDocs ==
  ASSUME TypeOK, Stays
  PROVE  Following /\ OneFurther(docs') /\ tree' = tree /\ current' = current
<1>1. Following /\ tree' = tree /\ current' = current
  BY DEF Stays, SkipExcluded, IncludeAgain, TriggerAgain, LeaveOutside, Unreadable
<1>2. CASE IncludeAgain
  <2> DEFINE known == members[PipelineOf(current)][Ref.path]
  <2>1. MergedAgain(known) => known \in Nat
    <3>1. known \in -1 .. Len(docs)
      BY <1>1, CurrentTyped, DocTyped, RefTyped DEF TypeOK
    <3>2. MergedAgain(known) => known # 0
      BY DEF MergedAgain
    <3>3. known # -1
      BY <1>2 DEF IncludeAgain, Known
    <3> QED
      BY <3>1, <3>3, DocTyped
  <2>2. (docs' = AdvancedWith(known) /\ MergedAgain(known)) \/ docs' = Advanced
    BY <1>2 DEF IncludeAgain
  <2> QED
    BY <1>1, <2>1, <2>2, AdvanceIsOneFurther
<1>3. CASE ~IncludeAgain
  BY <1>1, <1>3, AdvanceIsOneFurther
  DEF Stays, SkipExcluded, TriggerAgain, LeaveOutside, Unreadable
<1> QED
  BY <1>1, <1>2, <1>3

LEMMA StepGrows ==
  ASSUME TypeOK, Next
  PROVE  Grows
<1>0. Len(docs) \in Nat /\ docs \in Seq(Document)
  BY DEF TypeOK, Document
<1>1. CASE Stays
  BY <1>0, <1>1, StayDocs DEF Grows, OneFurther
<1>2. CASE Enter
  <2>1. Following /\ tree' = tree
    BY <1>2 DEF Enter
  <2> QED
    BY <1>0, <1>2, <2>1, EnterDocs DEF Grows, OneFurther
<1>3. CASE Return
  <2>1. tree' = tree /\ docs' = docs /\ ~Following
    <3>1. current \in DocId
      BY <1>3, DocTyped DEF Return, TypeOK, DocId
    <3> QED
      BY <1>3, <3>1, DocTyped DEF Return, Following
  <2> QED
    BY <1>0, <2>1 DEF Grows
<1> QED
  BY <1>1, <1>2, <1>3 DEF Next, Stays

-----------------------------------------------------------------------------
(* Type correctness. *)

LEMMA InitTypeOK ==
  ASSUME Init
  PROVE  TypeOK
<1> DEFINE root == [file |-> Root, pipeline |-> NoDoc, caller |-> NoDoc, optional |-> FALSE,
                    next |-> 1, includes |-> << >>]
           mine == [NoMembers EXCEPT ![Root] = 1]
<1>1. Root \in File /\ Trees \subseteq [File -> Content]
  BY ConstantsAssumption
<1>2. root \in Document
  <2>1. root.includes \in Seq(Nat)
    BY EmptySeq
  <2> QED
    BY <1>1, <2>1 DEF Document
<1>3. mine \in [File -> Int] /\ \A f \in File : mine[f] \in Absent .. 1
  BY <1>1 DEF NoMembers
<1>4. docs = <<root>> /\ members = <<mine>>
  BY Zenon DEF Init, Start
<1> HIDE DEF root, mine
<1>5. /\ docs \in Seq(Document) /\ Len(docs) = 1 /\ docs[1] = root
      /\ members \in Seq([File -> Int]) /\ Len(members) = 1 /\ members[1] = mine
  BY <1>2, <1>3, <1>4
<1>6. \A d \in DocId : docs[d].pipeline \in 0 .. d - 1 /\ docs[d].caller \in 0 .. d - 1
  BY <1>5 DEF DocId, root
<1>7. \A d \in DocId, f \in File : members[d][f] \in Absent .. Len(docs)
  BY <1>3, <1>5 DEF DocId
<1>8. current \in 0 .. Len(docs) /\ tree \in [File -> Content]
  BY <1>1, <1>5 DEF Init, Start
<1>9. /\ parsed \in [File -> {"unknown", "usable", "nil"}]
      /\ children \subseteq File
      /\ skipped \subseteq File
      /\ unread \in Seq([file : File, optional : BOOLEAN])
  BY <1>1, EmptySeq DEF Init, Start
<1> QED
  BY <1>5, <1>6, <1>7, <1>8, <1>9 DEF TypeOK, Document

(* What follow writes down of a reference it did not know.                 *)
LEMMA MetTyped ==
  ASSUME TypeOK, Following, Met(Ref)
  PROVE  /\ members' \in Seq([File -> Int])
         /\ Len(members') = Len(docs)
         /\ \A d \in DocId, f \in File : members'[d][f] \in Absent .. Len(docs)
         /\ children' \subseteq File
<1>1. /\ members \in Seq([File -> Int]) /\ Len(members) = Len(docs)
      /\ \A d \in DocId, f \in File : members[d][f] \in Absent .. Len(docs)
      /\ children \subseteq File
      /\ PipelineOf(current) \in DocId
      /\ Ref.path \in File
      /\ Len(docs) \in Nat
  BY CurrentTyped, DocTyped, RefTyped DEF TypeOK
<1>2. CASE Ref.included
  <2>1. members' = [members EXCEPT ![PipelineOf(current)][Ref.path] = 0] /\ children' = children
    BY <1>2 DEF Met
  <2> QED
    BY <1>1, <2>1, MembersUpdate DEF DocId
<1>3. CASE ~Ref.included
  BY <1>1, <1>3 DEF Met
<1> QED
  BY <1>2, <1>3

(* The members after follow has entered a file.                            *)
LEMMA EnterMembers ==
  ASSUME TypeOK, Enter
  PROVE  LET new == Len(docs) + 1
             p   == PipelineOf(current)
         IN  /\ members' \in Seq([File -> Int])
             /\ Len(members') = new
             /\ \A d \in DocId, f \in File :
                  members'[d][f] = IF Ref.included /\ d = p /\ f = Ref.path
                                   THEN new ELSE members[d][f]
             /\ \A f \in File :
                  members'[new][f] = IF ~Ref.included /\ f = Ref.path THEN new ELSE Absent
             /\ children' = IF Ref.included THEN children ELSE children \cup {Ref.path}
<1> DEFINE new == Len(docs) + 1
           p   == PipelineOf(current)
<1>1. /\ Following
      /\ members \in Seq([File -> Int]) /\ Len(members) = Len(docs)
      /\ p \in DocId /\ Ref.path \in File /\ Len(docs) \in Nat /\ Ref.included \in BOOLEAN
  BY CurrentTyped, DocTyped, RefTyped DEF TypeOK, Enter
<1>2. CASE Ref.included
  <2> DEFINE old == [members EXCEPT ![p][Ref.path] = new]
  <2>1. members' = Append(old, NoMembers) /\ children' = children
    BY <1>2 DEF Enter
  <2>2. /\ old \in Seq([File -> Int]) /\ Len(old) = Len(docs)
        /\ \A d \in DocId, f \in File :
             old[d][f] = IF d = p /\ f = Ref.path THEN new ELSE members[d][f]
    BY <1>1, MembersUpdate DEF DocId
  <2>3. NoMembers \in [File -> Int] /\ \A f \in File : NoMembers[f] = Absent
    BY DEF NoMembers
  <2> HIDE DEF old
  <2>4. /\ Append(old, NoMembers) \in Seq([File -> Int])
        /\ Len(Append(old, NoMembers)) = Len(old) + 1
        /\ Append(old, NoMembers)[Len(old) + 1] = NoMembers
        /\ \A d \in 1 .. Len(old) : Append(old, NoMembers)[d] = old[d]
    BY <2>2, <2>3, AppendProperties
  <2>5. /\ members' \in Seq([File -> Int]) /\ Len(members') = new
        /\ members'[new] = NoMembers
        /\ \A d \in DocId : members'[d] = old[d]
    BY <2>1, <2>2, <2>4 DEF DocId
  <2>6. \A d \in DocId, f \in File :
          members'[d][f] = IF Ref.included /\ d = p /\ f = Ref.path THEN new ELSE members[d][f]
    BY <1>2, <2>2, <2>5
  <2>7. \A f \in File :
          members'[new][f] = IF ~Ref.included /\ f = Ref.path THEN new ELSE Absent
    BY <1>2, <2>3, <2>5
  <2>8. children' = IF Ref.included THEN children ELSE children \cup {Ref.path}
    BY <1>2, <2>1
  <2> QED
    BY <2>5, <2>6, <2>7, <2>8, Zenon
<1>3. CASE ~Ref.included
  <2> DEFINE mine == [NoMembers EXCEPT ![Ref.path] = new]
  <2>1. members' = Append(members, mine) /\ children' = children \cup {Ref.path}
    BY <1>3 DEF Enter
  <2>2. /\ mine \in [File -> Int]
        /\ \A f \in File : mine[f] = IF f = Ref.path THEN new ELSE Absent
    BY <1>1 DEF NoMembers
  <2> HIDE DEF mine
  <2>3. /\ members' \in Seq([File -> Int]) /\ Len(members') = new
        /\ members'[new] = mine
        /\ \A d \in DocId : members'[d] = members[d]
    BY <1>1, <2>1, <2>2, AppendProperties DEF DocId
  <2> QED
    BY <1>3, <2>1, <2>2, <2>3
<1> QED
  BY <1>2, <1>3

LEMMA UnreadTyped ==
  ASSUME TypeOK, Unreadable
  PROVE  /\ parsed' \in [File -> {"unknown", "usable", "nil"}]
         /\ unread' \in Seq([file : File, optional : BOOLEAN])
<1> DEFINE one == [file |-> Ref.path, optional |-> Optional(Ref)]
<1>1. Following
  BY DEF Unreadable
<1>2. Ref.path \in File /\ Optional(Ref) \in BOOLEAN
  BY <1>1, CurrentTyped, DocTyped, RefTyped DEF Optional, BelowOptional
<1>3. one \in [file : File, optional : BOOLEAN]
  BY <1>2
<1>4. \/ parsed' = parsed /\ unread' = unread
      \/ parsed' = [parsed EXCEPT ![Ref.path] = "nil"] /\ unread' = Append(unread, one)
  BY DEF Unreadable
<1> HIDE DEF one
<1>5. Append(unread, one) \in Seq([file : File, optional : BOOLEAN])
  BY <1>3, AppendProperties DEF TypeOK
<1> QED
  BY <1>2, <1>4, <1>5 DEF TypeOK

(* The part of TypeOK that is about the documents. *)
LEMMA DocsTypeOK ==
  ASSUME TypeOK, Next
  PROVE  /\ docs' \in Seq(Document)
         /\ \A d \in DocId' : docs'[d].pipeline \in 0 .. d - 1 /\ docs'[d].caller \in 0 .. d - 1
         /\ current' \in 0 .. Len(docs')
<1>1. Grows
  BY StepGrows
<1>2. \A d \in DocId : docs'[d].pipeline \in 0 .. d - 1 /\ docs'[d].caller \in 0 .. d - 1
  BY <1>1, DocTyped DEF Grows
<1>3. CASE Stays
  <2>1. Len(docs') = Len(docs) /\ current' = current
    BY <1>3, StayDocs DEF OneFurther
  <2>2. current \in 0 .. Len(docs)
    BY DEF TypeOK
  <2>3. docs' \in Seq(Document)
    BY <1>1 DEF Grows
  <2> QED
    BY <1>2, <2>1, <2>2, <2>3 DEF DocId
<1>4. CASE Enter
  <2>1. /\ Following /\ current' = Len(docs) + 1
    BY <1>4 DEF Enter
  <2>2. /\ Len(docs') = Len(docs) + 1
        /\ docs'[Len(docs) + 1].pipeline \in 0 .. Len(docs)
        /\ docs'[Len(docs) + 1].caller \in 0 .. Len(docs)
    BY SMTT(30), <1>4, <2>1, EnterDocs, CurrentTyped, DocTyped DEF DocId
  <2> QED
    BY <1>1, <1>2, <2>1, <2>2, DocTyped DEF DocId, Grows
<1>5. CASE Return
  <2>1. docs' = docs /\ current' = docs[current].caller /\ current \in DocId
    BY <1>5 DEF Return, TypeOK, DocId
  <2>2. docs[current].caller \in 0 .. Len(docs)
    BY SMTT(30), <2>1, DocTyped DEF DocId
  <2> QED
    BY <1>2, <2>1, <2>2, DocTyped DEF DocId
<1> QED
  BY <1>3, <1>4, <1>5 DEF Next, Stays

LEMMA StepTypeOK ==
  ASSUME TypeOK, [Next]_vars
  PROVE  TypeOK'
<1>1. CASE Next
  <2>1. tree' \in [File -> Content]
    BY <1>1, StepGrows DEF Grows, TypeOK
  <2>2. /\ parsed' \in [File -> {"unknown", "usable", "nil"}]
        /\ unread' \in Seq([file : File, optional : BOOLEAN])
        /\ skipped' \subseteq File
    <3>1. CASE Unreadable
      BY <3>1, UnreadTyped DEF TypeOK, Unreadable
    <3>2. CASE Enter
      BY <3>2, RefTyped DEF TypeOK, Enter
    <3>3. CASE LeaveOutside
      BY <3>3, RefTyped DEF TypeOK, LeaveOutside
    <3> QED
      BY <1>1, <3>1, <3>2, <3>3 DEF TypeOK, Next, SkipExcluded, IncludeAgain, TriggerAgain, Return
  <2>3. /\ members' \in Seq([File -> Int])
        /\ Len(members') = Len(docs')
        /\ \A d \in DocId', f \in File : members'[d][f] \in Absent .. Len(docs')
        /\ children' \subseteq File
    <3>1. CASE LeaveOutside \/ Unreadable
      <4>1. Following /\ Met(Ref)
        BY <3>1 DEF LeaveOutside, Unreadable
      <4>2. Len(docs') = Len(docs)
        BY <3>1, StayDocs DEF Stays, OneFurther
      <4> QED
        BY <4>1, <4>2, MetTyped DEF DocId
    <3>2. CASE Enter
      <4>1. Following /\ Ref.path \in File /\ Len(docs') = Len(docs) + 1
        BY <3>2, RefTyped, EnterDocs DEF Enter
      <4>2. \A d \in DocId, f \in File : members[d][f] \in Absent .. Len(docs)
        BY DEF TypeOK
      <4>3. children \subseteq File
        BY DEF TypeOK
      <4>4. /\ members' \in Seq([File -> Int])
            /\ Len(members') = Len(docs')
            /\ children' \subseteq File
        BY <3>2, <4>1, <4>3, EnterMembers
      <4>5. ASSUME NEW d \in DocId', NEW f \in File
            PROVE  members'[d][f] \in Absent .. Len(docs')
        <5>1. d \in DocId \/ d = Len(docs) + 1
          BY <4>1, DocTyped DEF DocId
        <5>2. Len(docs') = Len(docs) + 1 /\ Len(docs) \in Nat
          BY <4>1, DocTyped
        <5>3. CASE d \in DocId
          <6>1. members'[d][f] \in {members[d][f], Len(docs) + 1}
            BY <3>2, <5>3, EnterMembers
          <6> QED
            BY <4>2, <5>2, <5>3, <6>1
        <5>4. CASE d = Len(docs) + 1
          <6>1. members'[d][f] \in {Absent, Len(docs) + 1}
            BY <3>2, <5>4, EnterMembers
          <6> QED
            BY <5>2, <6>1
        <5> QED
          BY <5>1, <5>3, <5>4
      <4> QED
        BY <4>4, <4>5
    <3>3. CASE SkipExcluded \/ IncludeAgain \/ TriggerAgain
      <4>1. Len(docs') = Len(docs)
        BY <3>3, StayDocs DEF Stays, OneFurther
      <4> QED
        BY <3>3, <4>1 DEF TypeOK, DocId, SkipExcluded, IncludeAgain, TriggerAgain
    <3>4. CASE Return
      BY <3>4 DEF TypeOK, DocId, Return
    <3> QED
      BY <1>1, <3>1, <3>2, <3>3, <3>4 DEF Next
  <2> QED
    BY <1>1, <2>1, <2>2, <2>3, DocsTypeOK DEF TypeOK, Document
<1>2. CASE UNCHANGED vars
  BY <1>2 DEF TypeOK, DocId, vars
<1> QED
  BY <1>1, <1>2

(* Every value keeps its type: in particular a document's pipeline and     *)
(* caller are earlier documents, so the chain of callers ends.             *)
THEOREM TypeCorrect == Spec => []TypeOK
<1>1. Init => TypeOK
  BY InitTypeOK
<1>2. TypeOK /\ [Next]_vars => TypeOK'
  BY StepTypeOK
<1> QED
  BY <1>1, <1>2, PTL DEF Spec

-----------------------------------------------------------------------------
(* Where a document stands, and what members and children say of it. *)

LEMMA SamePlaces ==
  ASSUME TypeOK, [Next]_vars
  PROVE  \A d \in DocId :
           /\ d \in DocId'
           /\ docs'[d].file = docs[d].file
           /\ docs'[d].pipeline = docs[d].pipeline
           /\ docs'[d].optional = docs[d].optional
           /\ PipelineOf(d)' = PipelineOf(d)
           /\ Refs(d)' = Refs(d)
<1>1. CASE Next
  BY <1>1, StepGrows, DocTyped DEF Grows, DocId, PipelineOf, Refs
<1>2. CASE UNCHANGED vars
  BY <1>2 DEF vars, DocId, PipelineOf, Refs
<1> QED
  BY <1>1, <1>2

LEMMA SameReachable ==
  ASSUME TypeOK, [Next]_vars
  PROVE  \A f : Reachable(f)' <=> Reachable(f)
<1>1. tree' = tree
  BY StepGrows DEF Grows, vars
<1> QED
  BY <1>1 DEF Reachable

LEMMA NewPlace ==
  ASSUME TypeOK, Enter, NEW new, new = Len(docs) + 1
  PROVE  /\ new \notin DocId /\ new \in Nat \ {0}
         /\ DocId' = DocId \cup {new}
         /\ Following
         /\ docs'[new].file = Ref.path
         /\ docs'[new].pipeline = NoDoc <=> ~Ref.included
         /\ PipelineOf(new)' = IF Ref.included THEN PipelineOf(current) ELSE new
<1>1. Following
  BY DEF Enter
<1>2. PipelineOf(current) \in DocId /\ PipelineOf(current) # NoDoc /\ Len(docs) \in Nat
  BY <1>1, CurrentTyped, DocTyped DEF DocId
<1>3. /\ Len(docs') = new
      /\ docs'[new].file = Ref.path
      /\ docs'[new].pipeline = IF Ref.included THEN PipelineOf(current) ELSE NoDoc
  BY EnterDocs
<1>4. PipelineOf(new)' = IF docs'[new].pipeline = NoDoc THEN new ELSE docs'[new].pipeline
  BY DEF PipelineOf
<1>5. new \notin DocId /\ new \in Nat \ {0} /\ DocId' = DocId \cup {new}
  BY <1>2, <1>3 DEF DocId
<1>6. /\ docs'[new].pipeline = NoDoc <=> ~Ref.included
      /\ PipelineOf(new)' = IF Ref.included THEN PipelineOf(current) ELSE new
  BY <1>2, <1>3, <1>4
<1> QED
  BY <1>1, <1>3, <1>5, <1>6

(* A step that enters no file writes down only files that can't be read.   *)
LEMMA StayMembers ==
  ASSUME TypeOK, Stays
  PROVE  /\ \A d \in DocId, f \in File :
              \/ members'[d][f] = members[d][f]
              \/ /\ members[d][f] = Absent
                 /\ members'[d][f] = NoDoc
                 /\ f = Ref.path
                 /\ ~Reachable(f)
         /\ children \subseteq children'
         /\ \A f \in children' \ children : f = Ref.path /\ ~Reachable(f)
<1>1. CASE LeaveOutside \/ Unreadable
  <2>1. /\ Following /\ Met(Ref) /\ ~Known(Ref)
        /\ ~Reachable(Ref.path)
    BY <1>1 DEF LeaveOutside, Unreadable, MayRead, Reachable
  <2>2. /\ members \in Seq([File -> Int]) /\ Len(members) = Len(docs)
        /\ PipelineOf(current) \in DocId /\ Ref.path \in File /\ Ref.included \in BOOLEAN
    BY <2>1, CurrentTyped, DocTyped, RefTyped DEF TypeOK
  <2>3. CASE Ref.included
    <3>1. /\ members' = [members EXCEPT ![PipelineOf(current)][Ref.path] = 0]
          /\ children' = children
          /\ members[PipelineOf(current)][Ref.path] = Absent
      BY <2>1, <2>3 DEF Met, Known
    <3> QED
      BY <2>1, <2>2, <3>1, MembersUpdate DEF DocId
  <2>4. CASE ~Ref.included
    BY <2>1, <2>4 DEF Met
  <2> QED
    BY <2>2, <2>3, <2>4
<1>2. CASE SkipExcluded \/ IncludeAgain \/ TriggerAgain
  BY <1>2 DEF SkipExcluded, IncludeAgain, TriggerAgain
<1> QED
  BY <1>1, <1>2 DEF Stays

(* A document is what members has for its file and pipeline, a pipeline is *)
(* a document of its own that has started, and no two have the same file.  *)
PlacesRight ==
  /\ \A d \in DocId :
       /\ docs[PipelineOf(d)].pipeline = NoDoc
       /\ members[PipelineOf(d)][docs[d].file] = d
       /\ docs[d].pipeline = NoDoc => docs[d].file \in children
  /\ \A a, b \in DocId :
       /\ docs[a].pipeline = NoDoc
       /\ docs[b].pipeline = NoDoc
       /\ docs[a].file = docs[b].file
       => a = b

LEMMA StepPlacesRight ==
  ASSUME TypeOK, PlacesRight, [Next]_vars
  PROVE  PlacesRight'
<1>1. CASE Stays
  <2>1. Next /\ DocId' = DocId
    BY <1>1, StayDocs DEF Stays, Next, OneFurther, DocId
  <2>2. ASSUME NEW d \in DocId
        PROVE  /\ docs'[PipelineOf(d)'].pipeline = NoDoc
               /\ members'[PipelineOf(d)'][docs'[d].file] = d
               /\ docs'[d].pipeline = NoDoc => docs'[d].file \in children'
    <3>1. /\ PipelineOf(d)' = PipelineOf(d)
          /\ docs'[d].file = docs[d].file
          /\ docs'[d].pipeline = docs[d].pipeline
          /\ PipelineOf(d) \in DocId /\ docs[d].file \in File /\ d # Absent
      BY SMTT(30), <2>1, SamePlaces, DocTyped
    <3>2. docs'[PipelineOf(d)].pipeline = NoDoc
      BY <2>1, <3>1, SamePlaces DEF PlacesRight
    <3>3. members[PipelineOf(d)][docs[d].file] = d
      BY DEF PlacesRight
    <3>4. members'[PipelineOf(d)][docs[d].file] = d
      BY <1>1, <3>1, <3>3, StayMembers
    <3>5. docs[d].pipeline = NoDoc => docs[d].file \in children'
      BY <1>1, StayMembers DEF PlacesRight
    <3> QED
      BY <3>1, <3>2, <3>4, <3>5
  <2>3. ASSUME NEW a \in DocId', NEW b \in DocId',
               docs'[a].pipeline = NoDoc, docs'[b].pipeline = NoDoc,
               docs'[a].file = docs'[b].file
        PROVE  a = b
    BY <2>1, <2>3, SamePlaces DEF PlacesRight
  <2> QED
    BY <2>1, <2>2, <2>3 DEF PlacesRight
<1>2. CASE Enter
  <2>0. PICK new : new = Len(docs) + 1
    OBVIOUS
  <2>1. Next /\ Following /\ ~Known(Ref) /\ Ref.included \in BOOLEAN /\ Ref.path \in File
    BY <1>2, RefTyped DEF Next, Enter
  <2>2. PipelineOf(current) \in DocId
    BY <2>1, CurrentTyped, DocTyped
  <2>3. ASSUME NEW d \in DocId
        PROVE  /\ docs'[PipelineOf(d)'].pipeline = NoDoc
               /\ members'[PipelineOf(d)'][docs'[d].file] = d
               /\ docs'[d].pipeline = NoDoc => docs'[d].file \in children'
    <3>1. PipelineOf(d)' = PipelineOf(d) /\ docs'[d].file = docs[d].file
          /\ docs'[d].pipeline = docs[d].pipeline
      BY <2>1, SamePlaces
    <3>2. PipelineOf(d) \in DocId /\ docs[d].file \in File /\ d # Absent
      BY DocTyped
    <3>3. docs'[PipelineOf(d)].pipeline = NoDoc
      BY <2>1, <3>2, SamePlaces DEF PlacesRight
    <3>4. members'[PipelineOf(d)][docs[d].file] = d
      <4>1. members[PipelineOf(d)][docs[d].file] = d
        BY DEF PlacesRight
      <4>2. ~(Ref.included /\ PipelineOf(d) = PipelineOf(current) /\ docs[d].file = Ref.path)
        BY <2>1, <3>2, <4>1 DEF Known
      <4>3. members'[PipelineOf(d)][docs[d].file] = members[PipelineOf(d)][docs[d].file]
        BY <1>2, <3>2, <4>2, EnterMembers
      <4> QED
        BY <4>1, <4>3
    <3>5. docs[d].pipeline = NoDoc => docs[d].file \in children'
      BY <1>2, <2>1, EnterMembers DEF PlacesRight
    <3> QED
      BY <3>1, <3>3, <3>4, <3>5
  <2>4. /\ docs'[PipelineOf(new)'].pipeline = NoDoc
        /\ members'[PipelineOf(new)'][docs'[new].file] = new
        /\ docs'[new].pipeline = NoDoc => docs'[new].file \in children'
    <3>1. CASE Ref.included
      <4>1. docs'[PipelineOf(current)].pipeline = NoDoc
        BY <2>1, <2>2, CurrentTyped, SamePlaces DEF PlacesRight
      <4>2. members'[PipelineOf(current)][Ref.path] = new
        BY <1>2, <2>1, <2>2, <3>1, <2>0, EnterMembers
      <4> QED
        BY <1>2, <3>1, <4>1, <4>2, <2>0, NewPlace
    <3>2. CASE ~Ref.included
      BY <1>2, <2>1, <3>2, <2>0, NewPlace, EnterMembers
    <3> QED
      BY <2>1, <3>1, <3>2
  <2>5. ASSUME NEW a \in DocId', NEW b \in DocId',
               docs'[a].pipeline = NoDoc, docs'[b].pipeline = NoDoc,
               docs'[a].file = docs'[b].file
        PROVE  a = b
    <3>1. ASSUME NEW d \in DocId, docs'[d].pipeline = NoDoc,
                 docs'[new].pipeline = NoDoc
          PROVE  docs'[d].file # docs'[new].file
      <4>1. docs[d].file \in children
        BY <2>1, <3>1, SamePlaces DEF PlacesRight
      <4>2. docs'[new].file = Ref.path /\ Ref.path \notin children
        BY <1>2, <2>1, <3>1, <2>0, NewPlace DEF Known
      <4> QED
        BY <2>1, <4>1, <4>2, SamePlaces
    <3>2. CASE a \in DocId /\ b \in DocId
      BY <2>1, <2>5, <3>2, SamePlaces DEF PlacesRight
    <3> QED
      BY <1>2, <2>5, <2>0, <3>1, <3>2, NewPlace
  <2>6. DocId' = DocId \cup {new}
    BY <1>2, <2>0, NewPlace
  <2> QED
    BY <2>3, <2>4, <2>5, <2>6 DEF PlacesRight
<1>3. CASE Return \/ UNCHANGED vars
  BY <1>3 DEF Return, vars, PlacesRight, DocId, PipelineOf
<1> QED
  BY <1>1, <1>2, <1>3 DEF Next, Stays

(* The one document that collect begins with. *)
LEMMA InitRoot ==
  ASSUME Init
  PROVE  /\ DocId = {1} /\ Len(docs) = 1
         /\ docs[1].file = Root
         /\ docs[1].pipeline = NoDoc
         /\ docs[1].caller = NoDoc
         /\ docs[1].optional = FALSE
         /\ docs[1].next = 1
         /\ PipelineOf(1) = 1
         /\ \A f \in File : members[1][f] = IF f = Root THEN 1 ELSE Absent
  BY ConstantsAssumption DEF Init, Start, DocId, PipelineOf, NoMembers

LEMMA InitPlacesRight ==
  ASSUME Init
  PROVE  PlacesRight
<1>1. children = {Root} /\ Root \in File
  BY ConstantsAssumption DEF Init, Start
<1> QED
  BY <1>1, InitRoot DEF PlacesRight

LEMMA PlacesRightAlways == Spec => []PlacesRight
<1>1. Init => PlacesRight
  BY InitPlacesRight
<1>2. TypeOK /\ PlacesRight /\ [Next]_vars => PlacesRight'
  BY StepPlacesRight
<1> QED
  BY <1>1, <1>2, TypeCorrect, PTL DEF Spec

(* A file is collected at most once for each pipeline, and no pipeline is  *)
(* started twice, in every repository.                                     *)
THEOREM CollectedOnce == Spec => []OncePerPipeline
<1>1. TypeOK /\ PlacesRight => OncePerPipeline
  <2> SUFFICES ASSUME TypeOK, PlacesRight, NEW a \in DocId, NEW b \in DocId,
                      docs[a].file = docs[b].file,
                      docs[PipelineOf(a)].file = docs[PipelineOf(b)].file
               PROVE  a = b
    BY DEF OncePerPipeline
  <2>1. PipelineOf(a) = PipelineOf(b)
    BY DocTyped DEF PlacesRight
  <2>2. members[PipelineOf(a)][docs[a].file] = a /\ members[PipelineOf(b)][docs[b].file] = b
    BY DEF PlacesRight
  <2> QED
    BY <2>1, <2>2
<1> QED
  BY <1>1, TypeCorrect, PlacesRightAlways, PTL

-----------------------------------------------------------------------------
(* Only what is named and may be read is collected. *)

LEMMA StepJustified ==
  ASSUME TypeOK, Justified, [Next]_vars
  PROVE  Justified'
<1> DEFINE Names(c, d, i) ==
      /\ Refs(c)[i].path = docs[d].file
      /\ Refs(c)[i].included <=> docs[d].pipeline # NoDoc
      /\ Refs(c)[i].included => PipelineOf(c) = PipelineOf(d)
<1>1. ASSUME NEW d \in DocId \ {1}
      PROVE  /\ Reachable(docs[d].file)'
             /\ \E c \in 1 .. d - 1 : \E i \in DOMAIN Refs(c)' :
                  /\ Refs(c)'[i].path = docs'[d].file
                  /\ Refs(c)'[i].included <=> docs'[d].pipeline # NoDoc
                  /\ Refs(c)'[i].included => PipelineOf(c)' = PipelineOf(d)'
  <2>1. Reachable(docs[d].file)
    BY DEF Justified
  <2>2. docs'[d].file = docs[d].file /\ tree' = tree
    BY SamePlaces, StepGrows DEF Grows, vars
  <2>3. Reachable(docs[d].file)'
    BY <2>1, <2>2 DEF Reachable
  <2>4. PICK c \in 1 .. d - 1 : \E i \in DOMAIN Refs(c) : Names(c, d, i)
    BY DEF Justified
  <2>5. PICK i \in DOMAIN Refs(c) : Names(c, d, i)
    BY <2>4
  <2>6. c \in DocId
    BY DocTyped DEF DocId
  <2>7. /\ Refs(c)' = Refs(c)
        /\ PipelineOf(c)' = PipelineOf(c)
        /\ PipelineOf(d)' = PipelineOf(d)
        /\ docs'[d].pipeline = docs[d].pipeline
    BY <2>6, SamePlaces
  <2> QED
    BY <2>2, <2>3, <2>5, <2>7
<1>2. ASSUME NEW d, d = Len(docs) + 1, Enter
      PROVE  /\ Reachable(docs[d].file)'
             /\ \E c \in 1 .. d - 1 : \E i \in DOMAIN Refs(c)' :
                  /\ Refs(c)'[i].path = docs'[d].file
                  /\ Refs(c)'[i].included <=> docs'[d].pipeline # NoDoc
                  /\ Refs(c)'[i].included => PipelineOf(c)' = PipelineOf(d)'
  <2> DEFINE c == current
             i == docs[current].next
  <2>1. Following /\ Reachable(Ref.path) /\ tree' = tree
    BY <1>2 DEF Enter, MayRead, Reachable
  <2>2. /\ docs'[d].file = Ref.path
        /\ docs'[d].pipeline # NoDoc <=> Ref.included
        /\ Ref.included => PipelineOf(d)' = PipelineOf(c)
    BY <1>2, NewPlace
  <2>3. c \in DocId /\ i \in DOMAIN Refs(c) /\ Ref = Refs(c)[i]
    BY <2>1, CurrentTyped, DocTyped DEF Ref
  <2>4. Reachable(docs[d].file)'
    BY <2>1, <2>2 DEF Reachable
  <2>5. ASSUME NEW e \in DocId, e = c
        PROVE  \E i1 \in DOMAIN Refs(e)' :
                  /\ Refs(e)'[i1].path = docs'[d].file
                  /\ Refs(e)'[i1].included <=> docs'[d].pipeline # NoDoc
                  /\ Refs(e)'[i1].included => PipelineOf(e)' = PipelineOf(d)'
    <3>1. Refs(e)' = Refs(c) /\ PipelineOf(e)' = PipelineOf(c)
      BY <2>5, SamePlaces
    <3> QED
      BY <2>2, <2>3, <3>1
  <2>6. c \in 1 .. d - 1
    BY <1>2, <2>3, DocTyped DEF DocId
  <2> HIDE DEF c
  <2> QED
    BY <2>3, <2>4, <2>5, <2>6
<1>3. DocId' = DocId \/ Enter
  BY StayDocs DEF Next, Stays, OneFurther, Return, DocId, vars
<1>4. \A d \in DocId' : d \in DocId \/ (Enter /\ d = Len(docs) + 1)
  BY <1>3, NewPlace
<1> QED
  BY <1>1, <1>2, <1>4 DEF Justified

(* collect reads only files that a file it has read before names, in the   *)
(* same pipeline if it is included, that are inside the root directory and *)
(* that exclude-paths leaves in.                                           *)
THEOREM CollectedJustified == Spec => []Justified
<1>1. Init => Justified
  BY InitRoot DEF Justified
<1>2. TypeOK /\ Justified /\ [Next]_vars => Justified'
  BY StepJustified
<1> QED
  BY <1>1, <1>2, TypeCorrect, PTL DEF Spec

-----------------------------------------------------------------------------
(* Nothing is missed. *)

(* What members and children hold can be relied on: a file they know was   *)
(* collected, or can't be.                                                 *)
KnownRight ==
  /\ \A p \in DocId, e \in DocId, f \in File :
       members[p][f] = e => docs[e].file = f /\ PipelineOf(e) = p
  /\ \A p \in DocId, f \in File : members[p][f] = NoDoc => ~Reachable(f)
  /\ \A f \in children : Reachable(f) =>
       \E e \in DocId : docs[e].file = f /\ PipelineOf(e) = e

LEMMA StepKnownRight ==
  ASSUME TypeOK, KnownRight, [Next]_vars
  PROVE  KnownRight'
<1> SUFFICES ASSUME Next
             PROVE  KnownRight'
  <2>1. CASE UNCHANGED vars
    BY <2>1 DEF KnownRight, vars, DocId, PipelineOf, Reachable
  <2> QED
    BY <2>1
<1>1. \A f : Reachable(f)' <=> Reachable(f)
  BY StepGrows DEF Grows, Reachable
<1>2. ASSUME NEW f \in children, Reachable(f)
      PROVE  \E e \in DocId' : docs'[e].file = f /\ PipelineOf(e)' = e
  BY <1>2, SamePlaces DEF KnownRight
<1>3. ASSUME NEW p \in DocId, NEW e \in DocId, NEW f \in File, members[p][f] = e
      PROVE  docs'[e].file = f /\ PipelineOf(e)' = p
  BY <1>3, SamePlaces DEF KnownRight
<1>4. CASE Stays
  <2>1. DocId' = DocId /\ \A e \in DocId : e # NoDoc
    BY <1>4, StayDocs, DocTyped DEF OneFurther, DocId
  <2>2. ASSUME NEW p \in DocId, NEW e \in DocId, NEW f \in File, members'[p][f] = e
        PROVE  docs'[e].file = f /\ PipelineOf(e)' = p
    BY <1>3, <1>4, <2>1, <2>2, StayMembers
  <2>3. ASSUME NEW p \in DocId, NEW f \in File, members'[p][f] = NoDoc
        PROVE  ~Reachable(f)
    BY <1>4, <2>3, StayMembers DEF KnownRight
  <2>4. ASSUME NEW f \in children', Reachable(f)
        PROVE  \E e \in DocId' : docs'[e].file = f /\ PipelineOf(e)' = e
    BY <1>2, <1>4, <2>4, StayMembers
  <2> QED
    BY <1>1, <2>1, <2>2, <2>3, <2>4 DEF KnownRight
<1>5. CASE Enter
  <2>1. PICK new : new = Len(docs) + 1
    OBVIOUS
  <2>2. /\ new \notin DocId /\ new # NoDoc /\ new # Absent /\ DocId' = DocId \cup {new} /\ Following
        /\ docs'[new].file = Ref.path
        /\ PipelineOf(new)' = IF Ref.included THEN PipelineOf(current) ELSE new
    BY <1>5, <2>1, NewPlace
  <2>3. Ref.included \in BOOLEAN /\ Ref.path \in File /\ PipelineOf(current) \in DocId
    BY <2>2, RefTyped, CurrentTyped, DocTyped
  <2>4. \A p \in DocId, f \in File : members[p][f] # new
    <3>1. \A p \in DocId, f \in File : members[p][f] \in Absent .. Len(docs)
      BY DEF TypeOK
    <3> QED
      BY <2>1, <3>1, DocTyped
  <2>5. /\ \A p \in DocId, f \in File :
             members'[p][f] = IF Ref.included /\ p = PipelineOf(current) /\ f = Ref.path
                              THEN new ELSE members[p][f]
        /\ \A f \in File :
             members'[new][f] = IF ~Ref.included /\ f = Ref.path THEN new ELSE Absent
        /\ children' = IF Ref.included THEN children ELSE children \cup {Ref.path}
    BY <1>5, <2>1, EnterMembers
  <2>6. ASSUME NEW p \in DocId', NEW e \in DocId', NEW f \in File, members'[p][f] = e
        PROVE  docs'[e].file = f /\ PipelineOf(e)' = p
    <3>1. CASE e \in DocId
      <4>1. e # new /\ e # Absent
        BY <2>2, <3>1, DocTyped
      <4>2. p \in DocId /\ members[p][f] = e
        BY <2>2, <2>5, <2>6, <4>1
      <4> QED
        BY <1>3, <3>1, <4>2
    <3>2. CASE e = new
      BY <2>2, <2>3, <2>4, <2>5, <2>6, <3>2
    <3> QED
      BY <2>2, <3>1, <3>2
  <2>7. ASSUME NEW p \in DocId', NEW f \in File, members'[p][f] = NoDoc
        PROVE  ~Reachable(f)
    BY <2>2, <2>5, <2>7 DEF KnownRight
  <2>8. ASSUME NEW f \in children', Reachable(f)
        PROVE  \E e \in DocId' : docs'[e].file = f /\ PipelineOf(e)' = e
    BY <1>2, <2>2, <2>3, <2>5, <2>8
  <2> QED
    BY <1>1, <2>6, <2>7, <2>8 DEF KnownRight
<1>6. CASE Return
  BY <1>6 DEF Return, KnownRight, DocId, PipelineOf, Reachable
<1> QED
  BY <1>4, <1>5, <1>6 DEF Next, Stays

LEMMA KnownRightAlways == Spec => []KnownRight
<1>1. Init => KnownRight
  <2> SUFFICES ASSUME Init
               PROVE  KnownRight
    OBVIOUS
  <2>1. children = {Root} /\ Root \in File
    BY ConstantsAssumption DEF Init, Start
  <2> QED
    BY <2>1, InitRoot DEF KnownRight
<1>2. TypeOK /\ KnownRight /\ [Next]_vars => KnownRight'
  BY StepKnownRight
<1> QED
  BY <1>1, <1>2, TypeCorrect, PTL DEF Spec

(* The reference that follow has dealt with has its file collected.        *)
LEMMA FollowedCollected ==
  ASSUME TypeOK, KnownRight, Stays, Reachable(Ref.path)
  PROVE  Collected(current, Ref)
<1>1. Following /\ Ref.included \in BOOLEAN /\ Ref.path \in File /\ current \in DocId
      /\ PipelineOf(current) \in DocId
  BY StayDocs, RefTyped, CurrentTyped, DocTyped
<1>2. Known(Ref)
  BY DEF Stays, SkipExcluded, IncludeAgain, TriggerAgain, LeaveOutside, Unreadable, Reachable
<1>3. CASE Ref.included
  <2> DEFINE e == members[PipelineOf(current)][Ref.path]
  <2>1. e \in Absent .. Len(docs) /\ e # Absent
    BY <1>1, <1>2, <1>3 DEF TypeOK, Known
  <2>2. e # NoDoc
    BY <1>1 DEF KnownRight
  <2>3. e \in DocId
    <3> HIDE DEF e
    <3> QED
      BY <2>1, <2>2, DocTyped DEF DocId
  <2>4. docs[e].file = Ref.path /\ PipelineOf(e) = PipelineOf(current)
    BY <1>1, <2>3 DEF KnownRight
  <2> HIDE DEF e
  <2> QED
    BY <1>3, <2>3, <2>4 DEF Collected
<1>4. CASE ~Ref.included
  BY <1>1, <1>2, <1>4 DEF Known, KnownRight, Collected
<1> QED
  BY <1>1, <1>3, <1>4

LEMMA CollectedStays ==
  ASSUME TypeOK, [Next]_vars, NEW d \in DocId, NEW r, Collected(d, r)
  PROVE  Collected(d, r)'
<1>1. PICK e \in DocId : /\ docs[e].file = r.path
                         /\ IF r.included THEN PipelineOf(e) = PipelineOf(d) ELSE PipelineOf(e) = e
  BY DEF Collected
<1>2. /\ e \in DocId' /\ docs'[e].file = docs[e].file
      /\ PipelineOf(e)' = PipelineOf(e) /\ PipelineOf(d)' = PipelineOf(d)
  BY SamePlaces
<1> QED
  BY <1>1, <1>2 DEF Collected

(* Each reference that a document's loop has passed has its file collected.*)
Followed ==
  \A d \in DocId :
    /\ docs[d].next <= Len(Refs(d)) + 1
    /\ \A i \in 1 .. docs[d].next - 1 :
         Reachable(Refs(d)[i].path) => Collected(d, Refs(d)[i])

LEMMA EnteredCollected ==
  ASSUME TypeOK, Enter, NEW d, d = current, NEW r, r = Ref
  PROVE  Collected(d, r)'
<1>1. PICK new : new = Len(docs) + 1
  OBVIOUS
<1>2. /\ Following /\ new \in DocId'
      /\ docs'[new].file = r.path
      /\ PipelineOf(new)' = IF r.included THEN PipelineOf(d) ELSE new
  BY <1>1, NewPlace
<1>3. PipelineOf(d)' = PipelineOf(d)
  BY <1>2, CurrentTyped, SamePlaces DEF Next
<1> QED
  BY <1>2, <1>3 DEF Collected

LEMMA StepFollowed ==
  ASSUME TypeOK, KnownRight, Followed, [Next]_vars
  PROVE  Followed'
<1>1. ASSUME NEW d \in DocId, NEW i \in Nat, NEW r, r = Refs(d)[i],
             i \in 1 .. docs'[d].next - 1, Reachable(r.path)
      PROVE  Collected(d, r)'
  <2>1. CASE i \in 1 .. docs[d].next - 1
    BY <1>1, <2>1, CollectedStays DEF Followed
  <2>2. CASE i \notin 1 .. docs[d].next - 1
    <3>1. Next
      BY <1>1, <2>2 DEF vars
    <3>2. Following /\ d = current /\ i = docs[d].next
      <4>1. docs'[d].next = IF d = current /\ Following THEN docs[d].next + 1 ELSE docs[d].next
        BY <3>1, StepGrows DEF Grows
      <4>2. docs[d].next \in Nat
        BY DocTyped
      <4> QED
        BY <1>1, <2>2, <4>1, <4>2
    <3>3. r = Ref
      BY <1>1, <3>2 DEF Ref
    <3>4. CASE Stays
      BY <1>1, <3>2, <3>3, <3>4, FollowedCollected, CollectedStays
    <3>5. CASE Enter
      BY <3>2, <3>3, <3>5, EnteredCollected
    <3> QED
      BY <3>1, <3>2, <3>4, <3>5, DocTyped DEF Next, Stays, Return, Following
  <2> QED
    BY <2>1, <2>2
<1>2. ASSUME NEW d \in DocId
      PROVE  docs'[d].next <= Len(Refs(d)) + 1
  <2>1. CASE Next
    <3>1. docs'[d].next = IF d = current /\ Following THEN docs[d].next + 1 ELSE docs[d].next
      BY <2>1, StepGrows DEF Grows
    <3>2. docs[d].next <= Len(Refs(d)) + 1
      BY DEF Followed
    <3>3. d = current /\ Following => docs[d].next <= Len(Refs(d))
      BY DEF Following
    <3> QED
      BY <3>1, <3>2, <3>3, DocTyped
  <2>2. CASE UNCHANGED vars
    BY <2>2 DEF Followed, vars
  <2> QED
    BY <2>1, <2>2
<1>3. ASSUME NEW d \in DocId', d \notin DocId
      PROVE  docs'[d].next = 1 /\ Len(Refs(d)') \in Nat
  <2>1. Enter
    BY <1>3, StayDocs DEF Next, Stays, OneFurther, DocId, Return, vars
  <2>2. d = Len(docs) + 1
    BY <1>3, <2>1, NewPlace
  <2>3. Len(Refs(d)') \in Nat
    <3>1. docs'[d].file \in File
      BY <2>1, <2>2, NewPlace, RefTyped
    <3>2. tree[docs'[d].file].refs \in Seq(Reference)
      BY <3>1 DEF TypeOK, Content
    <3>3. tree' = tree
      BY <2>1, StepGrows DEF Grows, Next
    <3> QED
      BY <3>2, <3>3, LenProperties DEF Refs
  <2> QED
    BY <2>1, <2>2, <2>3, EnterDocs
<1>4. ASSUME NEW d \in DocId'
      PROVE  /\ docs'[d].next <= Len(Refs(d)') + 1
             /\ \A i \in 1 .. docs'[d].next - 1 :
                  Reachable(Refs(d)[i].path)' => Collected(d, Refs(d)[i])'
  <2>1. CASE d \in DocId
    <3>1. Refs(d)' = Refs(d)
      BY <2>1, SamePlaces
    <3>2. ASSUME NEW i \in 1 .. docs'[d].next - 1, Reachable(Refs(d)[i].path)'
          PROVE  Collected(d, Refs(d)[i])'
      <4>1. PICK r : r = Refs(d)[i]
        OBVIOUS
      <4>2. Reachable(r.path)
        BY <3>1, <3>2, <4>1, SameReachable DEF Reachable
      <4>3. Collected(d, r)'
        BY <1>1, <2>1, <3>2, <4>1, <4>2
      <4> QED
        BY <3>1, <4>1, <4>3 DEF Collected
    <3> QED
      BY <1>2, <2>1, <3>1, <3>2
  <2>2. CASE d \notin DocId
    BY <1>3, <2>2
  <2> QED
    BY <2>1, <2>2
<1> QED
  BY <1>4 DEF Followed

(* collect goes depth first: the documents after the current one, and those*)
(* between a document and the one that named it, are finished.  So none is *)
(* left when the first call returns.                                       *)
Finished(d) == docs[d].next > Len(Refs(d))

DepthFirst ==
  \A d \in DocId :
    /\ d > current => Finished(d)
    /\ \A e \in DocId : docs[e].caller < d /\ d < e => Finished(d)

LEMMA FinishedStays ==
  ASSUME TypeOK, [Next]_vars, NEW d \in DocId, Finished(d)
  PROVE  Finished(d)'
<1>1. docs'[d].next \in {docs[d].next, docs[d].next + 1}
  BY StepGrows DEF Grows, vars
<1>2. Refs(d)' = Refs(d) /\ docs[d].next \in Nat /\ Len(Refs(d)) \in Nat
  BY SamePlaces, DocTyped
<1> QED
  BY <1>1, <1>2 DEF Finished

LEMMA StepDepthFirst ==
  ASSUME TypeOK, DepthFirst, [Next]_vars
  PROVE  DepthFirst'
<1>1. ASSUME NEW d \in DocId, NEW e \in DocId, docs'[e].caller < d, d < e
      PROVE  Finished(d)'
  <2>1. docs'[e].caller = docs[e].caller
    BY StepGrows DEF Grows, vars
  <2> QED
    BY <1>1, <2>1, FinishedStays DEF DepthFirst
<1>2. CASE Stays
  <2>1. DocId' = DocId /\ current' = current
    BY <1>2, StayDocs DEF OneFurther, DocId
  <2> QED
    BY <1>1, <2>1, FinishedStays DEF DepthFirst
<1>3. CASE Enter
  <2>1. PICK new : new = Len(docs) + 1
    OBVIOUS
  <2>2. /\ DocId' = DocId \cup {new} /\ current' = new /\ docs'[new].caller = current
        /\ current \in Nat /\ new \in Nat
        /\ \A d \in DocId : d \in Nat /\ d < new
    <3>1. DocId' = DocId \cup {new} /\ Following
      BY <1>3, <2>1, NewPlace
    <3>2. current' = new /\ docs'[new].caller = current
      BY <1>3, <2>1, EnterDocs DEF Enter
    <3>3. current \in Nat /\ Len(docs) \in Nat
      BY <3>1, CurrentTyped, DocTyped
    <3> QED
      BY <2>1, <3>1, <3>2, <3>3 DEF DocId
  <2>3. ASSUME NEW d \in DocId', d > current'
        PROVE  FALSE
    BY <2>2, <2>3
  <2>4. ASSUME NEW d \in DocId', NEW e \in DocId', docs'[e].caller < d, d < e
        PROVE  Finished(d)'
    <3>1. d \in DocId
      BY <2>2, <2>4
    <3>2. CASE e = new
      BY <2>2, <2>4, <3>1, <3>2, FinishedStays DEF DepthFirst
    <3> QED
      BY <1>1, <2>2, <2>4, <3>1, <3>2
  <2> QED
    BY <2>3, <2>4 DEF DepthFirst
<1>4. CASE Return
  <2>1. DocId' = DocId /\ current' = docs[current].caller /\ Finished(current)
    BY <1>4 DEF Return, DocId, Finished
  <2>2. current \in DocId
    BY <1>4, DocTyped DEF Return, TypeOK, DocId
  <2>3. ASSUME NEW d \in DocId, d > current'
        PROVE  Finished(d)'
    <3>1. d < current \/ d = current \/ d > current
      <4>1. d \in Nat /\ current \in Nat
        BY <2>2, DocTyped
      <4> QED
        BY <4>1
    <3>2. Finished(d)
      BY <2>1, <2>2, <2>3, <3>1 DEF DepthFirst
    <3> QED
      BY <3>2, FinishedStays
  <2> QED
    BY <1>1, <2>1, <2>3 DEF DepthFirst
<1>5. CASE UNCHANGED vars
  BY <1>1, <1>5, FinishedStays DEF DepthFirst, vars, DocId
<1> QED
  BY <1>2, <1>3, <1>4, <1>5 DEF Next, Stays

LEMMA FollowedAlways == Spec => [](Followed /\ DepthFirst)
<1>1. Init => Followed /\ DepthFirst
  <2> SUFFICES ASSUME Init
               PROVE  Followed /\ DepthFirst
    OBVIOUS
  <2>1. Len(Refs(1)) \in Nat /\ current = 1
    BY InitTypeOK, InitRoot, DocTyped DEF Init, Start
  <2> QED
    BY <2>1, InitRoot DEF Followed, DepthFirst
<1>2. TypeOK /\ KnownRight /\ Followed /\ [Next]_vars => Followed'
  BY StepFollowed
<1>3. TypeOK /\ DepthFirst /\ [Next]_vars => DepthFirst'
  BY StepDepthFirst
<1> QED
  BY <1>1, <1>2, <1>3, TypeCorrect, KnownRightAlways, PTL DEF Spec

(* When collect returns, every file that a collected file asks for, in     *)
(* every pipeline, has been collected if it can be.                        *)
THEOREM CollectedComplete == Spec => []Complete
<1>1. TypeOK /\ Followed /\ DepthFirst => Complete
  <2> SUFFICES ASSUME TypeOK, Followed, DepthFirst, Done,
                      NEW d \in DocId, NEW i \in DOMAIN Refs(d),
                      Reachable(Refs(d)[i].path)
               PROVE  Collected(d, Refs(d)[i])
    BY DEF Complete
  <2>1. Finished(d)
    BY DocTyped DEF Done, DepthFirst
  <2>2. i \in 1 .. docs[d].next - 1
    BY <2>1, DocTyped DEF Finished
  <2> QED
    BY <2>2 DEF Followed
<1> QED
  BY <1>1, FollowedAlways, TypeCorrect, PTL

-----------------------------------------------------------------------------
(* What is reported of the files that can't be used. *)

LEMMA SameNeeded ==
  ASSUME TypeOK, [Next]_vars
  PROVE  /\ \A f : Needed(f) => Needed(f)'
         /\ \A f : NeededBySome(f) => NeededBySome(f)'
<1>1. tree' = tree
  BY StepGrows DEF Grows, vars
<1> QED
  BY <1>1 DEF Needed, NeededBySome, ClosedUnderNeed, Reachable

(* A document that is not optional is one that the pipeline needs.         *)
NeedRight == \A d \in DocId : ~docs[d].optional => Needed(docs[d].file)

LEMMA StepNeedRight ==
  ASSUME TypeOK, NeedRight, [Next]_vars
  PROVE  NeedRight'
<1>1. ASSUME NEW d \in DocId, ~docs'[d].optional
      PROVE  Needed(docs[d].file)'
  <2>1. PICK f : f = docs[d].file
    OBVIOUS
  <2>2. docs'[d].file = f /\ docs'[d].optional = docs[d].optional
    BY <2>1, SamePlaces
  <2>3. Needed(f)'
    BY <1>1, <2>1, <2>2, SameNeeded DEF NeedRight
  <2> QED
    BY <2>2, <2>3 DEF Needed
<1>2. ASSUME NEW d \in DocId', d \notin DocId, ~docs'[d].optional
      PROVE  Needed(docs[d].file)'
  <2>1. Enter
    BY <1>2, StayDocs DEF Next, Stays, OneFurther, DocId, Return, vars
  <2>2. d = Len(docs) + 1 /\ Following
    BY <1>2, <2>1, NewPlace
  <2>3. docs'[d].file = Ref.path /\ docs'[d].optional = BelowOptional(Ref)
    BY <2>1, <2>2, EnterDocs
  <2>4. ~docs[current].optional /\ ~Ref.rules
    BY <1>2, <2>3 DEF BelowOptional
  <2>5. Needed(docs[current].file)
    BY <2>2, <2>4, CurrentTyped DEF NeedRight
  <2>6. Reachable(Ref.path)
    BY <2>1 DEF Enter, MayRead, Reachable
  <2>7. PICK f : f = Ref.path
    OBVIOUS
  <2>8. Needed(f)
    <3>1. PICK i \in DOMAIN tree[docs[current].file].refs : Ref = tree[docs[current].file].refs[i]
      BY <2>2, CurrentTyped, DocTyped DEF Ref, Refs
    <3> SUFFICES ASSUME NEW S \in SUBSET File, Root \in S, ClosedUnderNeed(S)
                 PROVE  f \in S
      BY DEF Needed
    <3>2. docs[current].file \in S
      BY <2>5 DEF Needed
    <3> QED
      BY <2>4, <2>6, <2>7, <3>1, <3>2 DEF ClosedUnderNeed
  <2>9. Needed(f)'
    BY <2>8, SameNeeded
  <2> QED
    BY <2>3, <2>7, <2>9 DEF Needed
<1> QED
  BY <1>1, <1>2 DEF NeedRight

LEMMA StepNoFalseError ==
  ASSUME TypeOK, NeedRight, NoFalseError, [Next]_vars
  PROVE  NoFalseError'
<1>1. CASE unread' = unread
  <2> SUFFICES ASSUME NEW i \in DOMAIN unread', ~unread'[i].optional
               PROVE  NeededBySome(unread[i].file)'
    BY DEF NoFalseError
  <2>1. PICK f : f = unread[i].file
    OBVIOUS
  <2>2. NeededBySome(f)'
    BY <1>1, <2>1, SameNeeded DEF NoFalseError
  <2> QED
    BY <1>1, <2>1, <2>2 DEF NeededBySome
<1>2. CASE Unreadable /\ unread' # unread
  <2> DEFINE one == [file |-> Ref.path, optional |-> Optional(Ref)]
  <2>1. Following /\ unread' = Append(unread, one)
    BY <1>2 DEF Unreadable
  <2>2. one.file = Ref.path /\ one.optional = Optional(Ref)
    OBVIOUS
  <2> HIDE DEF one
  <2>3. ~one.optional => NeededBySome(one.file)
    <3> SUFFICES ASSUME ~Optional(Ref)
                 PROVE  NeededBySome(Ref.path)
      BY <2>2
    <3>1. ~docs[current].optional /\ ~Ref.rules /\ ~Ref.guess
      BY DEF Optional, BelowOptional
    <3>2. Needed(docs[current].file) /\ docs[current].file \in File
      BY <2>1, <3>1, CurrentTyped, DocTyped DEF NeedRight
    <3>3. PICK i \in DOMAIN tree[docs[current].file].refs : Ref = tree[docs[current].file].refs[i]
      BY <2>1, CurrentTyped, DocTyped DEF Ref, Refs
    <3> QED
      BY <3>1, <3>2, <3>3 DEF NeededBySome
  <2>4. DOMAIN unread' = 1 .. Len(unread) + 1 /\ DOMAIN unread = 1 .. Len(unread)
        /\ Len(unread) \in Nat
        /\ unread'[Len(unread) + 1] = one
        /\ \A i \in 1 .. Len(unread) : unread'[i] = unread[i]
    BY <2>1 DEF TypeOK
  <2>5. ASSUME NEW i \in DOMAIN unread', ~unread'[i].optional
        PROVE  NeededBySome(unread[i].file)'
    <3>1. PICK f : f = unread'[i].file
      OBVIOUS
    <3>2. NeededBySome(f)
      BY <2>3, <2>4, <2>5, <3>1 DEF NoFalseError
    <3>3. NeededBySome(f)'
      BY <3>2, SameNeeded
    <3> QED
      BY <3>1, <3>3 DEF NeededBySome
  <2> QED
    BY <2>5 DEF NoFalseError
<1> QED
  BY <1>1, <1>2 DEF Next, SkipExcluded, IncludeAgain, TriggerAgain, LeaveOutside, Enter, Return, vars

(* --strict never fails a run for a file that the pipeline can do without. *)
THEOREM ErrorsNeeded == Spec => []NoFalseError
<1>1. Init => NeedRight /\ NoFalseError
  <2>1. Init => Needed(Root)
    BY DEF Needed
  <2> QED
    BY <2>1, InitRoot DEF NeedRight, NoFalseError, Init, Start
<1>2. TypeOK /\ NeedRight /\ [Next]_vars => NeedRight'
  BY StepNeedRight
<1>3. TypeOK /\ NeedRight /\ NoFalseError /\ [Next]_vars => NoFalseError'
  BY StepNoFalseError
<1> QED
  BY <1>1, <1>2, <1>3, TypeCorrect, PTL DEF Spec

(* parsed is the memory of what has been reported.                         *)
ReportsRight ==
  /\ \A i, j \in DOMAIN unread : unread[i].file = unread[j].file => i = j
  /\ \A f \in File :
       /\ parsed[f] = "nil" <=> \E i \in DOMAIN unread : unread[i].file = f
       /\ parsed[f] = "usable" => tree[f].usable
       /\ parsed[f] = "nil" => ~tree[f].usable

(* A file that can't be used, but would be read, and that a pipeline has   *)
(* written down or a loop has passed, has been reported.                   *)
Unusable(f) == MayRead(f) /\ ~tree[f].usable

PassedReported ==
  /\ \A p \in DocId, f \in File :
       members[p][f] # Absent /\ Unusable(f) => parsed[f] = "nil"
  /\ \A f \in children : Unusable(f) => parsed[f] = "nil"
  /\ \A d \in DocId : \A i \in 1 .. docs[d].next - 1 :
       Unusable(Refs(d)[i].path) => parsed[Refs(d)[i].path] = "nil"

LEMMA StepReportsRight ==
  ASSUME TypeOK, ReportsRight, [Next]_vars
  PROVE  ReportsRight'
<1>1. CASE parsed' = parsed /\ unread' = unread
  <2>1. tree' = tree
    BY StepGrows DEF Grows, vars
  <2> QED
    BY <1>1, <2>1 DEF ReportsRight
<1>2. CASE Unreadable /\ FirstRead(Ref.path)
  <2> DEFINE one == [file |-> Ref.path, optional |-> Optional(Ref)]
  <2>1. /\ Following /\ unread' = Append(unread, one)
        /\ parsed' = [parsed EXCEPT ![Ref.path] = "nil"]
        /\ tree' = tree
    BY <1>2 DEF Unreadable
  <2>2. one.file = Ref.path /\ Ref.path \in File
    BY <2>1, RefTyped
  <2> HIDE DEF one
  <2>3. DOMAIN unread' = 1 .. Len(unread) + 1 /\ DOMAIN unread = 1 .. Len(unread)
        /\ Len(unread) \in Nat
        /\ unread'[Len(unread) + 1] = one
        /\ \A i \in 1 .. Len(unread) : unread'[i] = unread[i]
    BY <2>1 DEF TypeOK
  <2>4. \A i \in DOMAIN unread : unread[i].file # Ref.path
    BY <1>2, <2>2 DEF FirstRead, ReportsRight
  <2>5. ASSUME NEW i \in DOMAIN unread', NEW j \in DOMAIN unread',
               unread'[i].file = unread'[j].file
        PROVE  i = j
    BY <2>2, <2>3, <2>4, <2>5 DEF ReportsRight
  <2>6. ASSUME NEW f \in File
        PROVE  /\ parsed'[f] = "nil" <=> \E i \in DOMAIN unread' : unread'[i].file = f
               /\ parsed'[f] = "usable" => tree'[f].usable
               /\ parsed'[f] = "nil" => ~tree'[f].usable
    <3>1. CASE f = Ref.path
      <4>1. parsed'[f] = "nil"
        BY <2>1, <2>2, <3>1 DEF TypeOK
      <4>2. Len(unread) + 1 \in DOMAIN unread' /\ unread'[Len(unread) + 1].file = f
        BY <2>2, <2>3, <3>1
      <4>3. ~tree[f].usable
        BY <1>2, <3>1 DEF Unreadable
      <4> QED
        BY <2>1, <4>1, <4>2, <4>3
    <3>2. CASE f # Ref.path
      <4>1. parsed'[f] = parsed[f]
        BY <2>1, <3>2 DEF TypeOK
      <4>2. (\E i \in DOMAIN unread' : unread'[i].file = f)
              <=> (\E i \in DOMAIN unread : unread[i].file = f)
        BY <2>2, <2>3, <3>2
      <4> QED
        BY <2>1, <4>1, <4>2 DEF ReportsRight
    <3> QED
      BY <3>1, <3>2
  <2> QED
    BY <2>5, <2>6 DEF ReportsRight
<1>3. CASE Enter
  <2>1. /\ Following /\ unread' = unread /\ tree' = tree /\ tree[Ref.path].usable
        /\ parsed' = [parsed EXCEPT ![Ref.path] = "usable"]
    BY <1>3 DEF Enter
  <2>2. parsed[Ref.path] # "nil" /\ Ref.path \in File
    BY <2>1, RefTyped DEF ReportsRight
  <2>3. \A f \in File : parsed'[f] = IF f = Ref.path THEN "usable" ELSE parsed[f]
    BY <2>1, <2>2 DEF TypeOK
  <2>4. ASSUME NEW f \in File
        PROVE  /\ parsed'[f] = "nil" <=> parsed[f] = "nil"
               /\ parsed'[f] = "usable" => tree[f].usable
               /\ parsed'[f] = "nil" => ~tree[f].usable
    BY <2>1, <2>2, <2>3 DEF ReportsRight
  <2> QED
    BY <2>1, <2>4 DEF ReportsRight
<1> QED
  BY <1>1, <1>2, <1>3
  DEF Next, SkipExcluded, IncludeAgain, TriggerAgain, LeaveOutside, Unreadable, Return, vars

(* A step remembers what was reported, and reports what it passes.         *)
LEMMA ReportStays ==
  ASSUME TypeOK, ReportsRight, [Next]_vars
  PROVE  \A f \in File : parsed[f] = "nil" => parsed'[f] = "nil"
<1>1. CASE Enter
  <2>1. Following /\ tree[Ref.path].usable /\ parsed' = [parsed EXCEPT ![Ref.path] = "usable"]
    BY <1>1 DEF Enter
  <2> QED
    BY <2>1, RefTyped DEF ReportsRight, TypeOK
<1>2. CASE Unreadable
  BY <1>2, RefTyped DEF Unreadable, TypeOK
<1>3. CASE ~Enter /\ ~Unreadable
  BY <1>3 DEF Next, SkipExcluded, IncludeAgain, TriggerAgain, LeaveOutside, Return, vars
<1> QED
  BY <1>1, <1>2, <1>3

LEMMA PassedNow ==
  ASSUME TypeOK, ReportsRight, PassedReported, Stays, Unusable(Ref.path)
  PROVE  parsed'[Ref.path] = "nil"
<1>1. /\ Following /\ Ref.path \in File /\ Ref.included \in BOOLEAN
      /\ PipelineOf(current) \in DocId
  BY StayDocs, RefTyped, CurrentTyped, DocTyped
<1>2. CASE Unreadable
  <2>1. CASE FirstRead(Ref.path)
    BY <1>1, <1>2, <2>1 DEF Unreadable, TypeOK
  <2>2. CASE ~FirstRead(Ref.path)
    BY <1>1, <1>2, <2>2 DEF Unreadable, FirstRead, ReportsRight, TypeOK
  <2> QED
    BY <2>1, <2>2
<1>3. CASE IncludeAgain \/ TriggerAgain
  <2>1. Known(Ref) /\ parsed' = parsed
    BY <1>3 DEF IncludeAgain, TriggerAgain
  <2> QED
    BY <1>1, <2>1 DEF Known, PassedReported
<1>4. CASE SkipExcluded \/ LeaveOutside
  BY <1>4 DEF SkipExcluded, LeaveOutside, Unusable, MayRead
<1> QED
  BY <1>2, <1>3, <1>4 DEF Stays

LEMMA StepPassedReported ==
  ASSUME TypeOK, KnownRight, Followed, ReportsRight, PassedReported, [Next]_vars
  PROVE  PassedReported'
<1>1. \A f : Unusable(f)' <=> Unusable(f)
  BY StepGrows DEF Unusable, Grows, vars
<1>2. ASSUME Enter
      PROVE  Following /\ ~Unusable(Ref.path)
  BY <1>2 DEF Enter, Unusable
<1>3. ASSUME NEW p \in DocId, NEW f \in File, members'[p][f] # Absent, Unusable(f)
      PROVE  parsed'[f] = "nil"
  <2>1. CASE members[p][f] # Absent
    BY <1>3, <2>1, ReportStays DEF PassedReported
  <2>2. CASE Stays /\ f = Ref.path
    BY <1>3, <2>2, PassedNow
  <2>3. CASE members[p][f] = Absent /\ ~(Stays /\ f = Ref.path)
    <3>1. CASE Enter
      BY <1>2, <1>3, <2>3, <3>1, EnterMembers
    <3>2. CASE Stays
      BY <1>3, <2>3, <3>2, StayMembers
    <3> QED
      BY <1>3, <2>3, <3>1, <3>2 DEF Next, Stays, Return, vars
  <2> QED
    BY <2>1, <2>2, <2>3
<1>4. ASSUME NEW p \in DocId', p \notin DocId, NEW f \in File, members'[p][f] # Absent
      PROVE  ~Unusable(f)
  <2>1. Enter
    BY <1>4, StayDocs DEF Next, Stays, OneFurther, DocId, Return, vars
  <2>2. p = Len(docs) + 1
    BY <1>4, <2>1, NewPlace
  <2> QED
    BY <1>2, <1>4, <2>1, <2>2, EnterMembers
<1>5. ASSUME NEW f \in children', Unusable(f)
      PROVE  parsed'[f] = "nil"
  <2>0. children \subseteq File
    BY DEF TypeOK
  <2>1. CASE f \in children
    BY <1>5, <2>0, <2>1, ReportStays DEF PassedReported
  <2>2. CASE f \notin children
    <3>1. CASE Stays
      BY <1>5, <2>2, <3>1, StayMembers, PassedNow
    <3>2. CASE Enter
      BY <1>2, <1>5, <2>2, <3>2, EnterMembers
    <3> QED
      BY <1>5, <2>2, <3>1, <3>2 DEF Next, Stays, Return, vars
  <2> QED
    BY <2>1, <2>2
<1>6. ASSUME NEW d \in DocId, NEW i \in 1 .. docs'[d].next - 1, NEW f,
             f = Refs(d)[i].path, f \in File, Unusable(f)
      PROVE  parsed'[f] = "nil"
  <2>1. CASE i \in 1 .. docs[d].next - 1
    BY <1>6, <2>1, ReportStays DEF PassedReported
  <2>2. CASE i \notin 1 .. docs[d].next - 1
    <3>1. Next
      BY <1>6, <2>2 DEF vars
    <3>2. Following /\ f = Ref.path
      <4>1. docs'[d].next = IF d = current /\ Following THEN docs[d].next + 1 ELSE docs[d].next
        BY <3>1, StepGrows DEF Grows
      <4>2. docs[d].next \in Nat
        BY DocTyped
      <4>3. d = current /\ Following /\ i = docs[d].next
        BY <1>6, <2>2, <4>1, <4>2
      <4> QED
        BY <1>6, <4>3 DEF Ref
    <3>3. CASE Stays
      BY <1>6, <3>2, <3>3, PassedNow
    <3>4. CASE Enter
      BY <1>2, <1>6, <3>2, <3>4
    <3>5. ~Return
      BY <3>2, CurrentTyped, DocTyped DEF Return
    <3> QED
      BY <3>1, <3>3, <3>4, <3>5 DEF Next, Stays
  <2> QED
    BY <2>1, <2>2
<1>7. ASSUME NEW d \in DocId', NEW i \in 1 .. docs'[d].next - 1, Unusable(Refs(d)[i].path)'
      PROVE  parsed'[Refs(d)'[i].path] = "nil"
  <2>1. d \in DocId
    <3>1. CASE Enter
      <4>1. d \in DocId \/ d = Len(docs) + 1
        BY <3>1, NewPlace
      <4>2. docs'[Len(docs) + 1].next = 1
        BY <3>1, EnterDocs
      <4> QED
        BY <1>7, <4>1, <4>2
    <3> QED
      BY <3>1, StayDocs DEF Next, Stays, OneFurther, DocId, Return, vars
  <2>2. PICK f : f = Refs(d)[i].path
    OBVIOUS
  <2>3. Refs(d)' = Refs(d)
    BY <2>1, SamePlaces
  <2>4. Unusable(f)
    BY <1>1, <1>7, <2>2, <2>3 DEF Unusable
  <2>5. f \in File
    <3>1. docs'[d].next <= Len(Refs(d)') + 1 /\ docs'[d].next \in Nat
      <4>1. Followed'
        BY StepFollowed
      <4>2. docs'[d].next \in {docs[d].next, docs[d].next + 1}
        BY <2>1, StepGrows DEF Grows, vars
      <4>3. docs[d].next \in Nat
        BY <2>1, DocTyped
      <4> QED
        BY <1>7, <4>1, <4>2, <4>3 DEF Followed
    <3>2. i \in 1 .. Len(Refs(d)) /\ Refs(d) \in Seq(Reference)
      BY <1>7, <2>1, <2>3, <3>1, DocTyped
    <3>3. Refs(d)[i] \in Reference
      BY <3>2, ElementOfSeq
    <3> QED
      BY <2>2, <3>3 DEF Reference
  <2> QED
    BY <1>6, <2>1, <2>2, <2>3, <2>4, <2>5
<1> QED
  BY <1>1, <1>3, <1>4, <1>5, <1>7 DEF PassedReported

(* Each file that can't be used and that a collected file names is         *)
(* reported exactly once.                                                  *)
THEOREM ReportedOnce == Spec => []UnreadReportedOnce
<1>1. Init => ReportsRight /\ PassedReported
  <2> SUFFICES ASSUME Init
               PROVE  ReportsRight /\ PassedReported
    OBVIOUS
  <2>1. /\ parsed = [f \in File |-> "unknown"] /\ unread = << >> /\ children = {Root}
        /\ ~Unusable(Root)
    BY ConstantsAssumption DEF Init, Start, Unusable
  <2> QED
    BY <2>1, InitRoot DEF ReportsRight, PassedReported
<1>2. TypeOK /\ ReportsRight /\ [Next]_vars => ReportsRight'
  BY StepReportsRight
<1>3. TypeOK /\ KnownRight /\ Followed /\ ReportsRight /\ PassedReported /\ [Next]_vars
        => PassedReported'
  BY StepPassedReported
<1>4. TypeOK /\ DepthFirst /\ ReportsRight /\ PassedReported => UnreadReportedOnce
  <2> SUFFICES ASSUME TypeOK, DepthFirst, ReportsRight, PassedReported, Done,
                      NEW f \in File \ (Outside \cup Excluded), ~tree[f].usable,
                      NEW d \in DocId, NEW n \in DOMAIN Refs(d), Refs(d)[n].path = f
               PROVE  \E i \in {j \in DOMAIN unread : unread[j].file = f} :
                        {j \in DOMAIN unread : unread[j].file = f} = {i}
    BY DEF UnreadReportedOnce
  <2>1. n \in 1 .. docs[d].next - 1
    <3>1. Finished(d)
      BY DocTyped DEF Done, DepthFirst
    <3> QED
      BY <3>1, DocTyped DEF Finished
  <2>2. parsed[f] = "nil"
    BY <2>1 DEF PassedReported, Unusable, MayRead
  <2>3. PICK i \in DOMAIN unread : unread[i].file = f
    BY <2>2 DEF ReportsRight
  <2>4. {j \in DOMAIN unread : unread[j].file = f} = {i}
    BY <2>3 DEF ReportsRight
  <2> QED
    BY <2>3, <2>4
<1> QED
  BY <1>1, <1>2, <1>3, <1>4, FollowedAlways, TypeCorrect, KnownRightAlways, PTL DEF Spec

-----------------------------------------------------------------------------
(* Includes. *)

(* The includes of the documents after one reference of current.           *)
LEMMA AdvancedIncludes ==
  ASSUME TypeOK, Following
  PROVE  \A d \in DocId :
           /\ Advanced[d].includes = docs[d].includes
           /\ \A k \in Nat : AdvancedWith(k)[d].includes =
                IF d = current THEN Append(docs[d].includes, k) ELSE docs[d].includes
<1>1. current \in DocId /\ docs \in Seq(Document) /\ \A d \in DocId : docs[d] \in Document
  BY CurrentTyped, DocTyped
<1> SUFFICES ASSUME NEW d \in DocId
             PROVE  /\ Advanced[d].includes = docs[d].includes
                    /\ \A k \in Nat : AdvancedWith(k)[d].includes =
                         IF d = current THEN Append(docs[d].includes, k) ELSE docs[d].includes
  OBVIOUS
<1>2. d \in DOMAIN docs /\ current \in DOMAIN docs
  BY <1>1 DEF DocId
<1>3. Advanced[d] = IF d = current THEN [docs[d] EXCEPT !.next = @ + 1] ELSE docs[d]
  BY <1>2 DEF Advanced
<1>4. \A k \in Nat : AdvancedWith(k)[d] =
        IF d = current THEN [docs[d] EXCEPT !.next = @ + 1, !.includes = Append(@, k)] ELSE docs[d]
  BY <1>2 DEF AdvancedWith
<1>5. /\ [docs[d] EXCEPT !.next = @ + 1].includes = docs[d].includes
      /\ \A k \in Nat : [docs[d] EXCEPT !.next = @ + 1, !.includes = Append(@, k)].includes =
                          Append(docs[d].includes, k)
  BY <1>1 DEF Document
<1> QED
  BY <1>3, <1>4, <1>5

(* Whether a reference of a document counts does not change.               *)
Counts(d, r) == r.included /\ Reachable(r.path) /\ r.path # docs[PipelineOf(d)].file

LEMMA SameCounts ==
  ASSUME TypeOK, [Next]_vars, NEW d \in DocId
  PROVE  /\ \A r : Counts(d, r)' <=> Counts(d, r)
         /\ \A n : Merged(d, n)' = Merged(d, n)
<1>1. \A f : Reachable(f)' <=> Reachable(f)
  BY SameReachable
<1>2. Refs(d)' = Refs(d) /\ docs'[PipelineOf(d)'].file = docs[PipelineOf(d)].file
  <2>1. PipelineOf(d) \in DocId
    BY DocTyped
  <2> QED
    BY <2>1, SamePlaces
<1> QED
  BY <1>1, <1>2 DEF Counts, Merged

LEMMA MergedNumbers ==
  ASSUME TypeOK, NEW d \in DocId, NEW n \in Nat
  PROVE  /\ IsFiniteSet(Merged(d, n)) /\ Cardinality(Merged(d, n)) \in Nat
         /\ Merged(d, 0) = {}
         /\ Counts(d, Refs(d)[n + 1]) =>
              /\ Merged(d, n + 1) = Merged(d, n) \cup {n + 1}
              /\ Cardinality(Merged(d, n + 1)) = Cardinality(Merged(d, n)) + 1
         /\ ~Counts(d, Refs(d)[n + 1]) => Merged(d, n + 1) = Merged(d, n)
         /\ \A i \in Merged(d, n) :
              Cardinality(Merged(d, i)) \in 1 .. Cardinality(Merged(d, n))
<1>1. ASSUME NEW m \in Nat
      PROVE  IsFiniteSet(Merged(d, m)) /\ Cardinality(Merged(d, m)) \in Nat
  <2>1. IsFiniteSet(1 .. m)
    BY FS_Interval
  <2>2. Merged(d, m) \subseteq 1 .. m
    BY DEF Merged
  <2> QED
    BY <2>1, <2>2, FS_Subset, FS_CardinalityType
<1>2. Merged(d, 0) = {}
  BY DEF Merged
<1>3. \A i : i \in 1 .. n + 1 <=> i \in 1 .. n \/ i = n + 1
  OBVIOUS
<1>4. Merged(d, n + 1) = IF Counts(d, Refs(d)[n + 1]) THEN Merged(d, n) \cup {n + 1} ELSE Merged(d, n)
  BY <1>3 DEF Merged, Counts
<1>5. n + 1 \notin Merged(d, n)
  BY DEF Merged
<1>6. Cardinality(Merged(d, n) \cup {n + 1}) = Cardinality(Merged(d, n)) + 1
  BY <1>1, <1>5, FS_AddElement
<1>7. ASSUME NEW i \in Merged(d, n)
      PROVE  Cardinality(Merged(d, i)) \in 1 .. Cardinality(Merged(d, n))
  <2>1. i \in 1 .. n
    BY DEF Merged
  <2>2. 1 .. i \subseteq 1 .. n /\ i \in 1 .. i /\ i \in Nat
    BY <2>1
  <2>3. Merged(d, i) \subseteq Merged(d, n) /\ i \in Merged(d, i)
    BY <2>2 DEF Merged
  <2>4. Cardinality(Merged(d, i)) <= Cardinality(Merged(d, n))
    BY <1>1, <2>3, FS_Subset
  <2>5. Cardinality(Merged(d, i)) # 0
    BY <1>1, <2>2, <2>3, FS_EmptySet
  <2> QED
    BY <1>1, <2>2, <2>4, <2>5
<1> QED
  BY <1>1, <1>2, <1>4, <1>6, <1>7

(* What follow makes of one reference of current. *)
LEMMA FollowedIncludes ==
  ASSUME TypeOK, PlacesRight, KnownRight, Justified, Next, Following,
         NEW c, c = current, NEW r, r = Ref
  PROVE  IF Counts(c, r)
         THEN \E e \in DocId' :
                /\ docs'[c].includes = Append(docs[c].includes, e)
                /\ docs'[e].file = r.path /\ PipelineOf(e)' = PipelineOf(c)
         ELSE docs'[c].includes = docs[c].includes
<1> DEFINE p == PipelineOf(c)
<1>1. c \in DocId /\ p \in DocId /\ r.path \in File /\ r.included \in BOOLEAN
  BY CurrentTyped, DocTyped, RefTyped
<1>2. docs[p].pipeline = NoDoc /\ PipelineOf(p) = p
  BY <1>1 DEF PlacesRight, PipelineOf
<1>3. Advanced[c].includes = docs[c].includes
  BY <1>1, AdvancedIncludes
<1>4. CASE SkipExcluded \/ LeaveOutside \/ Unreadable
  <2>1. docs' = Advanced /\ ~Reachable(r.path)
    BY <1>4 DEF SkipExcluded, LeaveOutside, Unreadable, Reachable
  <2> QED
    BY <1>3, <2>1 DEF Counts
<1>5. CASE TriggerAgain
  BY <1>3, <1>5 DEF TriggerAgain, Counts
<1>6. CASE IncludeAgain
  <2>1. members[p][r.path] \in Absent .. Len(docs)
    BY <1>1 DEF TypeOK
  <2>2. PICK e \in Absent .. Len(docs) : e = members[p][r.path]
    BY <2>1
  <2>3. r.included /\ e # Absent
    BY <1>6, <2>2 DEF IncludeAgain, Known
  <2>4. docs' = IF MergedAgain(e) THEN AdvancedWith(e) ELSE Advanced
    BY <1>6, <2>2 DEF IncludeAgain
  <2>5. CASE e = NoDoc
    <3>1. ~Reachable(r.path)
      BY <1>1, <2>2, <2>5 DEF KnownRight
    <3>2. ~MergedAgain(e)
      BY <2>5 DEF MergedAgain
    <3> QED
      BY <1>3, <2>4, <3>1, <3>2 DEF Counts
  <2>6. CASE e # NoDoc
    <3>1. e \in DocId /\ e \in Nat
      <4>1. Len(docs) \in Nat
        BY DocTyped
      <4> QED
        BY <2>3, <2>6, <4>1 DEF DocId
    <3>2. docs[e].file = r.path /\ PipelineOf(e) = p
      <4>1. \A q \in DocId, f \in File : members[q][f] = e => docs[e].file = f /\ PipelineOf(e) = q
        BY <3>1 DEF KnownRight
      <4> HIDE DEF p
      <4> QED
        BY <1>1, <2>2, <4>1
    <3>3. PipelineOf(e) = IF docs[e].pipeline = NoDoc THEN e ELSE docs[e].pipeline
      BY DEF PipelineOf
    <3>4. MergedAgain(e) <=> docs[e].pipeline = p
      BY <2>6 DEF MergedAgain
    <3>5. p # NoDoc
      BY <1>1, DocTyped
    <3>6. CASE docs[e].pipeline = NoDoc
      <4>1. e = p /\ docs[p].file = r.path
        BY <3>2, <3>3, <3>6
      <4>2. ~MergedAgain(e) /\ ~Counts(c, r)
        BY <3>4, <3>5, <3>6, <4>1 DEF Counts
      <4> QED
        BY <1>3, <2>4, <4>2
    <3>7. CASE docs[e].pipeline # NoDoc
      <4>1. MergedAgain(e)
        BY <3>2, <3>3, <3>4, <3>7
      <4>2. docs'[c].includes = Append(docs[c].includes, e)
        BY <1>1, <2>4, <3>1, <4>1, AdvancedIncludes
      <4>3. e # 1
        <5>1. docs[e].pipeline \in 0 .. e - 1
          BY <3>1, DocTyped
        <5> QED
          BY <3>7, <5>1
      <4>4. Reachable(r.path)
        BY <3>1, <3>2, <4>3 DEF Justified
      <4>5. r.path # docs[p].file
        <5>1. members[p][docs[p].file] = p
          BY <1>1, <1>2 DEF PlacesRight
        <5>2. members[p][docs[e].file] = e
          BY <3>1, <3>2 DEF PlacesRight
        <5> QED
          BY <1>2, <3>2, <3>7, <5>1, <5>2
      <4>6. Counts(c, r)
        BY <2>3, <4>4, <4>5 DEF Counts
      <4>7. e \in DocId' /\ docs'[e].file = docs[e].file /\ PipelineOf(e)' = PipelineOf(e)
        BY <3>1, SamePlaces
      <4>8. docs'[e].file = r.path /\ PipelineOf(e)' = p
        BY <3>2, <4>7
      <4> QED
        BY <4>2, <4>6, <4>7, <4>8
    <3> QED
      BY <3>6, <3>7
  <2> QED
    BY <2>5, <2>6
<1>7. CASE Enter
  <2>1. PICK new : new = Len(docs) + 1
    OBVIOUS
  <2>2. /\ new \in DocId' /\ new \in Nat
        /\ docs'[new].file = r.path
        /\ PipelineOf(new)' = IF r.included THEN p ELSE new
    BY <1>7, <2>1, NewPlace
  <2>3. docs \in Seq(Document) /\ Len(docs) \in Nat
    BY DocTyped
  <2>4. PICK doc \in Document :
          docs' = IF r.included THEN Append(AdvancedWith(new), doc) ELSE Append(Advanced, doc)
    <3> DEFINE x == [file     |-> r.path,
                     pipeline |-> IF r.included THEN p ELSE NoDoc,
                     caller   |-> current,
                     optional |-> BelowOptional(r),
                     next     |-> 1,
                     includes |-> << >>]
    <3>1. docs' = IF r.included THEN Append(AdvancedWith(new), x) ELSE Append(Advanced, x)
      BY <1>7, <2>1 DEF Enter
    <3>2. x \in Document
      <4>1. BelowOptional(r) \in BOOLEAN
        BY <1>1, RefTyped, DocTyped DEF BelowOptional
      <4>2. p \in Nat /\ current \in Nat
        BY <1>1 DEF DocId
      <4>3. x.includes \in Seq(Nat)
        BY EmptySeq
      <4>4. (IF r.included THEN p ELSE NoDoc) \in Nat
        BY <4>2
      <4> QED
        BY <1>1, <4>1, <4>2, <4>3, <4>4 DEF Document
    <3> QED
      BY <3>1, <3>2
  <2>5. /\ Advanced \in Seq(Document) /\ Len(Advanced) = Len(docs)
        /\ AdvancedWith(new) \in Seq(Document) /\ Len(AdvancedWith(new)) = Len(docs)
    BY <2>2, AdvanceIsOneFurther DEF OneFurther
  <2>6. docs'[c] = IF r.included THEN AdvancedWith(new)[c] ELSE Advanced[c]
    BY <1>1, <2>4, <2>5, AppendProperties DEF DocId
  <2>7. docs'[c].includes = IF r.included THEN Append(docs[c].includes, new) ELSE docs[c].includes
    BY <1>1, <2>2, <2>6, AdvancedIncludes
  <2>8. r.included => Counts(c, r)
    <3>1. members[p][docs[p].file] = p
      BY <1>1, <1>2 DEF PlacesRight
    <3>2. r.included => members[p][r.path] = Absent
      BY <1>7 DEF Enter, Known
    <3>3. p # Absent
      <4>1. p \in Nat
        BY <1>1, DocTyped
      <4> QED
        BY <4>1
    <3>4. Reachable(r.path)
      BY <1>7 DEF Enter, MayRead, Reachable
    <3> QED
      BY <3>1, <3>2, <3>3, <3>4 DEF Counts
  <2>9. CASE r.included
    BY <2>2, <2>7, <2>8, <2>9
  <2>10. CASE ~r.included
    BY <2>7, <2>10 DEF Counts
  <2> QED
    BY <2>9, <2>10
<1>8. CASE Return
  BY <1>1, <1>8, DocTyped DEF Return, Following
<1> QED
  BY <1>4, <1>5, <1>6, <1>7, <1>8 DEF Next

(* A document has the includes that its loop has passed. *)
IncludesRight ==
  \A d \in DocId : \E n \in Nat :
    /\ docs[d].next = n + 1
    /\ Len(docs[d].includes) = Cardinality(Merged(d, n))
    /\ \A i \in Merged(d, n) : \E e \in DocId :
         /\ docs[d].includes[Cardinality(Merged(d, i))] = e
         /\ docs[e].file = Refs(d)[i].path /\ PipelineOf(e) = PipelineOf(d)

(* The includes of a document other than the one whose loop goes on.       *)
LEMMA OtherIncludes ==
  ASSUME TypeOK, [Next]_vars, NEW d \in DocId, ~(d = current /\ Following /\ Next)
  PROVE  docs'[d].includes = docs[d].includes /\ docs'[d].next = docs[d].next
<1>1. CASE UNCHANGED vars
  BY <1>1 DEF vars
<1>2. CASE Next
  <2>1. docs'[d].next = docs[d].next
    BY <1>2, StepGrows DEF Grows
  <2>2. CASE ~Following
    <3>1. UNCHANGED docs
      BY <1>2, <2>2 DEF Next, SkipExcluded, IncludeAgain, TriggerAgain, LeaveOutside, Unreadable,
                        Enter, Return
    <3> QED
      BY <3>1
  <2>3. CASE Following
    <3>1. d # current
      BY <1>2, <2>3
    <3>2. Advanced[d] = docs[d] /\ \A k : AdvancedWith(k)[d] = docs[d]
      <4>1. docs \in Seq(Document) /\ d \in DOMAIN docs
        BY DocTyped DEF DocId
      <4> QED
        BY <3>1, <4>1 DEF Advanced, AdvancedWith
    <3>3. CASE Stays
      BY <3>2, <3>3 DEF Stays, SkipExcluded, IncludeAgain, TriggerAgain, LeaveOutside, Unreadable
    <3>4. CASE Enter
      <4>1. PICK doc, s : docs' = Append(s, doc) /\ s \in {Advanced, AdvancedWith(Len(docs) + 1)}
        BY <3>4 DEF Enter
      <4>2. s \in Seq(Document) /\ Len(s) = Len(docs)
        <5>1. Len(docs) + 1 \in Nat
          BY DocTyped, LenProperties
        <5>2. OneFurther(Advanced) /\ OneFurther(AdvancedWith(Len(docs) + 1))
          BY <2>3, <5>1, AdvanceIsOneFurther
        <5>3. OneFurther(s)
          BY <4>1, <5>2
        <5> QED
          BY <5>3 DEF OneFurther
      <4>3. docs'[d] = s[d]
        BY <4>1, <4>2 DEF DocId
      <4> QED
        BY <2>1, <3>2, <4>1, <4>3
    <3>5. CASE Return
      BY <2>3, <3>5, CurrentTyped, DocTyped DEF Return, Following
    <3> QED
      BY <1>2, <2>1, <3>3, <3>4, <3>5 DEF Next, Stays
  <2> QED
    BY <2>2, <2>3
<1> QED
  BY <1>1, <1>2

LEMMA StepIncludesRight ==
  ASSUME TypeOK, PlacesRight, KnownRight, Justified, IncludesRight, [Next]_vars
  PROVE  IncludesRight'
<1>1. ASSUME NEW d \in DocId
      PROVE  \E n \in Nat :
               /\ docs'[d].next = n + 1
               /\ Len(docs'[d].includes) = Cardinality(Merged(d, n))
               /\ \A i \in Merged(d, n) : \E e \in DocId' :
                    /\ docs'[d].includes[Cardinality(Merged(d, i))] = e
                    /\ docs'[e].file = Refs(d)[i].path /\ PipelineOf(e)' = PipelineOf(d)
  <2>1. PICK n \in Nat :
          /\ docs[d].next = n + 1
          /\ Len(docs[d].includes) = Cardinality(Merged(d, n))
          /\ \A i \in Merged(d, n) : \E e \in DocId :
               /\ docs[d].includes[Cardinality(Merged(d, i))] = e
               /\ docs[e].file = Refs(d)[i].path /\ PipelineOf(e) = PipelineOf(d)
    BY DEF IncludesRight
  <2>2. \A i \in Merged(d, n) : \E e \in DocId' :
          /\ docs[d].includes[Cardinality(Merged(d, i))] = e
          /\ docs'[e].file = Refs(d)[i].path /\ PipelineOf(e)' = PipelineOf(d)
    BY <2>1, SamePlaces
  <2>3. CASE ~(d = current /\ Following /\ Next)
    <3>1. docs'[d].includes = docs[d].includes /\ docs'[d].next = docs[d].next
      BY <2>3, OtherIncludes
    <3> QED
      BY <2>1, <2>2, <3>1
  <2>4. CASE d = current /\ Following /\ Next
    <3>1. docs'[d].next = n + 2 /\ docs[d].includes \in Seq(Nat)
      <4>1. docs'[d].next = docs[d].next + 1
        BY <2>4, StepGrows DEF Grows
      <4>2. docs[d] \in Document
        BY DocTyped
      <4> QED
        BY <2>1, <4>1, <4>2 DEF Document
    <3>2. PICK r : r = Refs(d)[n + 1] /\ r = Ref
      BY <2>1, <2>4 DEF Ref
    <3>3. /\ Cardinality(Merged(d, n)) \in Nat
          /\ \A i \in Merged(d, n) : Cardinality(Merged(d, i)) \in 1 .. Cardinality(Merged(d, n))
          /\ Counts(d, r) =>
               /\ Merged(d, n + 1) = Merged(d, n) \cup {n + 1}
               /\ Cardinality(Merged(d, n + 1)) = Cardinality(Merged(d, n)) + 1
          /\ ~Counts(d, r) => Merged(d, n + 1) = Merged(d, n)
      BY <3>2, MergedNumbers
    <3>4. IF Counts(d, r)
          THEN \E e \in DocId' :
                 /\ docs'[d].includes = Append(docs[d].includes, e)
                 /\ docs'[e].file = r.path /\ PipelineOf(e)' = PipelineOf(d)
          ELSE docs'[d].includes = docs[d].includes
      BY <2>4, <3>2, FollowedIncludes
    <3>5. n + 1 \in Nat /\ n + 2 = (n + 1) + 1
      OBVIOUS
    <3>6. CASE ~Counts(d, r)
      BY <2>1, <2>2, <3>1, <3>3, <3>4, <3>5, <3>6
    <3>7. CASE Counts(d, r)
      <4>1. PICK e \in DocId' :
              /\ docs'[d].includes = Append(docs[d].includes, e)
              /\ docs'[e].file = r.path /\ PipelineOf(e)' = PipelineOf(d)
        BY <3>4, <3>7
      <4> DEFINE s == docs[d].includes
                 t == docs'[d].includes
                 k == Cardinality(Merged(d, n))
      <4>2. Len(s) = k /\ k \in Nat /\ s \in Seq(Nat) /\ t = Append(s, e)
        BY <2>1, <3>1, <3>3, <4>1
      <4> HIDE DEF s, t, k
      <4>3. Len(t) = k + 1 /\ t[k + 1] = e /\ \A j \in 1 .. k : t[j] = s[j]
        BY <4>2
      <4>4. \A i \in Merged(d, n) : t[Cardinality(Merged(d, i))] = s[Cardinality(Merged(d, i))]
        BY <3>3, <4>3 DEF k
      <4>5. Cardinality(Merged(d, n + 1)) = k + 1 /\ Merged(d, n + 1) = Merged(d, n) \cup {n + 1}
        BY <3>3, <3>7 DEF k
      <4>6. \A i \in Merged(d, n + 1) : \E x \in DocId' :
              /\ t[Cardinality(Merged(d, i))] = x
              /\ docs'[x].file = Refs(d)[i].path /\ PipelineOf(x)' = PipelineOf(d)
        <5>1. ASSUME NEW i \in Merged(d, n)
              PROVE  \E x \in DocId' :
                       /\ t[Cardinality(Merged(d, i))] = x
                       /\ docs'[x].file = Refs(d)[i].path /\ PipelineOf(x)' = PipelineOf(d)
          BY <2>2, <4>4 DEF s
        <5>2. t[Cardinality(Merged(d, n + 1))] = e /\ docs'[e].file = Refs(d)[n + 1].path
          BY <3>2, <4>1, <4>3, <4>5
        <5> QED
          BY <4>1, <4>5, <5>1, <5>2
      <4>7. docs'[d].next = (n + 1) + 1 /\ Len(t) = Cardinality(Merged(d, n + 1))
        BY <3>1, <3>5, <4>3, <4>5
      <4> QED
        BY <3>5, <4>6, <4>7 DEF t
    <3> QED
      BY <3>6, <3>7
  <2> QED
    BY <2>3, <2>4
<1>2. ASSUME NEW d \in DocId
      PROVE  \E n \in Nat :
               /\ docs'[d].next = n + 1
               /\ Len(docs'[d].includes) = Cardinality(Merged(d, n))'
               /\ \A i \in Merged(d, n)' : \E e \in DocId' :
                    /\ docs'[d].includes[Cardinality(Merged(d, i))'] = e
                    /\ docs'[e].file = Refs(d)'[i].path /\ PipelineOf(e)' = PipelineOf(d)'
  <2>1. \A n : Merged(d, n)' = Merged(d, n)
    BY SameCounts
  <2>2. Refs(d)' = Refs(d) /\ PipelineOf(d)' = PipelineOf(d)
    BY SamePlaces
  <2> QED
    BY <1>1, <2>1, <2>2
<1>3. ASSUME NEW d \in DocId', d \notin DocId
      PROVE  docs'[d].next = 0 + 1 /\ Len(docs'[d].includes) = 0 /\ Merged(d, 0)' = {}
  <2>1. Enter
    BY <1>3, StayDocs DEF Next, Stays, OneFurther, DocId, Return, vars
  <2>2. d = Len(docs) + 1
    BY <1>3, <2>1, NewPlace
  <2>3. docs'[d].includes = << >>
    <3>1. PICK s, doc : docs' = Append(s, doc) /\ doc.includes = << >>
                        /\ s \in {Advanced, AdvancedWith(Len(docs) + 1)}
      <4> DEFINE x == [file     |-> Ref.path,
                       pipeline |-> IF Ref.included THEN PipelineOf(current) ELSE NoDoc,
                       caller   |-> current,
                       optional |-> BelowOptional(Ref),
                       next     |-> 1,
                       includes |-> << >>]
      <4>1. docs' = Append(AdvancedWith(Len(docs) + 1), x) \/ docs' = Append(Advanced, x)
        BY <2>1 DEF Enter
      <4>2. x.includes = << >>
        OBVIOUS
      <4> HIDE DEF x
      <4> QED
        BY <4>1, <4>2
    <3>2. s \in Seq(Document) /\ Len(s) = Len(docs)
      BY <2>1, <3>1, AdvanceIsOneFurther, DocTyped DEF OneFurther, Enter
    <3>3. docs'[d] = doc
      BY <2>2, <3>1, <3>2
    <3> QED
      BY <3>1, <3>3
  <2>4. docs'[d].next = 1
    BY <2>1, <2>2, EnterDocs
  <2>5. Merged(d, 0)' = {}
    BY DEF Merged
  <2> QED
    BY <2>3, <2>4, <2>5
<1>4. Cardinality({}) = 0 /\ 0 \in Nat
  BY FS_EmptySet
<1>5. ASSUME NEW d \in DocId', d \notin DocId
      PROVE  \E n \in Nat :
               /\ docs'[d].next = n + 1
               /\ Len(docs'[d].includes) = Cardinality(Merged(d, n))'
               /\ \A i \in Merged(d, n)' : \E e \in DocId' :
                    /\ docs'[d].includes[Cardinality(Merged(d, i))'] = e
                    /\ docs'[e].file = Refs(d)'[i].path /\ PipelineOf(e)' = PipelineOf(d)'
  BY <1>3, <1>4, <1>5
<1> QED
  BY <1>2, <1>5 DEF IncludesRight

(* Includes has a file for each usable include of a file, in the order and *)
(* as often as they are written, however files include each other in       *)
(* cycles and whichever pipeline met them first (follow: parent.Includes). *)
THEOREM IncludesInOrder == Spec => []IncludesAsWritten
<1>1. Init => IncludesRight
  <2> SUFFICES ASSUME Init
               PROVE  IncludesRight
    OBVIOUS
  <2>1. docs[1].includes = << >>
    BY DEF Init, Start
  <2>2. Merged(1, 0) = {} /\ Cardinality({}) = 0
    BY FS_EmptySet DEF Merged
  <2>3. docs[1].next = 0 + 1 /\ 0 \in Nat /\ Len(docs[1].includes) = 0
    BY <2>1, InitRoot
  <2> QED
    BY <2>2, <2>3, InitRoot DEF IncludesRight
<1>2. TypeOK /\ PlacesRight /\ KnownRight /\ Justified /\ IncludesRight /\ [Next]_vars => IncludesRight'
  BY StepIncludesRight
<1>3. TypeOK /\ Followed /\ DepthFirst /\ IncludesRight => IncludesAsWritten
  <2> SUFFICES ASSUME TypeOK, Followed, DepthFirst, IncludesRight, Done, NEW d \in DocId
               PROVE  /\ Len(docs[d].includes) = Cardinality(Merged(d, Len(Refs(d))))
                      /\ \A i \in Merged(d, Len(Refs(d))) :
                           LET e == docs[d].includes[Cardinality(Merged(d, i))]
                           IN  docs[e].file = Refs(d)[i].path /\ PipelineOf(e) = PipelineOf(d)
    BY DEF IncludesAsWritten
  <2>1. PICK n \in Nat :
          /\ docs[d].next = n + 1
          /\ Len(docs[d].includes) = Cardinality(Merged(d, n))
          /\ \A i \in Merged(d, n) : \E e \in DocId :
               /\ docs[d].includes[Cardinality(Merged(d, i))] = e
               /\ docs[e].file = Refs(d)[i].path /\ PipelineOf(e) = PipelineOf(d)
    BY DEF IncludesRight
  <2>2. n = Len(Refs(d))
    <3>1. Len(Refs(d)) \in Nat /\ d > current
      BY DocTyped DEF Done, DocId
    <3>2. n + 1 > Len(Refs(d)) /\ n + 1 <= Len(Refs(d)) + 1
      BY <2>1, <3>1 DEF DepthFirst, Finished, Followed
    <3> QED
      BY <3>1, <3>2
  <2> QED
    BY <2>1, <2>2
<1> QED
  BY <1>1, <1>2, <1>3, TypeCorrect, PlacesRightAlways, KnownRightAlways, CollectedJustified,
     FollowedAlways, PTL DEF Spec
=============================================================================
