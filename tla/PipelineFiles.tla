---------------------------- MODULE PipelineFiles ----------------------------
(***************************************************************************)
(* How glsec gathers the files of a pipeline: pipelineFiles.collect, its   *)
(* closure follow and the helper read (cmd/glsec/main.go).                 *)
(*                                                                         *)
(* A pipeline file names other files of the repository, as child pipelines *)
(* (trigger: include:) and as local includes.  collect reads them depth    *)
(* first.  An included file gets a Document of its own in every pipeline   *)
(* that includes it; a child pipeline is started once.  Include cycles     *)
(* and cycles of child pipelines are legal, and must end.                  *)
(*                                                                         *)
(* The recursion of collect is the chain of caller links: a document is    *)
(* one activation of collect, next is the place of its loop, and current   *)
(* is the innermost activation.  A step is one call of follow, or one      *)
(* return of collect.                                                      *)
(***************************************************************************)
EXTENDS Integers, SequencesExt

CONSTANTS
  File,         \* the paths that can be named, present in the repository or not
  Root,         \* the pipeline file that is scanned
  Outside,      \* paths withinRoot refuses: outside the root directory
  Excluded,     \* paths matchesExclude accepts (exclude-paths:)
  Trees,        \* the repositories the scan may meet
  MaxIncludes   \* files a wildcard may match

(***************************************************************************)
(* A reference, as collect hands it to follow: whether the file it names   *)
(* joins the pipeline (include:) or starts one of its own, whether its     *)
(* path has a variable, so that it is a guess, and whether the entry has   *)
(* rules:.  A child pipeline has no rules: that collect looks at, and an   *)
(* include with a variable is left out by LocalIncludes.                   *)
(***************************************************************************)
Reference ==
  { r \in [path : File, included : BOOLEAN, guess : BOOLEAN, rules : BOOLEAN] :
      IF r.included THEN ~r.guess ELSE ~r.rules }

(* The files a wildcard include: adds, of the matches in lexical order: at *)
(* most MaxIncludes, as in globIncludes.                                   *)
GlobIncludes(matches) ==
  SubSeq(matches, 1, IF Len(matches) > MaxIncludes THEN MaxIncludes ELSE Len(matches))

(* The references of a file in the order collect follows them: its child   *)
(* pipelines, then what its local includes name.  A wildcard entry has     *)
(* several paths, all with the entry's rules:.                             *)
References(triggers, entries) ==
  LET paths(e) == IF e.wildcard THEN GlobIncludes(e.paths) ELSE e.paths
      child(t) == [path |-> t.path, included |-> FALSE, guess |-> t.guess, rules |-> FALSE]
      file(e, i) == [path |-> paths(e)[i], included |-> TRUE, guess |-> FALSE, rules |-> e.rules]
  IN  [i \in DOMAIN triggers |-> child(triggers[i])]
        \o FlattenSeq([i \in DOMAIN entries |->
                         [j \in DOMAIN paths(entries[i]) |-> file(entries[i], j)]])

(* What reading a path yields: an unusable file, which is missing, does    *)
(* not parse or has no mapping at the top, or one with its references.     *)
Content == [usable : BOOLEAN, refs : Seq(Reference)]

ASSUME ConstantsAssumption ==
  /\ Root \in File
  /\ Root \notin Outside \cup Excluded
  /\ Trees \subseteq [File -> Content]
  /\ \A t \in Trees : t[Root].usable
  /\ MaxIncludes \in Nat

Absent == -1   \* members has no entry for the file
NoDoc  == 0    \* a nil *Document

VARIABLES
  tree,       \* what the repository holds; the scan never writes it
  docs,       \* the Documents in the order of collect's result
  current,    \* the document whose references are being followed, or NoDoc
  parsed,     \* the result of read for each file: not read, usable or nil
  members,    \* for each document that is a pipeline, the files it has
  children,   \* the pipelines started so far
  skipped,    \* the paths reported as outside the root
  unread      \* the files reported as unreadable, in order

vars == <<tree, docs, current, parsed, members, children, skipped, unread>>

DocId == 1 .. Len(docs)

TypeOK ==
  /\ tree \in [File -> Content]
  /\ docs \in Seq([file : File, pipeline : Nat, caller : Nat, optional : BOOLEAN,
                   next : Nat \ {0}, includes : Seq(Nat)])
  /\ \A d \in DocId : docs[d].pipeline \in 0 .. d - 1 /\ docs[d].caller \in 0 .. d - 1
  /\ current \in 0 .. Len(docs)
  /\ parsed \in [File -> {"unknown", "usable", "nil"}]
  /\ members \in Seq([File -> Int])
  /\ Len(members) = Len(docs)
  /\ \A d \in DocId, f \in File : members[d][f] \in Absent .. Len(docs)
  /\ children \subseteq File
  /\ skipped \subseteq File
  /\ unread \in Seq([file : File, optional : BOOLEAN])

-----------------------------------------------------------------------------
NoMembers == [f \in File |-> Absent]

(* newPipelineFiles, and the call collect(doc, false) in scanRoot.         *)
Start(first, rootMembers) ==
  /\ tree \in Trees
  /\ docs = << [file |-> Root, pipeline |-> NoDoc, caller |-> NoDoc, optional |-> FALSE,
                next |-> first, includes |-> << >>] >>
  /\ current = 1
  /\ parsed = [f \in File |-> "unknown"]
  /\ members = << rootMembers >>
  /\ children = {Root}
  /\ skipped = {}
  /\ unread = << >>

InitRootNoMember == Start(1, NoMembers)                      \* mutant: no entry for the root

(* The root file is a pipeline that has started and has itself as its      *)
(* member, but it is not among the files that read has parsed.             *)
Init == Start(1, [NoMembers EXCEPT ![Root] = 1])

Refs(d) == tree[docs[d].file].refs

(* doc.IncludedBy, or the document itself if it is no included file.       *)
PipelineOf(d) == IF docs[d].pipeline = NoDoc THEN d ELSE docs[d].pipeline

Following == current # NoDoc /\ docs[current].next <= Len(Refs(current))
Ref == Refs(current)[docs[current].next]

(* The loops of collect go on to the next reference.                       *)
Advanced == [docs EXCEPT ![current].next = @ + 1]

(* The document is added to current's Includes as well.                    *)
AdvancedWith(d) ==
  [docs EXCEPT ![current].next = @ + 1, ![current].includes = Append(@, d)]

(* Mutant: a file that was included somewhere is no child pipeline.        *)
KnownIfParsed(r) ==
  IF r.included THEN members[PipelineOf(current)][r.path] # Absent
                ELSE parsed[r.path] # "unknown" \/ r.path \in children

(* Has the pipeline this file, or has this child pipeline started?         *)
Known(r) ==
  IF r.included THEN members[PipelineOf(current)][r.path] # Absent
                ELSE r.path \in children

(* follow writes down that the reference was met before it looks at the    *)
(* file: a nil member, or a child pipeline that has started.               *)
Met(r) ==
  IF r.included
  THEN /\ members' = [members EXCEPT ![PipelineOf(current)][r.path] = NoDoc]
       /\ UNCHANGED children
  ELSE /\ children' = children \cup {r.path}
       /\ UNCHANGED members

(* The paths follow reads: not excluded, and inside the root.              *)
MayReadAll(f) == f \notin Excluded   \* mutant: no withinRoot
MayRead(f) == f \notin Excluded \cup Outside

(* Only the first read of a path parses the file, and reports it.          *)
FirstReadAlways(f) == TRUE           \* mutant: failures are not remembered
FirstRead(f) == parsed[f] = "unknown"

(* A known file is merged again where it is included again, unless it is   *)
(* nil or the pipeline's own root, which has no IncludedBy.                *)
NeverMergedAgain(d) == FALSE         \* mutant: the first place counts
MergedAgain(d) == d # NoDoc /\ docs[d].pipeline = PipelineOf(current)

(* Is the file optional, as passed to read?  A guess makes only the file   *)
(* itself optional, rules: the files below it too.                         *)
BelowRules(r) == r.rules             \* mutant: not inherited
BelowOptional(r) == docs[current].optional \/ r.rules
Optional(r) == BelowOptional(r) \/ r.guess

-----------------------------------------------------------------------------
(* follow returns at once for an excluded path.                            *)
SkipExcluded ==
  /\ Following
  /\ Ref.path \in Excluded
  /\ docs' = Advanced
  /\ UNCHANGED <<tree, current, parsed, members, children, skipped, unread>>

(* Mutant: a known file is followed again from its first reference.         *)
IncludeRestarts ==
  /\ Following
  /\ Ref.path \notin Excluded
  /\ Ref.included
  /\ Known(Ref)
  /\ LET known == members[PipelineOf(current)][Ref.path]
     IN  IF MergedAgain(known)
         THEN docs' = [Advanced EXCEPT ![known].next = 1] /\ current' = known
         ELSE docs' = Advanced /\ UNCHANGED current
  /\ UNCHANGED <<tree, parsed, members, children, skipped, unread>>

(* A file this pipeline has already is added to Includes again.            *)
IncludeAgain ==
  /\ Following
  /\ Ref.path \notin Excluded
  /\ Ref.included
  /\ Known(Ref)
  /\ LET known == members[PipelineOf(current)][Ref.path]
     IN  docs' = IF MergedAgain(known) THEN AdvancedWith(known) ELSE Advanced
  /\ UNCHANGED <<tree, current, parsed, members, children, skipped, unread>>

(* A child pipeline that has started already.                              *)
TriggerAgain ==
  /\ Following
  /\ Ref.path \notin Excluded
  /\ ~Ref.included
  /\ Known(Ref)
  /\ docs' = Advanced
  /\ UNCHANGED <<tree, current, parsed, members, children, skipped, unread>>

(* A path outside the root is reported once and never read.                *)
LeaveOutside ==
  /\ Following
  /\ Ref.path \notin Excluded
  /\ ~Known(Ref)
  /\ Ref.path \in Outside
  /\ Met(Ref)
  /\ docs' = Advanced
  /\ skipped' = skipped \cup {Ref.path}
  /\ UNCHANGED <<tree, current, parsed, unread>>

(* A file that can't be used.  read reports it the first time only, with   *)
(* what this reference says of it.                                         *)
Unreadable ==
  /\ Following
  /\ MayRead(Ref.path)
  /\ ~Known(Ref)
  /\ ~tree[Ref.path].usable
  /\ Met(Ref)
  /\ docs' = Advanced
  /\ IF FirstRead(Ref.path)
     THEN /\ parsed' = [parsed EXCEPT ![Ref.path] = "nil"]
          /\ unread' = Append(unread, [file |-> Ref.path, optional |-> Optional(Ref)])
     ELSE UNCHANGED <<parsed, unread>>
  /\ UNCHANGED <<tree, current, skipped>>

(* A usable file: read gives a Document of its own, follow makes it a      *)
(* member of the pipeline or a pipeline with itself as the only member,    *)
(* and calls collect on it.                                                *)
Enter ==
  /\ Following
  /\ MayRead(Ref.path)
  /\ ~Known(Ref)
  /\ tree[Ref.path].usable
  /\ LET p   == PipelineOf(current)
         new == Len(docs) + 1
         doc == [file     |-> Ref.path,
                 pipeline |-> IF Ref.included THEN p ELSE NoDoc,
                 caller   |-> current,
                 optional |-> BelowOptional(Ref),
                 next     |-> 1,
                 includes |-> << >>]
     IN  /\ current' = new
         /\ parsed' = [parsed EXCEPT ![Ref.path] = "usable"]
         /\ IF Ref.included
            THEN /\ docs' = Append(AdvancedWith(new), doc)
                 /\ members' = Append([members EXCEPT ![p][Ref.path] = new], NoMembers)
                 /\ UNCHANGED children
            ELSE /\ docs' = Append(Advanced, doc)
                 /\ members' = Append(members, [NoMembers EXCEPT ![Ref.path] = new])
                 /\ children' = children \cup {Ref.path}
  /\ UNCHANGED <<tree, skipped, unread>>

(* collect has followed every reference of the document and returns.       *)
Return ==
  /\ current # NoDoc
  /\ docs[current].next > Len(Refs(current))
  /\ current' = docs[current].caller
  /\ UNCHANGED <<tree, docs, parsed, members, children, skipped, unread>>

Next ==
  \/ SkipExcluded
  \/ IncludeAgain
  \/ TriggerAgain
  \/ LeaveOutside
  \/ Unreadable
  \/ Enter
  \/ Return

(* collect is one sequential call that nothing waits for: it goes on as    *)
(* long as it can.                                                         *)
Spec == Init /\ [][Next]_vars /\ WF_vars(Next)
-----------------------------------------------------------------------------
Done == current = NoDoc

(* A file that a reference may lead to: within the root, not excluded, and *)
(* usable.                                                                 *)
Reachable(f) == f \notin Outside \cup Excluded /\ tree[f].usable

(* A file is collected at most once for each pipeline, and a pipeline is   *)
(* started at most once, however the files include and trigger each other  *)
(* in cycles: so every step of collect that reads brings it nearer to its  *)
(* end, and no finding is reported twice because of the shape of the       *)
(* includes.  collect relies on members and children for this.             *)
OncePerPipeline ==
  \A a, b \in DocId :
    /\ docs[a].file = docs[b].file
    /\ docs[PipelineOf(a)].file = docs[PipelineOf(b)].file
    => a = b

(* Whatever is collected was named by a file collected before it, in the   *)
(* same pipeline if it was included, and may be read: collect never leaves *)
(* the root directory, through no chain of includes and child pipelines,   *)
(* and never reads an excluded file.                                       *)
Justified ==
  \A d \in DocId \ {1} :
    /\ Reachable(docs[d].file)
    /\ \E c \in 1 .. d - 1 : \E i \in DOMAIN Refs(c) :
         /\ Refs(c)[i].path = docs[d].file
         /\ Refs(c)[i].included <=> docs[d].pipeline # NoDoc
         /\ Refs(c)[i].included => PipelineOf(c) = PipelineOf(d)

(* Does the collected set hold what reference r of document d asks for?    *)
Collected(d, r) ==
  \E e \in DocId :
    /\ docs[e].file = r.path
    /\ IF r.included THEN PipelineOf(e) = PipelineOf(d) ELSE PipelineOf(e) = e

(* Nothing is missed: when collect returns, each reference of each file,   *)
(* in every pipeline the file belongs to, has its file collected there,    *)
(* if it can be.  With Justified this makes the result exactly the closure *)
(* of the references, so no part of a pipeline goes unchecked because      *)
(* another pipeline has seen the file first (#1166).                       *)
Complete ==
  Done => \A d \in DocId : \A i \in DOMAIN Refs(d) :
            Reachable(Refs(d)[i].path) => Collected(d, Refs(d)[i])

(* The first n references of document d that Includes has a file for:      *)
(* usable includes, but for the root of the pipeline.                      *)
Merged(d, n) ==
  {i \in 1 .. n :
     LET r == Refs(d)[i]
     IN  r.included /\ Reachable(r.path) /\ r.path # docs[PipelineOf(d)].file}

(* Includes lists a file's usable includes in the order and as often as    *)
(* they are written, whether the file was known already or not, except the *)
(* root of the pipeline.  MergeOrder depends on it: a file included twice  *)
(* counts where it is included last.                                       *)
IncludesAsWritten ==
  Done => \A d \in DocId :
    LET written == Merged(d, Len(Refs(d)))
    IN  /\ Len(docs[d].includes) = Cardinality(written)
        /\ \A i \in written :
             LET e == docs[d].includes[Cardinality(Merged(d, i))]
             IN  docs[e].file = Refs(d)[i].path /\ PipelineOf(e) = PipelineOf(d)

(* The files the pipeline needs: those on a chain of usable references     *)
(* without rules:, from the root on.  Stated as the least such set.        *)
ClosedUnderNeed(S) ==
  \A f \in S : \A i \in DOMAIN tree[f].refs :
    LET r == tree[f].refs[i]
    IN  ~r.rules /\ Reachable(r.path) => r.path \in S

Needed(f) == \A S \in SUBSET File : Root \in S /\ ClosedUnderNeed(S) => f \in S

(* A file the pipeline needs names f without rules: and without guessing.  *)
NeededBySome(f) ==
  \E g \in File :
    /\ Needed(g)
    /\ \E i \in DOMAIN tree[g].refs :
         LET r == tree[g].refs[i] IN r.path = f /\ ~r.rules /\ ~r.guess

(* --strict fails the run only for a file that is really needed: one that  *)
(* is reported as not optional is named, without rules: and without a      *)
(* variable, by a file the pipeline can't do without.                      *)
NoFalseError ==
  \A i \in DOMAIN unread : ~unread[i].optional => NeededBySome(unread[i].file)

(* Every unusable file that a collected file names is reported exactly     *)
(* once, however many pipelines and files name it.                         *)
UnreadReportedOnce ==
  LET named(f) == \E d \in DocId : \E i \in DOMAIN Refs(d) : Refs(d)[i].path = f
      times(f) == {i \in DOMAIN unread : unread[i].file = f}
  IN  Done => \A f \in File \ (Outside \cup Excluded) :
        ~tree[f].usable /\ named(f) => \E i \in times(f) : times(f) = {i}

(* collect returns, for every repository: include cycles and cycles of     *)
(* child pipelines end (TestRun_IncludeCyclesEnd).                         *)
Termination == <>Done
=============================================================================
