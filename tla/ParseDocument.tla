--------------------------- MODULE ParseDocument ---------------------------
(***************************************************************************)
(* Parse (internal/parser/parser.go): which document of a file is the one  *)
(* GitLab runs, and the passes over its tree in the order in which Parse   *)
(* makes them.  What they must come to is stated beside them as a value,   *)
(* which is computed from what the file says and knows no order of passes, *)
(* no shared nodes and no budget.                                          *)
(***************************************************************************)
EXTENDS YamlTree, FiniteSets

CONSTANTS Files  \* the files to parse

(* The documents are roots in the heap of nodes; broken: behind them is    *)
(* what the decoder cannot read.  rootFile: isRootPipelineFile.            *)
ASSUME ParseAssumption ==
  /\ MaxExpandedNodes \in Nat /\ MaxScriptNesting \in Nat
  /\ \A f \in Files :
       /\ f.docs \in Seq(DOMAIN f.nodes) /\ f.broken \in BOOLEAN /\ f.rootFile \in BOOLEAN
       /\ None \notin DOMAIN f.nodes

VARIABLES
  file,   \* what the decoder gave
  stage,  \* the call that Parse has come to
  nodes,  \* the heap
  doc,    \* the Document: Root, Spec, IgnoredDocuments and ComponentTemplate
  dups,   \* DuplicateKeys
  used,   \* expander.used for the root
  left    \* resolver.left

vars == <<file, stage, nodes, doc, dups, used, left>>

Init ==
  /\ file \in Files
  /\ stage = "decode"
  /\ nodes = file.nodes
  /\ doc = [root |-> None, spec |-> None, ignored |-> << >>, template |-> FALSE]
  /\ dups = << >>
  /\ used = 0
  /\ left = MaxExpandedNodes

HasSpecHeader(n) ==
  IsMap(nodes, n) /\ \E i \in DOMAIN nodes[n].entries : nodes[nodes[n].entries[i][1]].value = "spec"

(* firstNonEmptyDoc                                                        *)
FirstNonEmptyDoc ==
  LET full == SelectSeq(file.docs, LAMBDA d : ~IsNull(nodes, d))
  IN  IF full = << >> THEN Head(file.docs) ELSE Head(full)

IsUsable ==
  /\ file.docs # << >>
  /\ file.broken => \E d \in ToSet(file.docs) : ~IsNull(nodes, d)

Decode ==
  /\ stage = "decode"
  /\ IF ~IsUsable
       THEN stage' = "error" /\ UNCHANGED doc
       ELSE /\ stage' = "collapse"
            /\ doc' = IF Len(file.docs) > 1 /\ HasSpecHeader(file.docs[1])
                        THEN [root |-> Last(file.docs), spec |-> file.docs[1],
                              ignored |-> SubSeq(file.docs, 2, Len(file.docs) - 1),
                              template |-> ~file.rootFile]
                        ELSE [doc EXCEPT !.root = FirstNonEmptyDoc]
  /\ UNCHANGED <<file, nodes, dups, used, left>>

(* The spec: header is not below a job.                                    *)
WithoutJob(before, c) ==
  [c EXCEPT !.dups = [i \in DOMAIN @ |-> IF i > Len(before) THEN [@[i] EXCEPT !.job = ""] ELSE @[i]]]

CollapseSpec(c) == IF doc.spec = None THEN c ELSE WithoutJob(c.dups, CollapseDuplicateKeys(c, doc.spec))
Collapsed(c) == nodes' = c.nodes /\ dups' = c.dups
CollapseAll ==
  /\ stage = "collapse"
  /\ Collapsed(CollapseDuplicateKeys(CollapseSpec([nodes |-> nodes, dups |-> dups]), doc.root))
  /\ stage' = "expand"
  /\ UNCHANGED <<file, doc, used, left>>

ExpandSpec(e) == IF doc.spec = None THEN e ELSE WithoutJob(e.dups, ExpandAliases(e, doc.spec))
Expanded(e) == used' = e.used /\ Collapsed(ExpandSpec(e))
ExpandAll ==
  /\ stage = "expand"
  /\ Expanded(ExpandAliases([nodes |-> nodes, dups |-> dups], doc.root))
  /\ stage' = "resolve"
  /\ UNCHANGED <<file, doc, left>>

Resolved(r) == nodes' = r.nodes /\ left' = r.left
ResolveAll ==
  /\ stage = "resolve"
  /\ Resolved(ResolveReferences(nodes, doc.root))
  /\ stage' = "mark"
  /\ UNCHANGED <<file, doc, dups, used>>

Mark ==
  /\ stage = "mark"
  /\ nodes' = MarkKeywordJobs(nodes, doc.root)
  /\ stage' = "normalize"
  /\ UNCHANGED <<file, doc, dups, used, left>>

Normalize ==
  /\ stage = "normalize"
  /\ nodes' = NormalizeScripts(nodes, doc.root)
  /\ stage' = "parsed"
  /\ UNCHANGED <<file, doc, dups, used, left>>

Next == Decode \/ CollapseAll \/ ExpandAll \/ ResolveAll \/ Mark \/ Normalize

Spec == Init /\ [][Next]_vars

-----------------------------------------------------------------------------
(* What GitLab loads, from the nodes as they were written.  A value is a   *)
(* scalar, a reference, a list, whose nested lists are flattened, or a     *)
(* function from keys to values.                                           *)
Scalar(ns, n) == [scalar |-> KeyID(ns, n)]
Reference(ns, n) == [reference |-> PathOf(ns, n)]
Cycle == [cycle |-> TRUE]

IsListValue(v) == "list" \in DOMAIN v
IsMapValue(v) == "map" \in DOMAIN v
IsReferenceValue(v) == "reference" \in DOMAIN v
ItemsOf(v) == IF IsListValue(v) THEN v.list ELSE <<v>>
List(values) == [list |-> FlattenSeq([i \in DOMAIN values |-> ItemsOf(values[i])])]

(* Psych reads a mapping entry by entry.  An entry sets its key, and a <<  *)
(* sets the keys of its sources, those of the first source last.           *)
RECURSIVE Load(_, _, _)
Load(ns, n, inside) ==
  LET within == inside \cup {n}
      merge(m, value) ==
        LET loaded == Load(ns, value, within)
        IN  FoldLeft(LAMBDA x, src : IF IsMapValue(src) THEN src.map @@ x ELSE x, m,
                     Reverse(ItemsOf(loaded)))
      entry(m, x) == IF IsMerge(ns, x) THEN merge(m, x[2])
                                       ELSE (KeyID(ns, x[1]) :> Load(ns, x[2], within)) @@ m
  IN  CASE IsAlias(ns, n) -> IF ns[n].alias \in inside THEN Cycle ELSE Load(ns, ns[n].alias, inside)
        [] IsReference(ns, n) -> Reference(ns, n)
        [] IsScalar(ns, n) /\ ~IsReference(ns, n) -> Scalar(ns, n)
        [] IsNested(ns, n) -> List([i \in DOMAIN ns[n].items |-> Load(ns, ns[n].items[i], within)])
        [] OTHER -> [map |-> FoldLeft(entry, << >>, ns[n].entries)]

Loaded == Load(file.nodes, doc.root, {})

(* What the rules read in the tree that Parse has made: the first entry of *)
(* a key, and no alias.                                                    *)
RECURSIVE Read(_, _)
Read(ns, n) ==
  LET ids == { KeyID(ns, entry[1]) : entry \in ToSet(ns[n].entries) }
      first(id) == LET at == { i \in DOMAIN ns[n].entries : KeyID(ns, ns[n].entries[i][1]) = id }
                   IN  ns[n].entries[Min(at)][2]
  IN  CASE IsAlias(ns, n) -> Cycle
        [] IsReference(ns, n) -> Reference(ns, n)
        [] IsScalar(ns, n) /\ ~IsReference(ns, n) -> Scalar(ns, n)
        [] IsNested(ns, n) -> List([i \in DOMAIN ns[n].items |-> Read(ns, ns[n].items[i])])
        [] OTHER -> [map |-> [id \in ids |-> Read(ns, first(id))]]

RECURSIVE Below(_, _)
Below(ns, n) == {n} \cup UNION { Below(ns, child) : child \in ToSet(Children(ns, n)) }

(* What CollapseDuplicateKeys takes out of the tree.                       *)
Dead == LET c == CollapseDuplicateKeys([nodes |-> file.nodes, dups |-> << >>], doc.root)
        IN  Below(file.nodes, doc.root) \ Below(c.nodes, doc.root)
Aliases(ns) == { n \in Below(ns, doc.root) : IsAlias(ns, n) }
Unfolded(ns) == \E n \in Below(ns, doc.root) : \E i \in DOMAIN ns[n].entries : IsMerge(ns, ns[n].entries[i])
NamesDead == \E n \in DOMAIN file.nodes : IsAlias(file.nodes, n) /\ file.nodes[n].alias \in Dead

SpliceOfReference ==   \* a list item that is an alias of a reference
  \E n \in DOMAIN file.nodes : \E item \in ToSet(file.nodes[n].items) :
     IsAlias(file.nodes, item) /\ IsReference(file.nodes, file.nodes[item].alias)

(* CollapseDuplicateKeys and ExpandAliases: unless something is left in    *)
(* the tree as it was written (see LeftForAReason), what the rules read is *)
(* what GitLab's loader makes of the file: the last entry of a key counts, *)
(* a << overrides what is before it, and an alias is what it names.        *)
LoadedAsWritten ==
  stage = "resolve" /\ Aliases(nodes) = {} /\ ~Unfolded(nodes) /\ ~NamesDead /\ ~SpliceOfReference
    => Read(nodes, doc.root) = Loaded

-----------------------------------------------------------------------------
(* What the references of the file stand for: the value at their path.     *)
Get(v, key) ==
  IF IsMapValue(v) /\ \E id \in DOMAIN v.map : id[2] = key
    THEN v.map[CHOOSE id \in DOMAIN v.map : id[2] = key] ELSE Cycle
At(v, path) == FoldLeft(Get, v, path)

RECURSIVE ReferencesIn(_)
ReferencesIn(v) ==
  CASE IsReferenceValue(v) -> {v.reference}
    [] IsListValue(v) -> UNION { ReferencesIn(x) : x \in ToSet(v.list) }
    [] IsMapValue(v) -> UNION { ReferencesIn(v.map[id]) : id \in DOMAIN v.map }
    [] OTHER -> {}

IsThere(path) == path # << >> /\ At(Loaded, path) # Cycle
IsNestedReference(path) == \E p \in Prefixes(path) \ {<< >>} : IsReferenceValue(At(Loaded, p))

RECURSIVE Reached(_, _)
Reached(paths, seen) ==
  LET next == UNION { ReferencesIn(At(Loaded, p)) : p \in paths } \ seen
  IN  IF next = {} THEN seen ELSE Reached(next, seen \cup next)
LeadsBack(path) == path \in Reached({path}, {})

RECURSIVE Inlined(_)
Inlined(v) ==
  CASE IsReferenceValue(v) -> IF IsThere(v.reference) THEN Inlined(At(Loaded, v.reference)) ELSE v
    [] IsListValue(v) -> List([i \in DOMAIN v.list |-> Inlined(v.list[i])])
    [] IsMapValue(v) -> [map |-> [id \in DOMAIN v.map |-> Inlined(v.map[id])]]
    [] OTHER -> v

IsSimple(path) == ~LeadsBack(path) /\ ~IsNestedReference(path)
AsLoaded == Aliases(nodes) = {} /\ ~Unfolded(nodes) /\ ~NamesDead /\ ~SpliceOfReference

(* ResolveReferences: every reference whose path is in the file is         *)
(* replaced by what is there, in whatever order the keys come and however  *)
(* many places share the node.  A path that leads to another reference is  *)
(* not covered: that one is copied as it stands, and in a list its path    *)
(* becomes items.                                                          *)
ReferencesInlined ==
  stage = "mark" /\ AsLoaded /\ left > 0 /\ (\A p \in ReferencesIn(Loaded) : IsSimple(p))
    => Read(nodes, doc.root) = Inlined(Loaded)

(* However aliases and references are nested, a walk over the tree after   *)
(* ExpandAliases visits at most maxExpandedNodes more nodes than were      *)
(* written, and ResolveReferences makes at most as many.  A << that could  *)
(* not be folded is not covered: its sources are in the tree twice.        *)
WithinBudget ==
  /\ stage = "resolve" /\ ~Unfolded(nodes) =>
       Size(nodes, doc.root) <= Size(file.nodes, doc.root) + MaxExpandedNodes
  /\ stage = "mark" =>
       Cardinality(DOMAIN nodes) <= Cardinality(DOMAIN file.nodes) + MaxExpandedNodes

(* What is expanded stays within the budget, and little else is left: an   *)
(* alias stays only if it would close a cycle or does not fit, a reference *)
(* only if it has no path in the file, leads back to itself, or the budget *)
(* has been spent.                                                         *)
LeftForAReason ==
  /\ WithinBudget
  /\ stage = "resolve" =>
       \A a \in Aliases(nodes) :
         LET target == nodes[a].alias
         IN  a \in Below(file.nodes, target) \/ ~Fits(used, Size(nodes, target))
  /\ stage = "mark" =>
       \A n \in Below(nodes, doc.root) :
         IsReference(nodes, n) =>
           \/ ~IsPath(nodes, n) \/ left = 0
           \/ ~IsThere(PathOf(nodes, n)) \/ LeadsBack(PathOf(nodes, n))
           \/ \E path \in ReferencesIn(Loaded) : IsNestedReference(path)

(* The key that sets each id of a mapping, as Load reads it.               *)
RECURSIVE Setters(_, _)
Setters(ns, n) ==
  LET map(src) == IF IsAlias(ns, src) THEN ns[src].alias ELSE src
      sources(value) == LET v == map(value)
                        IN  IF IsList(ns, v) THEN [i \in DOMAIN ns[v].items |-> map(ns[v].items[i])] ELSE <<v>>
      entry(m, x) == IF IsMerge(ns, x)
                       THEN FoldLeft(LAMBDA y, src : Setters(ns, src) @@ y, m, Reverse(sources(x[2])))
                       ELSE (KeyID(ns, x[1]) :> x[1]) @@ m
  IN  FoldLeft(entry, << >>, ns[n].entries)

ReportOf(key) == { i \in DOMAIN dups : dups[i].key = key }
RECURSIVE FinalWinner(_)
FinalWinner(key) == IF ReportOf(key) = {} THEN key ELSE FinalWinner(dups[Max(ReportOf(key))].winner)

(* DuplicateKeys: of the keys that are written on a mapping, those whose   *)
(* value GitLab ignores are reported, once and under their job, and the    *)
(* winners that the reports name lead to the key whose value counts; with  *)
(* several << the winner is of the first that overrides the key.           *)
MergesOf(m) == SelectSeq(file.nodes[m].entries, LAMBDA x : IsMerge(file.nodes, x))
IgnoredIsReported ==
  stage = "resolve" /\ AsLoaded =>
    \A entry \in ToSet(file.nodes[doc.root].entries) :
      \A m \in Below(file.nodes, entry[2]) \ Dead :
        \A x \in ToSet(file.nodes[m].entries) :
          ~IsMerge(file.nodes, x) =>
            LET setter == Setters(file.nodes, m)[KeyID(file.nodes, x[1])]
            IN  /\ Cardinality(ReportOf(x[1])) = IF setter = x[1] THEN 0 ELSE 1
                /\ Len(MergesOf(m)) <= 1 => FinalWinner(x[1]) = setter
                /\ \A i \in ReportOf(x[1]) : dups[i].job = JobOf(file.nodes[entry[1]].value)

(* Nothing that was written gets lost in silence: what the passes leave as *)
(* it is they leave for a reason (alias.go, reference.go), and what they   *)
(* drop is reported (alias.go, DuplicateKey).                              *)
AccountedFor == LeftForAReason /\ IgnoredIsReported

(* The sections of the mapping v that hold commands.                       *)
Section(v, key) == ItemsOf(Get(v, key))
IsScriptJob(v) == \E key \in {"script", "run", "trigger"} : Get(v, key) # Cycle
JobsOf(v) == { id[2] : id \in { i \in DOMAIN v.map : IsMapValue(v.map[i]) /\
                 (i[2] \in ReservedKeys => i[2] \in {"default", "workflow"} /\ IsScriptJob(v.map[i])) } }

(* The mappings of the tree that have script sections: the keys of these,  *)
(* and the path of the mapping.                                            *)
Container(n, keys, path) == [node |-> n, keys |-> keys, path |-> path]
HoldsScripts(entry) ==
  IsMap(nodes, entry[2]) /\ (IsJob(nodes, entry) \/ nodes[entry[1]].value = "default")
Containers ==
  LET name(entry) == nodes[entry[1]].value
      holders == { entry \in ToSet(nodes[doc.root].entries) : HoldsScripts(entry) }
      hooks(entry) == FindKey(nodes, entry[2], "hooks")
  IN  {Container(doc.root, {"before_script", "after_script"}, << >>)}
      \cup { Container(entry[2], ScriptKeys, <<name(entry)>>) : entry \in holders }
      \cup { Container(hooks(entry), {"pre_get_sources_script"}, <<name(entry), "hooks">>) :
                entry \in { e \in holders : hooks(e) # None } }

(* The jobs are those that GitLab makes of the file, and where a job, its  *)
(* hooks, default: or the file itself has a script, the items of that list *)
(* are the commands that GitLab runs, in their order: rules and ShellCheck *)
(* read nothing but the items.                                             *)
CommandsAsRun ==
  stage = "parsed" /\ AsLoaded /\ left > 0 /\ IsMap(nodes, doc.root)
    /\ (\A p \in ReferencesIn(Loaded) : IsSimple(p)) =>
      LET value == Inlined(Loaded)
      IN  /\ { nodes[entry[1]].value : entry \in { e \in ToSet(nodes[doc.root].entries) : IsJob(nodes, e) } }
               = JobsOf(value)
          /\ \A c \in Containers : \A key \in c.keys :
               LET script == FindKey(nodes, c.node, key)
               IN  script # None /\ ~IsNull(nodes, script) /\ ~IsReference(nodes, script) /\ ~IsMap(nodes, script) =>
                     /\ IsList(nodes, script)
                     /\ \A item \in ToSet(nodes[script].items) : ~IsNested(nodes, item)
                     /\ [i \in DOMAIN nodes[script].items |-> Read(nodes, nodes[script].items[i])]
                          = Section(At(value, c.path), key)
=============================================================================
