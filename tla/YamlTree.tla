------------------------------ MODULE YamlTree ------------------------------
(***************************************************************************)
(* The passes that Parse (internal/parser/parser.go) makes over the tree   *)
(* of a file, until the rules see what GitLab's loader, Ruby's Psych,      *)
(* would give.  Keys that come again are removed (duplicates.go), aliases  *)
(* and merge keys are expanded (alias.go), !reference tags are replaced by *)
(* copies (reference.go), default: and workflow: with a script become      *)
(* jobs, and scripts become flat lists (script.go).                        *)
(*                                                                         *)
(* The nodes of a file are a heap: an alias, once expanded, is the node of *)
(* its anchor, which is then in several places of the tree, and what a     *)
(* later pass writes to it is seen in all of them.                         *)
(***************************************************************************)
EXTENDS Integers, SequencesExt

CONSTANTS
  MaxExpandedNodes,  \* maxExpandedNodes
  MaxScriptNesting   \* maxScriptNesting

(* A mapping has entries of a key and a value, a list has items; both are  *)
(* Content in the code.  A reference is a list, of its path, with a tag.   *)
Node(kind, tag, value, entries, items, target) ==
  [kind |-> kind, tag |-> tag, value |-> value, entries |-> entries, items |-> items, alias |-> target]

None == 0

IsMap(ns, n) == ns[n].kind = "mapping"
IsList(ns, n) == ns[n].kind = "sequence"
IsScalar(ns, n) == ns[n].kind = "scalar"
IsAlias(ns, n) == ns[n].kind = "alias"
IsNull(ns, n) == IsScalar(ns, n) /\ ns[n].tag = "!!null"
IsReference(ns, n) == ns[n].tag = "!reference"

Keys(ns, n) == [i \in DOMAIN ns[n].entries |-> ns[n].entries[i][1]]
Values(ns, n) == [i \in DOMAIN ns[n].entries |-> ns[n].entries[i][2]]
Children(ns, n) == ns[n].items \o Keys(ns, n) \o Values(ns, n)

(* The first value of a key: 0 when there is none.                         *)
FindKey(ns, n, key) ==
  LET at == { i \in DOMAIN ns[n].entries :
                LET k == ns[ns[n].entries[i][1]] IN k.value = key /\ k.tag # "!glsec/keyword-job" }
  IN  IF IsMap(ns, n) /\ at # {} THEN ns[n].entries[CHOOSE i \in at : \A j \in at : i <= j][2] ELSE None

ReservedKeys == {"stages", "variables", "default", "workflow", "include", "image", "services",
                 "cache", "before_script", "after_script"}
IsKeywordJob(ns, key) == ns[key].tag = "!glsec/keyword-job"
IsJob(ns, entry) ==
  IsMap(ns, entry[2]) /\ (ns[entry[1]].value \in ReservedKeys => IsKeywordJob(ns, entry[1]))

(* keyID: keys are told apart by value and type; a << has no id.           *)
HasID(ns, key) == IsScalar(ns, key) /\ ns[key].tag # "!!merge"
KeyID(ns, key) == <<ns[key].tag, ns[key].value>>
SameKey(ns, k, l) == HasID(ns, k) /\ HasID(ns, l) /\ KeyID(ns, k) = KeyID(ns, l)

JobOf(name) == IF name \in ReservedKeys THEN "" ELSE name

-----------------------------------------------------------------------------
(* CollapseDuplicateKeys.  c has the heap and the reports so far.          *)
IsDead(ns, entries, i) == \E j \in i + 1 .. Len(entries) : SameKey(ns, entries[i][1], entries[j][1])

Winner(ns, entries, i) ==
  LET same == { j \in DOMAIN entries : SameKey(ns, entries[i][1], entries[j][1]) }
  IN  entries[Max(same)][1]

Collapse(c, n, job, top) ==
  LET entries == c.nodes[n].entries
      dead == SelectSeq([i \in DOMAIN entries |-> i], LAMBDA i : IsDead(c.nodes, entries, i))
      report(i) == [key |-> entries[i][1], winner |-> Winner(c.nodes, entries, i), merge |-> None,
                    job |-> IF top THEN JobOf(c.nodes[entries[i][1]].value) ELSE job]
  IN  [nodes |-> [c.nodes EXCEPT ![n].entries =
                    LET kept == SelectSeq([i \in DOMAIN entries |-> i],
                                          LAMBDA i : ~IsDead(c.nodes, entries, i))
                    IN  [i \in DOMAIN kept |-> entries[kept[i]]]],
       dups |-> c.dups \o [i \in DOMAIN dead |-> report(dead[i])]]

RECURSIVE WalkCollapse(_, _, _)
WalkCollapse(c, n, job) ==
  LET here == Collapse(c, n, job, FALSE)
  IN  FoldLeft(LAMBDA x, child : WalkCollapse(x, child, job), here, Children(here.nodes, n))

CollapseDuplicateKeys(c, root) ==
  IF ~IsMap(c.nodes, root) THEN WalkCollapse(c, root, "")
  ELSE LET here == Collapse(c, root, "", TRUE)
       IN  FoldLeft(LAMBDA x, entry : WalkCollapse(x, entry[2], JobOf(x.nodes[entry[1]].value)),
                    here, here.nodes[root].entries)

-----------------------------------------------------------------------------
(* ExpandAliases.  e is the expander: nodes, done, path (onPath), used,    *)
(* root, job and dups (overridden).                                        *)
Fits(used, size) == used + size <= MaxExpandedNodes

(* The nodes that a walk over n visits, shared ones once per path.         *)
RECURSIVE Size(_, _)
Size(ns, n) == FoldLeft(LAMBDA sum, child : sum + Size(ns, child), 1, Children(ns, n))

PositionOf(ns, out, key) ==
  LET same == { i \in DOMAIN out : SameKey(ns, out[i][1], key) }
  IN  IF same = {} THEN None ELSE Min(same)

(* put: a key keeps the position it was first set at.                      *)
Put(ns, out, entry) ==
  LET pos == PositionOf(ns, out, entry[1])
  IN  IF pos = None THEN Append(out, entry) ELSE [out EXCEPT ![pos] = entry]

IsMerge(ns, entry) == ns[entry[1]].tag = "!!merge"

Sources(ns, value) == IF IsList(ns, value) THEN ns[value].items ELSE <<value>>

MergedEntriesForwards(ns, value) ==   \* mutant: the last source of a list wins
  FoldLeft(LAMBDA out, entry : Put(ns, out, entry), << >>,
           FlattenSeq([i \in DOMAIN Sources(ns, value) |-> ns[Sources(ns, value)[i]].entries]))
MergedEntries(ns, value) ==
  FoldLeft(LAMBDA out, entry : Put(ns, out, entry), << >>,
           FlattenSeq([i \in DOMAIN Sources(ns, value) |-> ns[Reverse(Sources(ns, value))[i]].entries]))
IsComplete(ns, value) == \A src \in ToSet(Sources(ns, value)) : IsMap(ns, src)

(* reportOverride, for each own key that a merged key replaces; f is the   *)
(* mapping being folded: out, own (the keys written on it) and dups.       *)
PutOwn(ns, f, entry) == [f EXCEPT !.out = Put(ns, @, entry), !.own = @ \cup {entry[1]}]
PutMerged(ns, f, entry, merge, job) ==
  LET pos == PositionOf(ns, f.out, entry[1])
      key == f.out[pos][1]
  IN  IF pos # None /\ key \in f.own
        THEN [out |-> Put(ns, f.out, entry), own |-> f.own \ {key},
              dups |-> Append(f.dups, [key |-> key, winner |-> entry[1], merge |-> merge,
                                       job |-> job[key]])]
        ELSE [f EXCEPT !.out = Put(ns, @, entry)]

(* A << that is not complete stays, with the keys of its complete sources  *)
(* before it.                                                              *)
PutIfNotComplete(ns, f, entry) == IF IsComplete(ns, entry[2]) THEN f ELSE [f EXCEPT !.out = Append(@, entry)]
PutMerge(ns, f, entry, job) ==
  PutIfNotComplete(ns, FoldLeft(LAMBDA g, merged : PutMerged(ns, g, merged, entry[1], job), f,
                                MergedEntries(ns, entry[2])), entry)

JobsOfKeys(e, n) == [key \in DOMAIN e.nodes |-> JobOf(IF n = e.root THEN e.nodes[key].value ELSE e.job)]
PutAll(e, n, job) ==
  FoldLeft(LAMBDA f, entry : IF IsMerge(e.nodes, entry) THEN PutMerge(e.nodes, f, entry, job)
                                                        ELSE PutOwn(e.nodes, f, entry),
           [out |-> << >>, own |-> {}, dups |-> e.dups], e.nodes[n].entries)
Replaced(e, n, folded) == [e EXCEPT !.nodes[n].entries = folded.out, !.dups = folded.dups]
FoldMergeKeys(e, n) ==
  IF \E i \in DOMAIN e.nodes[n].entries : IsMerge(e.nodes, e.nodes[n].entries[i])
    THEN Replaced(e, n, PutAll(e, n, JobsOfKeys(e, n))) ELSE e

IsBegun(e, n) ==   \* mutant: whatever was visited counts as enclosing
  n \in e.done
IsOnPath(e, n) == n \in e.path

(* resolve gives the expander and the node that takes the place of n.      *)
Charged(x, n, target, size) ==
  IF Fits(x.used, size) THEN [e |-> [x EXCEPT !.used = @ + size], node |-> target] ELSE [e |-> x, node |-> n]
ResolvedTo(x, n, target) == Charged(x, n, target, Size(x.nodes, target))

RECURSIVE Expand(_, _)
Resolve(e, n) ==
  CASE ~IsAlias(e.nodes, n) -> [e |-> Expand(e, n), node |-> n]
    [] IsAlias(e.nodes, n) /\ IsOnPath(e, e.nodes[n].alias) -> [e |-> e, node |-> n]
    [] OTHER -> ResolvedTo(Expand(e, e.nodes[n].alias), n, e.nodes[n].alias)

AtEntry(r, n, i) == [r.e EXCEPT !.nodes[n].entries[i][2] = r.node]
ExpandEntry(e, n, i) ==
  AtEntry(Resolve(IF n = e.root THEN [e EXCEPT !.job = e.nodes[e.nodes[n].entries[i][1]].value] ELSE e,
                  e.nodes[n].entries[i][2]), n, i)

(* The alias of a list is spliced into the list it is an item of.          *)
Spliced(r, item, out) ==
  [e |-> r.e,
   out |-> out \o IF r.node # item /\ IsList(r.e.nodes, r.node) THEN r.e.nodes[r.node].items ELSE <<r.node>>]
WithItems(x, n) == [x.e EXCEPT !.nodes[n].items = x.out]
ExpandItems(e, n) ==
  WithItems(FoldLeft(LAMBDA x, item : Spliced(Resolve(x.e, item), item, x.out),
                     [e |-> e, out |-> << >>], e.nodes[n].items), n)

ExpandInside(e, n) ==
  CASE IsMap(e.nodes, n) ->
         FoldMergeKeys(FoldLeft(LAMBDA x, i : ExpandEntry(x, n, i), e,
                                [i \in DOMAIN e.nodes[n].entries |-> i]), n)
    [] IsList(e.nodes, n) -> ExpandItems(e, n)
    [] OTHER -> e
Expand(e, n) ==
  IF n \in e.done THEN e
  ELSE [ExpandInside([e EXCEPT !.done = @ \cup {n}, !.path = @ \cup {n}], n) EXCEPT !.path = e.path]

ExpandAliases(c, root) ==
  Expand([nodes |-> c.nodes, dups |-> c.dups, done |-> {}, path |-> {}, used |-> 0,
          root |-> root, job |-> ""], root)

-----------------------------------------------------------------------------
(* ResolveReferences.  r is the resolver: nodes and left.                  *)
IsPath(ns, ref) == ns[ref].items # << >> /\ \A seg \in ToSet(ns[ref].items) : IsScalar(ns, seg)
PathOf(ns, ref) == [i \in DOMAIN ns[ref].items |-> ns[ns[ref].items[i]].value]

LookupPath(ns, top, segs) ==
  FoldLeft(LAMBDA cur, seg : IF cur = None THEN None ELSE FindKey(ns, cur, seg), top, segs)

WithContent(node, copies) ==
  LET items == Len(node.items)
      size == Len(node.entries)
  IN  [node EXCEPT !.items = SubSeq(copies, 1, items),
                   !.entries = [i \in 1 .. size |-> <<copies[items + i], copies[items + size + i]>>]]
AddNode(ns, node) ==
  LET new == 1 + Max(DOMAIN ns)
  IN  [nodes |-> [i \in DOMAIN ns \cup {new} |-> IF i = new THEN node ELSE ns[i]], node |-> new]
AddCopy(all, node) == AddNode(all.nodes, WithContent(node, all.copies))
AfterCopy(y, copies) == [nodes |-> y.nodes, copies |-> Append(copies, y.node)]

RECURSIVE DeepCopy(_, _)
DeepCopy(ns, n) ==
  AddCopy(FoldLeft(LAMBDA x, child : AfterCopy(DeepCopy(x.nodes, child), x.copies),
                   [nodes |-> ns, copies |-> << >>], Children(ns, n)), ns[n])

IsCopied(active, path) ==   \* mutant: the references in a copy are not resolved
  active # {}
IsCircular(active, path) == path \in active

(* Gives the resolver and the copy, or None.                               *)
Unresolved(r) == [r |-> r, node |-> None]
Copied(r, size, copy) == [r |-> [nodes |-> copy.nodes, left |-> r.left - size], node |-> copy.node]
Copy(r, target, size) ==
  IF size > r.left THEN Unresolved([r EXCEPT !.left = 0]) ELSE Copied(r, size, DeepCopy(r.nodes, target))
CopyOf(r, target) == IF target = None THEN Unresolved(r) ELSE Copy(r, target, Size(r.nodes, target))

RECURSIVE ExpandReferences(_, _, _, _)
ExpandCopy(c, top, active) ==
  IF c.node = None THEN c ELSE [c EXCEPT !.r = ExpandReferences(@, top, c.node, active)]
ResolveReference(r, top, ref, active) ==
  IF ~IsPath(r.nodes, ref) \/ IsCircular(active, PathOf(r.nodes, ref)) THEN Unresolved(r)
  ELSE ExpandCopy(CopyOf(r, LookupPath(r.nodes, top, PathOf(r.nodes, ref))), top,
                  active \cup {PathOf(r.nodes, ref)})

CopyAtEntry(x, n, i) == IF x.node = None THEN x.r ELSE [x.r EXCEPT !.nodes[n].entries[i][2] = x.node]
ReferenceEntry(r, top, n, i, active) ==
  LET value == r.nodes[n].entries[i][2]
  IN  IF IsReference(r.nodes, value) THEN CopyAtEntry(ResolveReference(r, top, value, active), n, i)
                                     ELSE ExpandReferences(r, top, value, active)

(* The copy of a list is spliced into the list that the reference is in.   *)
SplicedCopy(y, item, out) ==
  [r |-> y.r,
   out |-> out \o CASE y.node = None -> <<item>>
                    [] y.node # None /\ IsList(y.r.nodes, y.node) -> y.r.nodes[y.node].items
                    [] OTHER -> <<y.node>>]
ReferenceItem(x, top, item, active) ==
  IF IsReference(x.r.nodes, item) THEN SplicedCopy(ResolveReference(x.r, top, item, active), item, x.out)
  ELSE [r |-> ExpandReferences(x.r, top, item, active), out |-> Append(x.out, item)]
WithCopies(x, n) == [x.r EXCEPT !.nodes[n].items = x.out]

ExpandReferences(r, top, n, active) ==
  CASE IsMap(r.nodes, n) -> FoldLeft(LAMBDA x, i : ReferenceEntry(x, top, n, i, active), r,
                                     [i \in DOMAIN r.nodes[n].entries |-> i])
    [] IsList(r.nodes, n) -> WithCopies(FoldLeft(LAMBDA x, item : ReferenceItem(x, top, item, active),
                                                 [r |-> r, out |-> << >>], r.nodes[n].items), n)
    [] OTHER -> r

ResolveReferences(ns, top) ==
  IF IsMap(ns, top) THEN ExpandReferences([nodes |-> ns, left |-> MaxExpandedNodes], top, top, {})
                    ELSE [nodes |-> ns, left |-> MaxExpandedNodes]

-----------------------------------------------------------------------------
(* markKeywordJobs and NormalizeScripts.                                   *)
MakesJob(ns, n) == \E key \in {"script", "run", "trigger"} : FindKey(ns, n, key) # None

MarkKeywordJobs(ns, top) ==
  LET marked == { entry[1] : entry \in { e \in ToSet(ns[top].entries) :
                    ns[e[1]].value \in {"default", "workflow"} /\ IsMap(ns, e[2]) /\ MakesJob(ns, e[2]) } }
  IN  [n \in DOMAIN ns |-> IF n \in marked THEN [ns[n] EXCEPT !.tag = "!glsec/keyword-job"] ELSE ns[n]]

IsNested(ns, n) == IsList(ns, n) /\ ~IsReference(ns, n)

FlattenOnce(ns, items, depth) ==   \* mutant: only one level is flattened
  FlattenSeq([i \in DOMAIN items |-> IF IsNested(ns, items[i]) THEN ns[items[i]].items ELSE <<items[i]>>])

RECURSIVE Flatten(_, _, _)
Flatten(ns, items, depth) ==
  IF depth = 0 THEN items
  ELSE FlattenSeq([i \in DOMAIN items |-> IF IsNested(ns, items[i])
                                            THEN Flatten(ns, ns[items[i]].items, depth - 1)
                                            ELSE <<items[i]>>])

(* scriptList puts the list form of entry i of n in its place.             *)
ScriptList(ns, n, i) ==
  LET value == ns[n].entries[i][2]
      new == 1 + Max(DOMAIN ns)
      list == Node("sequence", "!!seq", "", << >>, <<value>>, None)
  IN  CASE IsScalar(ns, value) /\ ~IsNull(ns, value) /\ ~IsReference(ns, value) ->
             [m \in DOMAIN ns \cup {new} |->
                CASE m = new -> list [] m = n -> [ns[n] EXCEPT !.entries[i][2] = new] [] OTHER -> ns[m]]
        [] IsNested(ns, value) -> [ns EXCEPT ![value].items = Flatten(ns, @, MaxScriptNesting)]
        [] OTHER -> ns

ScriptLists(ns, n, keys) ==
  FoldLeft(LAMBDA x, i : IF x[x[n].entries[i][1]].value \in keys THEN ScriptList(x, n, i) ELSE x,
           ns, [i \in DOMAIN ns[n].entries |-> i])

ScriptKeys == {"before_script", "script", "after_script"}

(* normalizeContainer, with the hooks of the job.                          *)
NormalizeContainer(ns, n) ==
  FoldLeft(LAMBDA x, hooks : IF IsMap(x, hooks) THEN ScriptLists(x, hooks, {"pre_get_sources_script"}) ELSE x,
           ScriptLists(ns, n, ScriptKeys),
           LET all == SelectSeq(ns[n].entries, LAMBDA entry : ns[entry[1]].value = "hooks")
           IN  [i \in DOMAIN all |-> all[i][2]])

NormalizeScripts(ns, top) ==
  FoldLeft(LAMBDA x, entry : IF x[entry[1]].value \notin {"before_script", "after_script"}
                                /\ (x[entry[1]].value = "default" \/ IsJob(x, entry)) /\ IsMap(x, entry[2])
                               THEN NormalizeContainer(x, entry[2]) ELSE x,
           ScriptLists(ns, top, {"before_script", "after_script"}), ns[top].entries)
=============================================================================
