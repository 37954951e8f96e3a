--------------------------- MODULE JobInheritance ---------------------------
(***************************************************************************)
(* What a job of a file inherits, as the rules ask for it                  *)
(* (rules/helpers.go, type Inheritance): Key gives the value that applies, *)
(* Chain all the values along extends:, Effective the job with its         *)
(* templates merged in, Has and ExtendsResolved what must be asked first.  *)
(* Each walks extends: on its own, and they have to agree.                 *)
(*                                                                         *)
(* The tree is the one Parse leaves (ParseDocument.tla): no aliases and no *)
(* key twice, so a mapping is a function of its keys.  A file is a mapping *)
(* whose default: is not a job (parser.IsKeywordJob).                      *)
(***************************************************************************)
EXTENDS Integers, SequencesExt

CONSTANT MaxExtendsDepth  \* maxExtendsDepth

Nil == [is |-> "nil"]
Scalar(v) == [is |-> "scalar", value |-> v]
List(s) == [is |-> "list", items |-> s]
Map(f) == [is |-> "map", at |-> f]

FindKey(m, key) == IF m.is = "map" /\ key \in DOMAIN m.at THEN m.at[key] ELSE Nil
IsList(v) == v.is = "list"

(* The entries of extends: that name a job; a name in the file or not.     *)
Parents(job) ==
  LET ext == FindKey(job, "extends")
  IN  CASE ext.is = "nil" -> <<>>
        [] ext.is = "list" -> ext.items
        [] OTHER -> <<ext>>
Named(job) == SelectSeq(Parents(job), LAMBDA p : p.is = "scalar")

-----------------------------------------------------------------------------
(* extendedKey and chain: the jobs in the order both look at them, a job   *)
(* before its templates, the later templates before the earlier ones.      *)
RECURSIVE Visit(_, _, _, _)
Visit(file, name, depth, seen) ==
  IF FindKey(file, name).is # "map" \/ name \in Range(seen) \/ depth > MaxExtendsDepth
  THEN seen
  ELSE FoldLeft(LAMBDA s, p : Visit(file, p.value, depth + 1, s),
                Append(seen, name), Reverse(Named(FindKey(file, name))))

ValuesOf(file, names, key) ==
  SelectSeq([i \in DOMAIN names |-> FindKey(FindKey(file, names[i]), key)], LAMBDA v : v # Nil)
Chain(file, name, key) == ValuesOf(file, Visit(file, name, 0, <<>>), key)

First(values) == IF values = <<>> THEN Nil ELSE values[1]
ExtendedKey(file, name, key) == First(Chain(file, name, key))

(* mergeMappings: over on top of base.                                     *)
RECURSIVE MergeMappings(_, _)
MergeMappings(base, over) ==
  IF base.is # "map" \/ over.is # "map" THEN over
  ELSE Map([k \in DOMAIN base.at \union DOMAIN over.at |->
              CASE k \notin DOMAIN over.at -> base.at[k]
                [] k \notin DOMAIN base.at -> over.at[k]
                [] OTHER -> MergeMappings(base.at[k], over.at[k])])

RECURSIVE EffectiveAt(_, _, _)
EffectiveAt(file, name, depth) ==
  LET job == FindKey(file, name)
      bases == SelectSeq(Named(job), LAMBDA p : FindKey(file, p.value) # Nil)
  IN  IF job.is # "map" \/ depth >= MaxExtendsDepth THEN job
      ELSE MergeMappings(FoldLeft(LAMBDA merged, p :
                                    MergeMappings(merged, EffectiveAt(file, p.value, depth + 1)),
                                  Nil, bases),
                         job)
Effective(file, name) == EffectiveAt(file, name, 0)

RECURSIVE HasAt(_, _, _, _)
HasAt(file, name, key, depth) ==
  LET job == FindKey(file, name)
  IN  /\ job.is = "map"
      /\ depth < MaxExtendsDepth
      /\ \/ FindKey(job, key) # Nil
         \/ \E p \in Range(Named(job)) : HasAt(file, p.value, key, depth + 1)
Has(file, name, key) == HasAt(file, name, key, 0)

(* The jobs extendsResolved looks into; the first entry that is no job of  *)
(* the file makes its answer false.                                        *)
RECURSIVE Inspect(_, _, _, _)
Inspect(file, name, depth, seen) ==
  IF FindKey(file, name).is # "map" \/ name \in Range(seen) \/ depth >= MaxExtendsDepth
  THEN seen
  ELSE FoldLeft(LAMBDA s, p : Inspect(file, p.value, depth + 1, s),
                Append(seen, name), Named(FindKey(file, name)))

ExtendsResolved(file, name) ==
  \A n \in Range(Inspect(file, name, 0, <<>>)) :
    \A p \in Range(Parents(FindKey(file, n))) :
      p.is = "scalar" /\ FindKey(file, p.value) # Nil

-----------------------------------------------------------------------------
(* inherit:, which templates may give and the job overrides key by key.    *)
InheritValue(file, name, kind) ==
  IF Has(file, name, "inherit")
  THEN FindKey(FindKey(Effective(file, name), "inherit"), kind) ELSE Nil

InheritAllows(value, key) ==
  CASE value.is = "scalar" -> value.value # "false"
    [] value.is = "list" -> \E i \in DOMAIN value.items : value.items[i] = Scalar(key)
    [] OTHER -> TRUE

Inherits(file, name, kind, key) == InheritAllows(InheritValue(file, name, kind), key)

ScriptKeys == {"before_script", "after_script"}

Else(value, other) == IF value # Nil THEN value ELSE other
Preset(file, key) ==
  Else(FindKey(FindKey(file, "default"), key), IF key \in ScriptKeys THEN FindKey(file, key) ELSE Nil)
Key(file, name, key) ==
  Else(ExtendedKey(file, name, key),
       IF Inherits(file, name, "default", key) THEN Preset(file, key) ELSE Nil)

IncludedOverride(file, name) ==
  /\ FindKey(file, "include") # Nil
  /\ \A key \in {"script", "trigger", "run"} : Key(file, name, key) = Nil
=============================================================================
