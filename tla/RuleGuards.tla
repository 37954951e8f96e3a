----------------------------- MODULE RuleGuards -----------------------------
(***************************************************************************)
(* What rules: and only: say of the pipelines a job runs in: the reading   *)
(* of the linter (rules/gl013.go, gl081.go) and, apart from it, GitLab's.  *)
(*                                                                         *)
(* An expression of if: is its tree: "or" and "and" of operands, which     *)
(* splitTopLevel and trimOuterParens find outside quotes and parentheses,  *)
(* and "broken" where the parentheses do not balance.  An operand is named *)
(* for what it tests; the sets say which regular expression matches it.    *)
(***************************************************************************)
EXTENDS JobVariables

Test(name) == [op |-> "test", name |-> name, args |-> <<>>]
Or(args) == [op |-> "or", name |-> "", args |-> args]
And(args) == [op |-> "and", name |-> "", args |-> args]
Broken == [op |-> "broken", name |-> "", args |-> <<>>]

(* mrSourceRe, mrVarRe without the tests for null and for "".              *)
MRTests == {"source is MR", "MR variable", "MR variable is other's"}
(* branchOrTagRe.                                                          *)
BranchOrTagTests == {"branch", "default branch", "named branch", "tag"}
(* protDefaultBranchPat, protNamedBranchPat, protTagPat, protProtectedPat. *)
ProtectedTests == {"default branch", "named branch", "default ref", "tag", "protected"}

RECURSIVE Mentions(_, _)
Mentions(expr, tests) ==
  expr.name \in tests \/ \E i \in DOMAIN expr.args : Mentions(expr.args[i], tests)

(* A slip: one alternative is enough.                                      *)
RECURSIVE IfRequiresMRSomewhere(_)
IfRequiresMRSomewhere(expr) ==
  CASE expr.op = "test" -> expr.name \in MRTests
    [] expr.op = "or" -> \E i \in DOMAIN expr.args : IfRequiresMRSomewhere(expr.args[i])
    [] expr.op = "and" -> /\ \A i \in DOMAIN expr.args : ~Mentions(expr.args[i], BranchOrTagTests)
                          /\ \E i \in DOMAIN expr.args : IfRequiresMRSomewhere(expr.args[i])
    [] OTHER -> FALSE

(* ifRequiresMR: true only in a merge request pipeline.                    *)
RECURSIVE IfRequiresMR(_)
IfRequiresMR(expr) ==
  CASE expr.op = "test" -> expr.name \in MRTests
    [] expr.op = "or" -> \A i \in DOMAIN expr.args : IfRequiresMR(expr.args[i])
    [] expr.op = "and" -> /\ \A i \in DOMAIN expr.args : ~Mentions(expr.args[i], BranchOrTagTests)
                          /\ \E i \in DOMAIN expr.args : IfRequiresMR(expr.args[i])
    [] OTHER -> FALSE

(* ifAdmitsMR looks at the text: the source named, and no != anywhere.     *)
IfAdmitsMR(expr) ==
  /\ Mentions(expr, {"source is MR", "source is not MR"})
  /\ ~Mentions(expr, {"source is not MR", "is not set to no"})

RECURSIVE IfRestrictsToProtected(_)
IfRestrictsToProtected(expr) ==
  CASE expr.op = "test" -> expr.name \in ProtectedTests
    [] expr.op = "or" -> \A i \in DOMAIN expr.args : IfRestrictsToProtected(expr.args[i])
    [] expr.op = "and" -> \E i \in DOMAIN expr.args : IfRestrictsToProtected(expr.args[i])
    [] OTHER -> FALSE

If(rule) == FindKey(rule, "if")
Asks(rule, tests) == If(rule).is = "scalar" /\ Mentions(If(rule).value, tests)

(* runsOnlyInMRPipelines, with onlyMergeRequests for a job without rules:. *)
RECURSIVE OnlyMergeRequests(_)
OnlyMergeRequests(v) ==
  CASE v.is = "scalar" -> v.value = "merge_requests"
    [] v.is = "list" -> v.items # <<>> /\ Range(v.items) = {Scalar("merge_requests")}
    [] v.is = "map" -> OnlyMergeRequests(FindKey(v, "refs"))
    [] OTHER -> FALSE

AllRequireMR(running) ==
  /\ running # <<>>
  /\ \A i \in DOMAIN running : If(running[i]).is = "scalar" /\ IfRequiresMR(If(running[i]).value)
OnlyInMRPipelines(rules, only) ==
  IF rules = Nil THEN OnlyMergeRequests(only)
  ELSE IsList(rules) /\ AllRequireMR(SelectSeq(rules.items, LAMBDA r : ~RuleExcludes(r)))
RunsOnlyInMRPipelines(file, job) ==
  OnlyInMRPipelines(Key(file, job, "rules"), Key(file, job, "only"))

AllRestrict(running) ==
  /\ running # <<>>
  /\ \A i \in DOMAIN running :
       /\ If(running[i]).is = "scalar"
       /\ ~IfAdmitsMR(If(running[i]).value)
       /\ IfRestrictsToProtected(If(running[i]).value)
WorkflowRestrictsToProtected(file) ==
  AllRestrict(SelectSeq(Running(FindKey(file, "workflow")), LAMBDA r : r.is = "map"))

-----------------------------------------------------------------------------
(* GitLab.  A pipeline is of a merge request, a branch or a tag; what else *)
(* an operand asks for holds or not, and so for changes: and exists:.      *)
Pipelines ==
  [kind : {"MR", "default branch", "named branch", "branch", "tag"}, other : BOOLEAN, changed : BOOLEAN]

Holds(test, p) ==
  CASE test \in {"source is MR", "MR variable"} -> p.kind = "MR"
    [] test \in {"no MR variable", "source is not MR"} -> p.kind # "MR"
    [] test = "MR variable is other's" -> p.other \* outside of an MR both may be null
    [] test \in {"true", "author is set"} -> TRUE
    [] test \in {"value is x", "author is x"} -> p.other
    [] test \in {"value is not x", "value is not y"} -> ~p.other
    [] test = "branch" -> p.kind \notin {"MR", "tag"}
    [] test = "default ref" -> p.kind = "default branch" \/ (p.kind = "MR" /\ p.other)
    [] test \in {"default branch", "protected"} -> p.kind = "default branch"
    [] test \in {"named branch", "tag"} -> p.kind = test
    [] OTHER -> p.other

RECURSIVE IsTrue(_, _)
IsTrue(expr, p) ==
  CASE expr.op = "test" -> Holds(expr.name, p)
    [] expr.op = "or" -> \E i \in DOMAIN expr.args : IsTrue(expr.args[i], p)
    [] expr.op = "and" -> \A i \in DOMAIN expr.args : IsTrue(expr.args[i], p)
    [] OTHER -> FALSE

Matches(rule, p) ==
  /\ If(rule) # Nil => IsTrue(If(rule).value, p)
  /\ FindKey(rule, "changes") # Nil => p.changed

(* The first rule that matches decides: Nil when none does.                *)
Deciding(rules, p) == First(SelectSeq(rules, LAMBDA r : Matches(r, p)))

AdmittedBy(rule) == rule # Nil /\ ~RuleExcludes(rule)
Admits(rules, p) == AdmittedBy(Deciding(rules, p))

Starts(file, p) ==
  IsList(FindKey(FindKey(file, "workflow"), "rules")) => Admits(Rules(FindKey(file, "workflow")), p)

(* Without rules: and only: a job runs for branches and tags.  A branch    *)
(* may also be named; here the named branch is main.                       *)
Refs(clause) ==
  LET named(refs) == CASE refs.is = "scalar" -> {refs.value}
                       [] refs.is = "list" -> { i.value : i \in Range(refs.items) }
                       [] OTHER -> {}
  IN  named(IF clause.is = "map" THEN FindKey(clause, "refs") ELSE clause)
RefsOf(p) ==
  CASE p.kind = "MR" -> {"merge_requests"}
    [] p.kind = "tag" -> {"tags"}
    [] p.kind = "named branch" -> {"branches", "main"}
    [] OTHER -> {"branches"}
OnlyAdmits(refs, p) == RefsOf(p) \intersect (IF refs = {} THEN {"branches", "tags"} ELSE refs) # {}

RunsMerged(merged, p) ==
  IF FindKey(merged, "rules") # Nil THEN Admits(Rules(merged), p)
  ELSE /\ OnlyAdmits(Refs(FindKey(merged, "only")), p)
       /\ RefsOf(p) \intersect Refs(FindKey(merged, "except")) = {}
Runs(file, job, p) == Starts(file, p) /\ RunsMerged(Effective(file, job), p)

(* The value of a variable in a pipeline: of the nearest place that has    *)
(* it, the deciding rules included; <<>> when it is unset.                 *)
Near(merged, p) == <<FindKey(Deciding(Rules(merged), p), "variables"), FindKey(merged, "variables")>>
Far(file, p) ==
  <<FindKey(Deciding(Rules(FindKey(file, "workflow")), p), "variables"),
    FindKey(file, "variables"), FindKey(FindKey(file, "default"), "variables")>>
FirstValue(places, name) ==
  VarValues(First(SelectSeq(places, LAMBDA vars : VarValues(vars, name) # <<>>)), name)
ValueOfMerged(file, merged, name, p) ==
  FirstValue(Near(merged, p)
             \o (IF InheritAllows(FindKey(FindKey(merged, "inherit"), "variables"), name) THEN Far(file, p) ELSE <<>>),
             name)
ValueIn(file, job, name, p) == ValueOfMerged(file, Effective(file, job), name, p)
=============================================================================
