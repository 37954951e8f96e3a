---------------------------- MODULE JobVariables ----------------------------
(***************************************************************************)
(* Which values a variable can have in a job (rules/jobvariables.go).  A   *)
(* variable is set in a rules: entry, in the job or what it extends, in a  *)
(* workflow:rules entry, at the top level and in default:, nearest first.  *)
(***************************************************************************)
EXTENDS JobInheritance

(* varValues: NAME: value, or NAME: with a value: of its own.              *)
VarValues(vars, name) ==
  LET v == FindKey(vars, name)
      short == IF v.is = "map" THEN FindKey(v, "value") ELSE v
  IN  IF short.is = "scalar" THEN <<short.value>> ELSE <<>>

Rules(container) ==
  LET rules == FindKey(container, "rules") IN IF IsList(rules) THEN rules.items ELSE <<>>

RuleExcludes(rule) == FindKey(rule, "when") = Scalar("never")

Running(container) == SelectSeq(Rules(container), LAMBDA r : ~RuleExcludes(r))
SetIn(running, name) == [i \in DOMAIN running |-> VarValues(FindKey(running[i], "variables"), name)]

(* ruleVariableValues.  all: every entry that can run the job sets name.   *)
ValuesOfAll(sets) ==
  [values |-> FlattenSeq(sets), all |-> sets # <<>> /\ \A i \in DOMAIN sets : sets[i] # <<>>]
RuleVariableValues(container, name) == ValuesOfAll(SetIn(Running(container), name))

(* pipelineVariablesOf: the blocks that are there, nearest first.          *)
PipelineBlocks(file) ==
  SelectSeq(<<FindKey(file, "variables"), FindKey(FindKey(file, "default"), "variables")>>,
            LAMBDA b : b # Nil)

(* What is set further away counts unless every entry of rules: sets it.   *)
Over(rules, far) ==
  IF rules.all THEN [values |-> rules.values, unset |-> FALSE]
  ELSE [values |-> rules.values \o far.values, unset |-> far.unset]
Unset == [values |-> <<>>, unset |-> TRUE]
OneOf(values, far) == IF values # <<>> THEN [values |-> values, unset |-> FALSE] ELSE far

(* What the pipeline gives a job, and what workflow:rules may put over it. *)
FromPipeline(file, name) ==
  LET blocks == PipelineBlocks(file)
      values == SelectSeq([i \in DOMAIN blocks |-> VarValues(blocks[i], name)], LAMBDA vs : vs # <<>>)
  IN  Over(RuleVariableValues(FindKey(file, "workflow"), name),
           IF values = <<>> THEN Unset ELSE OneOf(values[1], Unset))

(* possible: the values, nearest first, and whether it can be unset.       *)
Possible(file, job, name) ==
  LET merged == Effective(file, job)
  IN  Over(RuleVariableValues(merged, name),
           OneOf(VarValues(FindKey(merged, "variables"), name),
                 IF InheritAllows(InheritValue(file, job, "variables"), name)
                 THEN FromPipeline(file, name) ELSE Unset))

IsTrueValue(v) == v = "true"
IsSetValue(v) == v # ""

(* The values wanted of a variable: "true", or any that is not empty.      *)
Wanted(want, v) == IF want = "true" THEN IsTrueValue(v) ELSE IsSetValue(v)

AllWanted(p, want) ==
  ~p.unset /\ p.values # <<>> /\ \A i \in DOMAIN p.values : Wanted(want, p.values[i])
Always(file, job, name, want) == AllWanted(Possible(file, job, name), want)

Sometimes(file, job, name, want) ==
  \E v \in Range(Possible(file, job, name).values) : Wanted(want, v)
=============================================================================
