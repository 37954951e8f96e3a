---------------------------- MODULE ScriptRules ----------------------------
(***************************************************************************)
(* The rules about the commands of scripts and the values of variables.    *)
(***************************************************************************)
EXTENDS RuleHelpers

(* GL002: a variable that others fill in, without quotes, on any line that *)
(* the file has for a shell.                                               *)
GL002(file) ==
  UNION { { Finding("GL002", at.job, cmd.tool) :
              cmd \in { c \in Range(at.line.commands) : "unquoted user variable" \in c.marks } } :
            at \in ScriptLinesOf(file) }

(* eachVariablesBlock: the variables: of the file, of default:, of the     *)
(* workflow and of jobs, with the entry of rules: they are in.             *)
BlocksOfRules(container, job) ==
  { [vars |-> FindKey(r, "variables"), job |-> job, rule |-> r] : r \in Range(Rules(container)) }
BlockOf(container, job) == [vars |-> FindKey(container, "variables"), job |-> job, rule |-> Nil]
VariablesBlocks(file) ==
  {BlockOf(file, ""), BlockOf(FindKey(file, "default"), "")} \union BlocksOfRules(FindKey(file, "workflow"), "")
  \union UNION { {BlockOf(file.at[job], job)} \union BlocksOfRules(file.at[job], job) : job \in Jobs(file) }

(* GL082: a variable that turns a managed scan off, but for schedules.     *)
ScanDisableVars == {"SAST_DISABLED", "DAST_DISABLED"}
DisablesScan == {"true", "1"}
RECURSIVE HasAlternatives(_)
HasAlternatives(expr) == expr.op = "or" \/ \E i \in DOMAIN expr.args : HasAlternatives(expr.args[i])
OnlySchedules(rule) ==
  Asks(rule, {"source is schedule"}) /\ ~HasAlternatives(If(rule).value)
GL082(file) ==
  UNION { { Finding("GL082", block.job, name) :
              name \in { n \in ScanDisableVars : Range(VarValues(block.vars, n)) \intersect DisablesScan # {} } } :
            block \in { b \in VariablesBlocks(file) : ~OnlySchedules(b.rule) } }

(* GL089: Renovate with autodiscovery and nothing that limits it.  A flag  *)
(* on the command line wins over the variable.                             *)
AutodiscoverLimits == {"FILTER", "NAMESPACES"}

UnlimitedAutodiscover(file, job, cmd) ==
  /\ cmd.tool = "renovate"
  /\ \/ "on" \in cmd.marks
     \/ "off" \notin cmd.marks /\ Sometimes(file, job, "AUTODISCOVER", "true")
  /\ "limited" \notin cmd.marks
  /\ \A name \in AutodiscoverLimits : ~Always(file, job, name, "set")

GL089(file) ==
  { Finding("GL089", job, "unlimited") : job \in { j \in Visible(file) :
      \E cmd \in Range(CommandsOf(ItemsOf(Key(file, j, "before_script")) \o ItemsOf(Key(file, j, "script")))) :
        UnlimitedAutodiscover(file, j, cmd) } }
=============================================================================
