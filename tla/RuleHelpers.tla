---------------------------- MODULE RuleHelpers ----------------------------
(***************************************************************************)
(* What the rules share: the jobs of a file, the words in names, the       *)
(* environment of a job, and where the scripts are (rules/helpers.go,      *)
(* entrypoint.go, gl013.go, gl017.go).                                     *)
(*                                                                         *)
(* Names of jobs, stages and environments are told apart by the words the  *)
(* keyword lists of the rules look for.  A line of a script has commands,  *)
(* and a command the tool it runs and the marks that patterns find on it.  *)
(***************************************************************************)
EXTENDS RuleGuards

Command(tool, marks) == [tool |-> tool, marks |-> marks]
Script(cmds) == [is |-> "scalar", value |-> "script", commands |-> cmds]
Reference == [is |-> "reference"]  \* a !reference to what is not in the file

Finding(id, job, what) == [rule |-> id, job |-> job, what |-> what]

Hidden == {".t", ".u", ".v"}  \* a name with a dot in front
ReservedKeys == {"stages", "variables", "default", "workflow", "include", "image", "services",
                 "cache", "before_script", "after_script"}

(* EachJob, and the jobs among them that GitLab runs.                      *)
Jobs(file) == { name \in DOMAIN file.at \ ReservedKeys : file.at[name].is = "map" }
Visible(file) == Jobs(file) \ Hidden

(* The file holds all that decides about the job.                          *)
SeenWhole(file, job) == ExtendsResolved(file, job) /\ ~IncludedOverride(file, job)

-----------------------------------------------------------------------------
(* Names.                                                                  *)
Words(name) ==
  CASE name = "release build" -> {"release", "build"}
    [] name = "deploy test" -> {"deploy", "test"}
    [] name = "push build" -> {"push", "build"}
    [] name = "pre production" -> {"pre", "production"}
    [] OTHER -> {name}

CheckOnlyKeywords == {"test", "lint", "scan"}
BuildKeywords == {"build"}
StrongDeployKeywords == {"deploy", "publish", "push"}
DeployStageKeywords == {"deploy", "release", "publish"}
DeployLikeKeywords == {"deploy", "release", "publish", "push"}

DeployLikeName(name, keywords) ==
  /\ Words(name) \intersect CheckOnlyKeywords = {}
  /\ Words(name) \intersect keywords # {}
  /\ Words(name) \intersect StrongDeployKeywords # {} \/ Words(name) \intersect BuildKeywords = {}

(* productionName, with and without what comes before production.          *)
ProductionName(name, includePre) == "production" \in Words(name) /\ (includePre \/ "pre" \notin Words(name))
IsProdName(name) == "staging" \in Words(name) \/ ProductionName(name, TRUE)

ValueOf(v) == IF v.is = "scalar" THEN v.value ELSE ""
Stage(job) == ValueOf(FindKey(job, "stage"))

-----------------------------------------------------------------------------
(* environment: is a name, or a mapping with name:, deployment_tier: and   *)
(* action:.                                                                *)
EnvName(env) == IF env.is = "map" THEN ValueOf(FindKey(env, "name")) ELSE ValueOf(env)
Tier(env) == ValueOf(FindKey(env, "deployment_tier"))
Action(env) == ValueOf(FindKey(env, "action"))

(* envTier: the tier that is written, or GitLab's guess from the name.     *)
GuessedTier(name) ==
  CASE Words(name) \intersect {"review", "dev"} # {} -> "development"
    [] Words(name) \intersect {"test", "qa"} # {} -> "testing"
    [] Words(name) \intersect {"staging", "pre"} # {} -> "staging"
    [] Words(name) = {"production"} -> "production"
    [] OTHER -> "other"
EnvTier(env) ==
  IF FindKey(env, "deployment_tier").is = "scalar"
  THEN [tier |-> Tier(env), explicit |-> TRUE]
  ELSE [tier |-> GuessedTier(EnvName(env)), explicit |-> FALSE]

IsProdEnv(env) == IsProdName(EnvName(env)) \/ Tier(env) \in {"production", "staging"}
IsProductionOnly(env) ==
  \/ Tier(env) = "production"
  \/ Tier(env) = "" /\ "staging" \notin Words(EnvName(env)) /\ ProductionName(EnvName(env), FALSE)
DeploysToEnvironment(env) == Action(env) \in {"", "start"}
EnvActionNoDeploy(env) == Action(env) \in {"prepare", "stop", "verify", "access"}
EnvDevTier(env) == EnvTier(env).tier \in {"development", "testing"}

-----------------------------------------------------------------------------
(* The commands of a job: CollectJobScriptLines.  The script of an image's *)
(* entrypoint: is what follows -c (shellCScript).                          *)
ItemsOf(list) == IF IsList(list) THEN SelectSeq(list.items, LAMBDA i : i.is = "scalar") ELSE <<>>
HookScript(container) == FindKey(FindKey(container, "hooks"), "pre_get_sources_script")
ScriptsOfSteps(run) ==
  IF IsList(run)
  THEN SelectSeq([i \in DOMAIN run.items |-> FindKey(run.items[i], "script")], LAMBDA s : s.is = "scalar") ELSE <<>>
StepScripts(job) == ScriptsOfSteps(FindKey(job, "run"))

(* shellCScript: the first argument of a shell that is no option, if a -c  *)
(* comes before.                                                           *)
ShellOptions == {"-c", "-e"}
ScriptAmong(items) ==
  LET args == { i \in 2..Len(items) : items[i].value \notin ShellOptions }
  IN  IF /\ items # <<>> /\ items[1].value = "sh"
         /\ args # {}
         /\ \E i \in 2..(Min(args) - 1) : items[i].value = "-c"
      THEN <<items[Min(args)]>> ELSE <<>>
ShellScript(array) == ScriptAmong(ItemsOf(array))
ServiceScript(service) == ShellScript(FindKey(service, "entrypoint")) \o ShellScript(FindKey(service, "command"))
ServiceScripts(services) ==
  IF IsList(services) THEN FlattenSeq([i \in DOMAIN services.items |-> ServiceScript(services.items[i])]) ELSE <<>>
ContainerScripts(container) ==
  ShellScript(FindKey(FindKey(container, "image"), "entrypoint")) \o ServiceScripts(FindKey(container, "services"))

ScriptLines(job) ==
  ItemsOf(FindKey(job, "before_script")) \o ItemsOf(FindKey(job, "script")) \o ItemsOf(FindKey(job, "after_script"))
  \o ItemsOf(HookScript(job)) \o StepScripts(job) \o ContainerScripts(job)

CommandsOf(lines) == FlattenSeq([i \in DOMAIN lines |-> lines[i].commands])

(* deployScriptRe: a command that ships or publishes something.            *)
Ships == {"deploy", "publish"}
JobScriptDeploys(file, job) ==
  \E cmd \in Range(CommandsOf(ScriptLines(Effective(file, job)))) : cmd.tool \in Ships
-----------------------------------------------------------------------------
(* EachScriptBlockPerJob: the lists of script lines with the job they are  *)
(* reported for, "" for those of the whole file.  EachScriptBlock leaves   *)
(* out what an anchor shares; a tree does not tell a shared list from a    *)
(* copy, and neither does a finding once duplicates are merged.            *)
BlocksAt(container, job, keys) ==
  LET lists == { ItemsOf(FindKey(container, key)) : key \in keys }
      scripts == ContainerScripts(container)
  IN  { [lines |-> s, job |-> job] :
          s \in (lists \union { <<scripts[i]>> : i \in DOMAIN scripts }) \ {<<>>} }
JobBlocks(container, job, keys) ==
  LET steps == StepScripts(container)
  IN  BlocksAt(container, job, keys)
      \union { [lines |-> b, job |-> job] :
                 b \in ({ItemsOf(HookScript(container))} \union { <<steps[i]>> : i \in DOMAIN steps }) \ {<<>>} }

ScriptBlocks(file) ==
  BlocksAt(file, "", {"before_script", "after_script"})
  \union JobBlocks(FindKey(file, "default"), "", {"before_script", "after_script"})
  \union UNION { JobBlocks(file.at[job], job, {"script", "before_script", "after_script"}) : job \in Jobs(file) }

ScriptLinesOf(file) ==
  UNION { { [line |-> line, job |-> b.job] : line \in Range(b.lines) } : b \in ScriptBlocks(file) }
=============================================================================
