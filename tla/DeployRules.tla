---------------------------- MODULE DeployRules ----------------------------
(***************************************************************************)
(* The rules about jobs that deploy: what may start them (GL013, GL046,    *)
(* GL053, GL074, GL080, GL081, GL091), what gates them (GL071), how they   *)
(* run (GL017, GL019, GL049) and what they check out (GL044).  Each is an  *)
(* operator that gives the findings of a file.                             *)
(***************************************************************************)
EXTENDS RuleHelpers

-----------------------------------------------------------------------------
(* Which jobs deploy.  isSensitiveJob: GL019 leaves out what is for review *)
(* or test.                                                                *)
SensitiveByStage(file, job) ==
  DeployLikeName(ValueOf(Key(file, job, "stage")), DeployStageKeywords) /\ JobScriptDeploys(file, job)
SensitiveEnvironment(env, devTierDeploys, byStage) ==
  IF env = Nil THEN byStage
  ELSE LET uses == EnvActionNoDeploy(env)
       IN  /\ Action(env) # "stop"
           /\ devTierDeploys \/ (~uses /\ ~(EnvTier(env).explicit /\ EnvDevTier(env)))
           /\ \/ ~uses /\ (devTierDeploys \/ ~EnvDevTier(env))
              \/ byStage
IsSensitiveJob(file, job, devTierDeploys) ==
  SensitiveEnvironment(Key(file, job, "environment"), devTierDeploys, SensitiveByStage(file, job))

RunsInheritedJob(file, job) == job \notin Hidden /\ SeenWhole(file, job)

HasItems(v) == IsList(v) /\ v.items # <<>>

(* A slip: tags: of the job alone.                                         *)
GL017OwnTags(file) ==
  { Finding("GL017", job, "no tags") :
      job \in { j \in Jobs(file) :
        /\ RunsInheritedJob(file, j) /\ IsSensitiveJob(file, j, TRUE)
        /\ Key(file, j, "trigger") = Nil
        /\ FindKey(file.at[j], "tags") = Nil } }

GL017(file) ==
  { Finding("GL017", job, "no tags") :
      job \in { j \in Jobs(file) :
        /\ RunsInheritedJob(file, j) /\ IsSensitiveJob(file, j, TRUE)
        /\ Key(file, j, "trigger") = Nil
        /\ ~HasItems(Key(file, j, "tags")) } }

GL019(file) ==
  { Finding("GL019", job, "no resource group") :
      job \in { j \in Jobs(file) :
        RunsInheritedJob(file, j) /\ IsSensitiveJob(file, j, FALSE) /\ Key(file, j, "resource_group") = Nil } }

(* IsDeployLikeJob, of the merged job.                                     *)
IsDeployLikeJob(name, job) ==
  LET env == FindKey(job, "environment")
  IN  \/ env # Nil /\ ~EnvActionNoDeploy(env)
      \/ DeployLikeName(name, DeployLikeKeywords)
      \/ DeployLikeName(Stage(job), DeployLikeKeywords)

DeployLikeIn(job, env, stage, deploys) ==
  LET checkStage == Words(stage) \intersect CheckOnlyKeywords # {}
  IN  IF env # Nil /\ ~EnvActionNoDeploy(env) /\ ~EnvDevTier(env)
      THEN ~(EnvTier(env).tier = "other" /\ checkStage)
      ELSE IF DeployLikeName(job, DeployLikeKeywords) THEN ~checkStage
      ELSE DeployLikeName(stage, DeployLikeKeywords) /\ deploys
DeployLikeInherited(file, job) ==
  /\ job # "pages" /\ Key(file, job, "pages") = Nil
  /\ DeployLikeIn(job, Key(file, job, "environment"), ValueOf(Key(file, job, "stage")), JobScriptDeploys(file, job))

OnlyNever(rules) == HasItems(rules) /\ \A i \in DOMAIN rules.items : RuleExcludes(rules.items[i])

GL049(file) ==
  { Finding("GL049", job, "interruptible") :
      job \in { j \in Visible(file) :
        /\ DeployLikeInherited(file, j)
        /\ Key(file, j, "interruptible") = Scalar("true")
        /\ ~OnlyNever(Key(file, j, "rules")) } }

-----------------------------------------------------------------------------
(* GL013.                                                                  *)
PublishesMainPages(job, pages) ==
  CASE pages = Nil -> job = "pages"
    [] pages.is = "scalar" -> pages.value # "false"
    [] pages.is = "map" -> FindKey(pages, "path_prefix") \in {Nil, Scalar("")}
    [] OTHER -> FALSE

GL013What(job, mrOnly, env, pages) ==
  CASE mrOnly /\ IsProductionOnly(env) /\ DeploysToEnvironment(env) -> {Finding("GL013", job, "merge request")}
    [] ~mrOnly /\ (IsProdEnv(env) \/ PublishesMainPages(job, pages)) -> {Finding("GL013", job, "any branch")}
    [] OTHER -> {}
GL013Of(file, job) ==
  LET mrOnly == RunsOnlyInMRPipelines(file, job)
      guarded == Key(file, job, "rules") # Nil \/ Key(file, job, "only") # Nil
  IN  IF (~mrOnly /\ guarded) \/ ~SeenWhole(file, job) THEN {}
      ELSE GL013What(job, mrOnly, Key(file, job, "environment"), Key(file, job, "pages"))

GL013(file) ==
  IF WorkflowRestrictsToProtected(file) THEN {}
  ELSE UNION { GL013Of(file, job) : job \in Visible(file) }

-----------------------------------------------------------------------------
(* GL080, of jobs that GL013 does not report.                              *)
GuardState(job) ==
  LET rules == FindKey(job, "rules")
      conditional(r) == \/ r = Reference
                        \/ \E key \in {"if", "changes", "exists"} : FindKey(r, key) # Nil
  IN  IF FindKey(job, "only") # Nil \/ FindKey(job, "except") # Nil THEN "effective"
      ELSE IF rules = Nil THEN "absent"
      ELSE IF ~IsList(rules) \/ (\E i \in DOMAIN rules.items : conditional(rules.items[i])) THEN "effective"
      ELSE "ineffective"

WorkflowRestrictsSource(file) ==
  \E r \in Range(Rules(FindKey(file, "workflow"))) : FindKey(r, "if") # Nil

WorkflowAdmitsMR(file) ==
  \E r \in Range(Rules(FindKey(file, "workflow"))) :
    \/ r.is # "map"
    \/ /\ ~RuleExcludes(r)
       /\ \/ If(r).is # "scalar"
          \/ Mentions(If(r).value, MRTests \union {"source is not MR", "no MR variable"})
          \/ ~Mentions(If(r).value, BranchOrTagTests \union {"source is other"})

GL080DeployKeywords == {"deploy", "release", "publish"}
GL080NotDeployKeywords == {"build", "test", "lint", "scan", "review"}
GL080Sensitive(name, job) ==
  LET env == FindKey(job, "environment")
      said == Words(name) \union Words(Stage(job))
  IN  \/ env # Nil /\ Action(env) # "stop" /\ EnvName(env) # ""
      \/ said \intersect GL080NotDeployKeywords = {} /\ said \intersect GL080DeployKeywords # {}

GL013Owns(name, job) ==
  /\ FindKey(job, "rules") = Nil /\ FindKey(job, "only") = Nil
  /\ PublishesMainPages(name, FindKey(job, "pages")) \/ IsProdEnv(FindKey(job, "environment"))

(* A job without environment: that publishes from merge requests, but not  *)
(* to a test registry.                                                     *)
PublishesToTestRegistry(job) ==
  LET vars == FindKey(job, "variables")
  IN  vars.is = "map" /\ \E name \in DOMAIN vars.at : VarValues(vars, name) = <<"test registry">>
GL080MROnlyProduction(file, name, job) ==
  LET lines == ItemsOf(FindKey(job, "before_script")) \o ItemsOf(FindKey(job, "script"))
  IN  /\ FindKey(job, "environment") = Nil /\ RunsOnlyInMRPipelines(file, name)
      /\ \/ ProductionName(name, FALSE) \/ ProductionName(Stage(job), FALSE)
         \/ \E cmd \in Range(CommandsOf(lines)) :
              cmd.tool = "publish" /\ "test registry" \notin cmd.marks /\ ~PublishesToTestRegistry(job)

GL080What(file, name, job) ==
  LET state == GuardState(job)
  IN  IF ~GL080Sensitive(name, job) \/ GL013Owns(name, job) THEN {}
      ELSE IF state # "effective" /\ ~WorkflowRestrictsSource(file) THEN {Finding("GL080", name, state)}
      ELSE IF state = "effective" /\ GL080MROnlyProduction(file, name, job)
        THEN {Finding("GL080", name, "merge request")} ELSE {}
GL080Of(file, name) ==
  IF SeenWhole(file, name) THEN GL080What(file, name, Effective(file, name)) ELSE {}

GL080(file) ==
  IF WorkflowRestrictsSource(file) /\ ~WorkflowAdmitsMR(file) THEN {}
  ELSE UNION { GL080Of(file, name) : name \in Visible(file) }

-----------------------------------------------------------------------------
(* GL081: credentials that a cloud accepts.                                *)
JobCredential(job) ==
  IF FindKey(job, "id_tokens").is = "map" THEN "id_tokens"
  ELSE IF ValueOf(FindKey(job, "identity")) # "" THEN "identity" ELSE "none"

RECURSIVE OnlyAdmitsMR(_)
OnlyAdmitsMR(v) ==
  CASE v.is = "scalar" -> v.value = "merge_requests"
    [] v.is = "list" -> \E i \in DOMAIN v.items : OnlyAdmitsMR(v.items[i])
    [] v.is = "map" -> OnlyAdmitsMR(FindKey(v, "refs"))
    [] OTHER -> FALSE

JobAdmitsMR(job) ==
  \/ OnlyAdmitsMR(FindKey(job, "only"))
  \/ \E r \in Range(Rules(job)) : ~RuleExcludes(r) /\ If(r).is = "scalar" /\ IfAdmitsMR(If(r).value)

GL081What(name, job) ==
  CASE JobCredential(job) = "none" -> {}
    [] OTHER -> IF JobAdmitsMR(job) THEN {Finding("GL081", name, "admits")}
                ELSE IF GuardState(job) # "effective" THEN {Finding("GL081", name, "unguarded")} ELSE {}
GL081Of(file, name) ==
  IF (Has(file, name, "id_tokens") \/ Has(file, name, "identity")) /\ SeenWhole(file, name)
  THEN GL081What(name, Effective(file, name)) ELSE {}

GL081(file) ==
  IF WorkflowRestrictsToProtected(file) THEN {}
  ELSE UNION { GL081Of(file, name) : name \in Visible(file) }

-----------------------------------------------------------------------------
(* The rules that split the text of if: at || take no notice of quotes and *)
(* parentheses.  A part has the operands in it; it is plain when it is one *)
(* operand, neither narrowed by && nor cut off from its parenthesis.       *)
Part(tests, plain) == [tests |-> tests, plain |-> plain]
Joined(left, right) ==
  Front(left) \o <<Part(Last(left).tests \union right[1].tests, FALSE)>> \o Tail(right)
CutOff(parts) ==
  [i \in DOMAIN parts |-> IF i \in {1, Len(parts)} THEN Part(parts[i].tests, FALSE) ELSE parts[i]]

RECURSIVE TextParts(_)
TextParts(expr) ==
  LET args == [i \in DOMAIN expr.args |-> TextParts(expr.args[i])]
      inner == [i \in DOMAIN args |-> IF expr.args[i].op = "or" THEN CutOff(args[i]) ELSE args[i]]
  IN  CASE expr.op = "or" -> FlattenSeq(inner)
        [] expr.op = "and" -> FoldLeft(Joined, inner[1], Tail(inner))
        [] OTHER -> <<Part({expr.name}, TRUE)>>

(* GL046: an unprotected cache.  protectedRefCondRe.                       *)
ProtectedRefTests == {"default branch", "named branch", "default ref", "protected"}

ProtectedOnly(job) ==
  LET only == FindKey(job, "only")
      running == Running(job)
      isProtected(r) ==
        /\ If(r) # Nil
        /\ \A part \in Range(TextParts(If(r).value)) : part.tests \intersect ProtectedRefTests # {}
  IN  IF only # Nil THEN IsList(only) /\ only.items # <<>> /\ Range(only.items) \subseteq {Scalar("main")}
      ELSE running # <<>> /\ \A i \in DOMAIN running : running[i].is = "map" /\ isProtected(running[i])

CacheEntries(cache) ==
  SelectSeq(IF IsList(cache) THEN cache.items ELSE <<cache>>, LAMBDA entry : entry.is = "map")
Unprotected(entry) == FindKey(entry, "unprotect") = Scalar("true")
CanPoison(entry) == Unprotected(entry) /\ FindKey(entry, "policy") # Scalar("pull")
(* The key, or its prefix:, names a variable that the user controls.       *)
Steerable(entry) ==
  LET key == FindKey(entry, "key")
      name == IF key.is = "map" THEN FindKey(key, "prefix") ELSE key
  IN  Unprotected(entry) /\ name = Scalar("user variable")

JobHasMRTrigger(job) ==
  LET only == FindKey(job, "only")
  IN  \/ IsList(only) /\ Scalar("merge_requests") \in Range(only.items)
      \/ \E r \in Range(Rules(job)) :
           Asks(r, {"source is MR", "source is not MR"})

GL046What(name, job) ==
  LET entries == Range(CacheEntries(FindKey(job, "cache")))
      severity == IF IsDeployLikeJob(name, job) \/ JobHasMRTrigger(job) THEN "error" ELSE "warn"
  IN  IF ProtectedOnly(job)
      THEN { Finding("GL046", name, "key") : entry \in { e \in entries : Steerable(e) } }
      ELSE { Finding("GL046", name, severity) : entry \in { e \in entries : CanPoison(e) } }
GL046Of(file, name) == IF Has(file, name, "cache") THEN GL046What(name, Effective(file, name)) ELSE {}

GL046(file) ==
  LET preset == FindKey(FindKey(file, "default"), "cache")
  IN  { Finding("GL046", "", "warn") : entry \in { e \in Range(CacheEntries(preset)) : CanPoison(e) } }
      \union UNION { GL046Of(file, name) : name \in Visible(file) }

-----------------------------------------------------------------------------
(* GL053: a workflow that starts a pipeline for anything.                  *)
IncludesWorkflowTemplate(include) ==
  \E item \in Range(IF IsList(include) THEN include.items ELSE <<include>>) :
    FindKey(item, "template") = Scalar("Workflows/")

(* workflowSourceVarRe, which leaves CI_COMMIT_REF_PROTECTED out.          *)
SourceTests == MRTests \union BranchOrTagTests
               \union {"no MR variable", "source is not MR", "source is other", "default ref"}
WorkflowRulesRestrictSource(rules) ==
  \E r \in Range(rules.items) : Asks(r, SourceTests)

GL053(file) ==
  LET workflow == FindKey(file, "workflow")
      rules == FindKey(workflow, "rules")
  IN  CASE workflow = Nil ->
             IF IncludesWorkflowTemplate(FindKey(file, "include")) THEN {} ELSE {Finding("GL053", "", "no workflow")}
        [] workflow = Reference \/ rules = Reference -> {}
        [] OTHER ->
             IF ~IsList(rules) \/ rules.items = <<>> THEN {Finding("GL053", "", "no rules")}
             ELSE IF WorkflowRulesRestrictSource(rules) \/ OnlyNever(rules) THEN {}
             ELSE {Finding("GL053", "", "no gate")}

-----------------------------------------------------------------------------
(* GL071: a manual job that looks like a gate and is none.                 *)
DefaultStages == <<".pre", "build", "test", "deploy", ".post">>
Stages(file) ==
  LET declared == ItemsOf(FindKey(file, "stages"))
  IN  IF declared = <<>> THEN DefaultStages ELSE [i \in DOMAIN declared |-> declared[i].value]

(* The last place of the stage, or 0.                                      *)
StageIndex(file, job) ==
  LET stage == IF Stage(job) = "" THEN "test" ELSE Stage(job)
      stages == Stages(file)
  IN  Max({0} \union { i \in DOMAIN stages : stages[i] = stage })

OnlyKeywords == {"branches", "tags", "merge_requests"}
(* plainOnlyRefs: the names that only: lists; none when that is unknown.   *)
PlainOnlyRefs(job) ==
  LET only == FindKey(job, "only")
      refs == IF only.is = "map" THEN FindKey(only, "refs") ELSE only
  IN  IF /\ FindKey(job, "rules") = Nil
         /\ IsList(refs)
         /\ \A i \in DOMAIN refs.items : refs.items[i].is = "scalar" /\ refs.items[i].value \notin OnlyKeywords
      THEN { r.value : r \in Range(refs.items) } ELSE {}

(* A slip: names that are not known to meet count as disjoint.             *)
DisjointIfAny(refs, others) == refs \intersect others = {}
Disjoint(refs, others) == refs # {} /\ others # {} /\ refs \intersect others = {}
DisjointOnlyRefs(job, other) == Disjoint(PlainOnlyRefs(job), PlainOnlyRefs(other))

IsProdDeployJob(job) == IsProdName(EnvName(FindKey(job, "environment")))

ProductionDeploys(file) ==
  { job \in { Effective(file, j) : j \in { j \in Visible(file) : Has(file, j, "environment") } } :
      IsProdDeployJob(job) /\ StageIndex(file, job) # 0 }

LooksLikeGate(job) ==
  /\ FindKey(job, "when") = Scalar("manual")
  /\ FindKey(job, "rules") = Nil
  /\ FindKey(job, "allow_failure") # Scalar("false")
  /\ FindKey(job, "environment") = Nil
DeploysAfter(file, job, at) ==
  at # 0 /\ \E deploy \in ProductionDeploys(file) :
              StageIndex(file, deploy) > at /\ ~DisjointOnlyRefs(job, deploy)
OptionalGate(file, job) == LooksLikeGate(job) /\ DeploysAfter(file, job, StageIndex(file, job))

GL071(file) ==
  { Finding("GL071", name, "optional gate") :
      name \in { j \in Visible(file) : Has(file, j, "when") /\ OptionalGate(file, Effective(file, j)) } }

-----------------------------------------------------------------------------
(* GL074: a condition that is always true, as far as the text tells.       *)
Opposite == [t \in {"value is x", "value is y"} |-> IF t = "value is x" THEN "value is not x" ELSE "value is not y"]

Tautology(expr) ==
  LET plain == { part \in Range(TextParts(expr)) : part.plain }
      tests == UNION { part.tests : part \in plain }
  IN  "true" \in tests \/ \E t \in DOMAIN Opposite : {t, Opposite[t]} \subseteq tests

Conditions(container) ==
  { If(r).value : r \in { r \in Range(Rules(container)) : r.is = "map" /\ If(r).is = "scalar" } }

GL074(file) ==
  LET of(name, container) ==
        { Finding("GL074", name, expr) : expr \in { e \in Conditions(container) : Tautology(e) } }
  IN  of("", FindKey(file, "workflow")) \union UNION { of(name, file.at[name]) : name \in Jobs(file) }

-----------------------------------------------------------------------------
(* GL091: an identity that the actor sets grants something.                *)
IdentityGates(container) ==
  { If(r).value : r \in { r \in Range(Rules(container)) :
      /\ ~RuleExcludes(r) /\ Asks(r, {"author is x"}) } }

GL091(file) ==
  LET of(name, container) == { Finding("GL091", name, expr) : expr \in IdentityGates(container) }
      include == FindKey(file, "include")
      entries == IF IsList(include) THEN Range(include.items) ELSE {include}
  IN  of("", FindKey(file, "workflow"))
      \union UNION { of("", e) : e \in entries }
      \union UNION { of(name, file.at[name]) : name \in Jobs(file) }

-----------------------------------------------------------------------------
(* GL044: a job for merge requests checks out the head of the request.     *)
(* What one line fetches a later one may check out as FETCH_HEAD; of each  *)
(* line the commands count up to the first that checks out.                *)
ScanCommand(s, cmd) ==
  LET sha == "MR head" \in cmd.marks
  IN  CASE s.hit -> s
        [] ~s.hit /\ cmd.tool = "git fetch" -> [s EXCEPT !.fetched = @ \/ sha]
        [] ~s.hit /\ cmd.tool = "git checkout" ->
             [s EXCEPT !.hit = sha \/ (s.fetched /\ "FETCH_HEAD" \in cmd.marks)]
        [] OTHER -> s
ScanLine(s, line) ==
  IF s.fetched \/ \E cmd \in Range(line.commands) : "MR head" \in cmd.marks
  THEN LET after == FoldLeft(ScanCommand, [s EXCEPT !.hit = FALSE], line.commands)
       IN  [after EXCEPT !.hits = @ \/ after.hit]
  ELSE s
ChecksOutMRHead(lines) ==
  FoldLeft(ScanLine, [fetched |-> FALSE, hit |-> FALSE, hits |-> FALSE], lines).hits

ImageName(image) == IF image.is = "map" THEN FindKey(image, "name") ELSE image
GL044What(name, job) ==
  LET steps == StepScripts(job)
      blocks == {ItemsOf(FindKey(job, "script")), ItemsOf(FindKey(job, "before_script")), ItemsOf(HookScript(job))}
                \union { <<steps[i]>> : i \in DOMAIN steps }
  IN  IF ~JobHasMRTrigger(job) THEN {}
      ELSE { Finding("GL044", name, "checkout") : b \in { b \in blocks : ChecksOutMRHead(b) } }
           \union (IF ImageName(FindKey(job, "image")) = Scalar("MR head") THEN {Finding("GL044", name, "image")} ELSE {})
GL044Of(file, name) ==
  IF Has(file, name, "rules") \/ Has(file, name, "only") THEN GL044What(name, Effective(file, name)) ELSE {}

GL044(file) == UNION { GL044Of(file, name) : name \in Jobs(file) }
=============================================================================
