----------------------------- MODULE RuleChecks -----------------------------
(***************************************************************************)
(* The check of one file: the rules that are on, one after the other       *)
(* (collectFindings).  What the rules say of the file is compared with     *)
(* what GitLab does with it.                                               *)
(***************************************************************************)
EXTENDS DeployRules, ScriptRules, ImageRefs, PublishRules

CONSTANT Families  \* sets of files: [tree: the mapping, only: the rules that are on, in order]

VARIABLES file, todo, findings
vars == <<file, todo, findings>>

Tree == file.tree

Init ==
  /\ \E files \in Families : file \in files
  /\ todo = file.only
  /\ findings = {}

(* The rules whose findings are about a job by itself, and the others.     *)
JobRules == {"GL013", "GL017", "GL019", "GL046", "GL049", "GL071", "GL080", "GL081"}
CheckJobs(rule, tree) ==
  CASE rule = "GL013" -> GL013(tree)
    [] rule = "GL017" -> GL017(tree)
    [] rule = "GL019" -> GL019(tree)
    [] rule = "GL046" -> GL046(tree)
    [] rule = "GL049" -> GL049(tree)
    [] rule = "GL071" -> GL071(tree)
    [] rule = "GL080" -> GL080(tree)
    [] rule = "GL081" -> GL081(tree)
Check(rule, tree) ==
  CASE rule \in JobRules -> CheckJobs(rule, tree)
    [] rule = "GL001" -> GL001(tree, FALSE)
    [] rule = "GL001 with require_image_digest" -> GL001(tree, TRUE)
    [] rule = "GL002" -> GL002(tree)
    [] rule = "GL044" -> GL044(tree)
    [] rule = "GL053" -> GL053(tree)
    [] rule = "GL074" -> GL074(tree)
    [] rule = "GL082" -> GL082(tree)
    [] rule = "GL089" -> GL089(tree)
    [] rule = "GL090" -> GL090(tree)
    [] rule = "GL091" -> GL091(tree)

RunRule ==
  /\ todo # <<>>
  /\ findings' = findings \union Check(Head(todo), Tree)
  /\ todo' = Tail(todo)
  /\ UNCHANGED file

Next == RunRule

Spec == Init /\ [][Next]_vars

-----------------------------------------------------------------------------
Done == todo = <<>>
On(rule) == rule \in Range(file.only)
Found(rule, job, what) == Finding(rule, job, what) \in findings
FoundAny(rule, job) == \E f \in findings : f.rule = rule /\ f.job = job
RunsOf(job) == { p \in Pipelines : Runs(Tree, job, p) }

(* A key that is a mapping in one job of the chain and something else in   *)
(* another is left out of the comparison of Chain below: there the order   *)
(* of merging matters, and Chain does not tell which template extends      *)
(* which.                                                                  *)
OneKind(values) == Cardinality({ values[i].is : i \in DOMAIN values }) <= 1

(* The levels of extends: above a job, as far as GitLab allows them and    *)
(* one more.                                                               *)
RECURSIVE LevelsOf(_, _)
LevelsOf(job, bound) ==
  IF bound = 0 THEN 0
  ELSE LET above == { p.value : p \in Range(Named(FindKey(Tree, job))) }
       IN  IF above = {} THEN 0 ELSE 1 + Max({ LevelsOf(a, bound - 1) : a \in above })

(* The four walks along extends: (helpers.go) agree on any job GitLab      *)
(* accepts: Has is true of the keys Effective has, Key finds the nearest   *)
(* value, which is the merged one unless it is a mapping, and the values   *)
(* of Chain, put over each other from the last to the first, are the       *)
(* merged one.  With as many levels as GitLab allows Has does not see the  *)
(* last, so there it may say less.                                         *)
WalksAgree ==
  Done =>
  \A job \in Visible(Tree), key \in {"script", "environment", "rules"} :
    LET merged == FindKey(Effective(Tree, job), key)
        levels == LevelsOf(job, MaxExtendsDepth + 1)
        chain == Chain(Tree, job, key)
    IN  levels <= MaxExtendsDepth /\ ExtendsResolved(Tree, job) =>
          /\ Has(Tree, job, key) => merged # Nil
          /\ levels < MaxExtendsDepth /\ merged # Nil => Has(Tree, job, key)
          /\ merged # Nil => Key(Tree, job, key).is = merged.is
          /\ merged.is \in {"scalar", "list"} => Key(Tree, job, key) = merged
          /\ OneKind(chain) => FoldLeft(MergeMappings, Nil, Reverse(chain)) = merged

(* A job is reported as it would be with all it inherits written into it   *)
(* and no extends: left, unless a mapping that rules read with Key is      *)
(* spread over extends:, of which Key gives the nearest part.              *)
WrittenOut(job) ==
  LET merged == Effective(Tree, job)
      preset == { key \in {"tags", "interruptible"} : key \notin DOMAIN merged.at /\ Key(Tree, job, key) # Nil }
  IN  Map([key \in (DOMAIN merged.at \ {"extends"}) \union preset |->
             IF key \in preset THEN Key(Tree, job, key) ELSE merged.at[key]])

Spread(job) ==
  \E key \in {"environment", "pages", "only"} :
    Key(Tree, job, key).is = "map" /\ Len(Chain(Tree, job, key)) > 1

WrittenAlike ==
  Done =>
    \A job \in { j \in Visible(Tree) : SeenWhole(Tree, j) /\ ~Spread(j) }, rule \in JobRules :
      On(rule) /\ LevelsOf(job, MaxExtendsDepth) < MaxExtendsDepth =>
        { f.what : f \in { f \in findings : f.rule = rule /\ f.job = job } }
          = { f.what : f \in { f \in CheckJobs(rule, Map([Tree.at EXCEPT ![job] = WrittenOut(job)])) : f.job = job } }

(* Where extends: and default: put a key makes no difference.              *)
InheritedAlike == WalksAgree /\ WrittenAlike

(* GL089 answers for all pipelines of a job: a job that runs Renovate with *)
(* autodiscovery on and no limit in some pipeline is reported, and a       *)
(* reported one has a pipeline with autodiscovery on and, for each way to  *)
(* limit it, a pipeline without (jobvariables.go, gl089.go).               *)
Discovers(job, cmd, p) ==
  "on" \in cmd.marks \/ ("off" \notin cmd.marks /\ ValueIn(Tree, job, "AUTODISCOVER", p) = <<"true">>)
Limited(job, name, p) == ValueIn(Tree, job, name, p) \notin {<<>>, <<"">>}
Renovate(job) ==
  { cmd \in Range(CommandsOf(ItemsOf(Key(Tree, job, "before_script")) \o ItemsOf(Key(Tree, job, "script")))) :
      cmd.tool = "renovate" /\ "limited" \notin cmd.marks }

(* No rule hides another: any that lets the job run decides in some        *)
(* pipeline, together with any of the workflow's.                          *)
Deciders(container) ==
  IF IsList(FindKey(container, "rules"))
  THEN { r \in Range(Rules(container)) : ~RuleExcludes(r) } ELSE {Nil}
NoneHidden(job) ==
  LET merged == Effective(Tree, job)
      workflow == FindKey(Tree, "workflow")
  IN  \A r \in Deciders(merged), w \in Deciders(workflow) :
        \E p \in RunsOf(job) : Deciding(Rules(merged), p) = r /\ Deciding(Rules(workflow), p) = w

UnlimitedIsReported ==
  Done /\ On("GL089") =>
    \A job \in Visible(Tree) :
      LET runs == RunsOf(job)
      IN  /\ (\E cmd \in Renovate(job), p \in runs :
                Discovers(job, cmd, p) /\ \A name \in AutodiscoverLimits : ~Limited(job, name, p))
             => Found("GL089", job, "unlimited")
          /\ Found("GL089", job, "unlimited") /\ NoneHidden(job) /\ runs # {} =>
               /\ \E cmd \in Renovate(job), p \in runs : Discovers(job, cmd, p)
               /\ \A name \in AutodiscoverLimits : \E p \in runs : ~Limited(job, name, p)

(* A condition that GL074 calls always true is true in every pipeline,     *)
(* unless it has a parenthesis that holds more than two alternatives: the  *)
(* text is split at || whatever is around it, and of such a parenthesis    *)
(* the inner parts look like alternatives of the whole (gl074.go).         *)
RECURSIVE DeepAlternatives(_)
DeepAlternatives(expr) ==
  \E i \in DOMAIN expr.args :
    \/ expr.op = "and" /\ expr.args[i].op = "or" /\ Len(expr.args[i].args) > 2
    \/ DeepAlternatives(expr.args[i])

TautologiesHold ==
  \A f \in findings : f.rule = "GL074" /\ ~DeepAlternatives(f.what) =>
    \A p \in Pipelines : IsTrue(f.what, p)

(* What the rules say of the guards of a job is so in every pipeline: one  *)
(* reported as of merge requests alone runs in no other (gl013.go,         *)
(* gl080.go); one reported as open to any branch runs on a branch nobody   *)
(* named, unless except: keeps it out, and one without an effective guard  *)
(* in all or none of the pipelines of branches and tags (gl080.go,         *)
(* gl081.go).  A workflow that GL013 and GL081 trust starts no pipeline of *)
(* an unnamed branch, and one GL053 reports does not tell pipelines apart  *)
(* by their kind, unless it asks for a protected ref, which GL053 does not *)
(* know.  An operand that compares a variable of the merge request with    *)
(* another one is not told from a test of its value.  And what GL074 calls *)
(* always true is so.                                                      *)
OfMergeRequests(job) == Found("GL013", job, "merge request") \/ Found("GL080", job, "merge request")
Unguarded(job) == Found("GL080", job, "absent") \/ Found("GL080", job, "ineffective") \/ Found("GL081", job, "unguarded")
AsksForProtected(container) ==
  \E r \in Range(Rules(container)) : Asks(r, {"protected"})

GuardsAsEvaluated ==
  Done =>
    /\ \A job \in Visible(Tree), p \in Pipelines :
         LET merged == Effective(Tree, job)
         IN  /\ OfMergeRequests(job) /\ Runs(Tree, job, p) =>
                  p.kind = "MR" \/ Asks(Deciding(Rules(merged), p), {"MR variable is other's"})
             /\ Found("GL013", job, "any branch") /\ FindKey(merged, "except") = Nil
                /\ Starts(Tree, p) /\ p.kind = "branch" => Runs(Tree, job, p)
             /\ Unguarded(job) /\ p.kind # "MR" /\ Runs(Tree, job, p) =>
                  \A q \in Pipelines : q.kind # "MR" /\ Starts(Tree, q) => Runs(Tree, job, q)
    /\ WorkflowRestrictsToProtected(Tree) => \A p \in Pipelines : p.kind = "branch" => ~Starts(Tree, p)
    /\ FoundAny("GL053", "") /\ ~AsksForProtected(FindKey(Tree, "workflow")) =>
         \A p, q \in Pipelines :
           p.other = q.other /\ p.changed = q.changed => (Starts(Tree, p) <=> Starts(Tree, q))
    /\ TautologiesHold

(* A job that can write an unprotected cache in a pipeline of a ref nobody *)
(* protects is reported for it (gl046.go).  CI_COMMIT_REF_NAME is the      *)
(* source branch in a pipeline of a merge request, so a test of it for the *)
(* default branch is true there as well.                                   *)
PoisonersReported ==
  Done /\ On("GL046") =>
    \A job \in Visible(Tree) :
      LET merged == Effective(Tree, job)
      IN  /\ \E e \in Range(CacheEntries(FindKey(merged, "cache"))) : CanPoison(e)
          /\ \E p \in RunsOf(job) :
               /\ p.kind \notin {"default branch", "named branch"}
               /\ ~Asks(Deciding(Rules(merged), p), {"default ref"})
          => Found("GL046", job, "error") \/ Found("GL046", job, "warn")

(* An unguarded job that deploys to production is reported by one of GL013 *)
(* and GL080, and by one only (gl080.go), unless the workflow has          *)
(* conditions of its own or the environment: is spread over extends:,      *)
(* where one of them looks at the nearest and the other at the merged one. *)
LeftToTheOther ==
  Done /\ On("GL013") /\ On("GL080") =>
    \A job \in Visible(Tree) :
      LET merged == Effective(Tree, job)
          env == FindKey(merged, "environment")
      IN  /\ SeenWhole(Tree, job)
          /\ GuardState(merged) = "absent"
          /\ ~WorkflowRestrictsSource(Tree)
          /\ Cardinality(Range(Chain(Tree, job, "environment"))) = 1
          /\ IsProdEnv(env) /\ Action(env) # "stop"
          => (FoundAny("GL013", job) <=> ~FoundAny("GL080", job))

(* A manual job that a later production deployment does not wait for,      *)
(* though both can run in one pipeline, is reported (gl071.go).            *)
GateBeforeDeploy ==
  Done /\ On("GL071") =>
    \A gate, deploy \in Visible(Tree) :
      LET manual == Effective(Tree, gate)
          later == Effective(Tree, deploy)
      IN  /\ FindKey(manual, "when") = Scalar("manual")
          /\ FindKey(manual, "rules") = Nil /\ FindKey(manual, "environment") = Nil
          /\ FindKey(manual, "allow_failure") # Scalar("false")
          /\ IsProdDeployJob(later)
          /\ StageIndex(Tree, manual) # 0 /\ StageIndex(Tree, later) > StageIndex(Tree, manual)
          /\ RunsOf(gate) \intersect RunsOf(deploy) # {}
          => Found("GL071", gate, "optional gate")

(* Whatever image a job of its own file has in a pipeline, with the values *)
(* the variables and inputs have there and in one entry of its matrix, it  *)
(* is reported if its tag can move (gl001.go), unless the variables make   *)
(* more forms than are tried or one is empty there, which is not tried.  A *)
(* job with extends: is left out: GL001 does not look for its variables in *)
(* the templates.                                                          *)
MatrixRuns(job) ==
  LET entries == MatrixOf(Tree.at[job])
  IN  IF entries = <<>> THEN {<<>>}
      ELSE UNION { { m \in [DOMAIN e.at -> UNION { Range(EntryValues(e.at[k])) : k \in DOMAIN e.at }] :
                       \A k \in DOMAIN e.at : m[k] \in Range(EntryValues(e.at[k])) } : e \in Range(entries) }
ValuesInRun(job, part, p, m) ==
  LET set == ValueIn(Tree, job, part.value, p)
  IN  CASE part.is # "variable" -> Range(ValuesInJob(Tree, job, part))
        [] part.value \in DOMAIN m -> {m[part.value]}
        [] OTHER -> IF set \in {<<>>, <<<<>>>>} THEN {<<part>>} ELSE {set[1]}
ImagesInRun(job, ref, p, m) ==
  LET parts == Range(VariablesOf(ref))
      values == [part \in parts |-> ValuesInRun(job, part, p, m)]
  IN  { FlattenSeq([i \in DOMAIN ref |-> IF ref[i] \in parts THEN e[ref[i]] ELSE <<ref[i]>>]) :
          e \in { e \in [parts -> UNION { values[part] : part \in parts }] : \A part \in parts : e[part] \in values[part] } }
FewForms(job, ref) ==
  LET numbers == [i \in DOMAIN VariablesOf(ref) |-> Len(KnownValues(ValuesInJob(Tree, job, VariablesOf(ref)[i])))]
  IN  Len(numbers) < 2 \/ FoldLeft(LAMBDA n, m : n * m, 1, numbers) <= MaxRefForms

ImagesReported ==
  Done /\ (On("GL001") \/ On("GL001 with require_image_digest")) =>
    \A job \in { j \in Visible(Tree) : FindKey(Tree.at[j], "extends") = Nil } :
      \A ref \in ImagesOf(Tree.at[job]) : FewForms(job, ref) =>
        \A p \in RunsOf(job), m \in MatrixRuns(job) : \A image \in ImagesInRun(job, ref, p, m) :
          Literal(image) /\ CheckRef(image, FALSE) # "fine" =>
            \E f \in findings : f.rule = "GL001" /\ f.job = job /\ f.what.image = image

(* A job that publishes a package and, in some pipeline, runs the code of  *)
(* its dependencies is reported, and a reported one does the first and has *)
(* for each variable that would stop the code a pipeline where it is not   *)
(* so (gl090.go).  What a command does is said beside it.  A setting in    *)
(* front of a command that neither installs nor publishes ends with it;    *)
(* GL090 takes it for a lasting one, so jobs with one are left out.        *)
RunsDependencies(cmds, eco) ==
  \E i \in DOMAIN cmds : eco \in cmds[i].does.install /\ \A j \in 1..(i - 1) : eco \notin cmds[j].does.off
MistakenForLasting(cmd) ==
  /\ ~(cmd.marks \subseteq cmd.does.off)
  /\ \A eco \in cmd.marks : ~Installs(eco, cmd.words) /\ ~Publishes(eco, cmd.words)
OffIn(job, name, p) ==
  LET value == ValueIn(Tree, job, name, p) IN value # <<>> /\ value[1] \in OffValues(name)

PublishersReported ==
  Done /\ On("GL090") =>
    \A job \in Visible(Tree), eco \in Ecosystems :
      LET cmds == CommandsOf(ItemsOf(Key(Tree, job, "before_script")) \o ItemsOf(Key(Tree, job, "script")))
          does == RunsDependencies(cmds, eco) /\ \E cmd \in Range(cmds) : eco \in cmd.does.publish
          runs == RunsOf(job)
      IN  (\A cmd \in Range(cmds) : ~MistakenForLasting(cmd)) =>
             /\ does /\ (\E p \in runs : \A name \in OffVariables(eco) : ~OffIn(job, name, p)) => Found("GL090", job, eco)
             /\ Found("GL090", job, eco) =>
                  /\ does
                  /\ NoneHidden(job) /\ runs # {} => \A name \in OffVariables(eco) : \E p \in runs : ~OffIn(job, name, p)

(* Whatever a shell gets to run for a job of the file, from whichever key  *)
(* and from the job, a template, default: or the top level, is a line that *)
(* rules about scripts look at (EachScriptLine in helpers.go).             *)
ScriptedKeys == {"before_script", "script", "after_script", "hooks", "run", "image", "services"}
ShellLinesOf(job) ==
  LET merged == Effective(Tree, job)
      given == IF Inherits(Tree, job, "default", "*") THEN {FindKey(Tree, "default"), Tree} ELSE {}
      preset(key) == { FindKey(from, key) : from \in given } \ {Nil}
      value(key) == IF FindKey(merged, key) # Nil THEN {FindKey(merged, key)} ELSE preset(key)
  IN  UNION { UNION { Range(CommandsOf(ScriptLines(Map([k \in {key} |-> v])))) : v \in value(key) } : key \in ScriptedKeys }

ScriptsSeen ==
  Done /\ On("GL002") =>
    \A job \in Visible(Tree) : \A cmd \in ShellLinesOf(job) :
      "unquoted user variable" \in cmd.marks => \E f \in findings : f.rule = "GL002" /\ f.what = cmd.tool

(* A scan that is off in a pipeline of a job which no schedule started is  *)
(* reported, wherever the variable is set (eachVariablesBlock in           *)
(* helpers.go, gl082.go); in these files the operand about the source is   *)
(* the only one whose answer is open.                                      *)
ScansOffSeen ==
  Done /\ On("GL082") =>
    \A job \in Visible(Tree), name \in ScanDisableVars : \A p \in { q \in RunsOf(job) : ~q.other } :
      Range(ValueIn(Tree, job, name, p)) \intersect DisablesScan # {} =>
        \E f \in findings : f.rule = "GL082" /\ f.what = name

(* Each of these jobs has its finding, whichever of the rules it is for.   *)
RisksReported ==
  /\ PoisonersReported /\ LeftToTheOther /\ GateBeforeDeploy
  /\ UnlimitedIsReported /\ ImagesReported /\ PublishersReported
  /\ ScriptsSeen /\ ScansOffSeen
=============================================================================
