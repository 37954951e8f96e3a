---------------------------- MODULE MCRuleChecks ----------------------------
(***************************************************************************)
(* Files for RuleChecks, in families: what jobs inherit from each other,   *)
(* where variables are set, what guards a deployment, what starts a        *)
(* pipeline, gates, caches, images, and what installs and publishes.       *)
(***************************************************************************)
EXTENDS RuleChecks

(* A mapping of the keys that are there.                                   *)
Given(f) == Map([k \in { k \in DOMAIN f : f[k] # Nil } |-> f[k]])
Extends(names) == IF names = <<>> THEN Nil ELSE List([i \in DOMAIN names |-> Scalar(names[i])])
Rule(if, when, vs) == Given([if |-> if, when |-> when, variables |-> vs])
Of(key, value) == Map([k \in {key} |-> value])

-----------------------------------------------------------------------------
(* One job and three templates, in chains, diamonds and circles, with an   *)
(* environment: of any kind in each.                                       *)
Environments(name) == {Nil, Scalar(name), Of("name", Scalar(name)), Of("action", Scalar(name))}
Job(names, env) == Given([extends |-> Extends(names), environment |-> env])

InheritanceFiles ==
  { [only |-> <<"GL019", "GL080">>,
     tree |-> Map("a" :> Job(ea, va) @@ ".t" :> Job(et, vt) @@ ".u" :> Job(eu, vu) @@ ".v" :> Job(ev, vv))] :
      ea \in {<<".t">>, <<".t", ".u">>, <<".u", ".t">>},
      et \in {<<>>, <<".v">>, <<".u">>},
      eu \in {<<>>, <<".v">>},
      ev \in {<<>>, <<".t">>, <<".x">>},
      va \in {Nil, Of("action", Scalar("a"))}, vt \in Environments(".t") \ {Of("action", Scalar(".t"))},
      vu \in Environments(".u") \ {Scalar(".u")}, vv \in Environments(".v") \ {Of("action", Scalar(".v"))} }

(* One job that deploys, with its keys in the job, its template, the       *)
(* template's template or default:.                                        *)
Places == {"j", ".t", ".u"}
At(place, where, value) == IF place = where THEN value ELSE Nil
SplitEnv == {Scalar("production"), MergeMappings(Of("name", Scalar("review")), Of("deployment_tier", Scalar("testing")))}
SplitGuards == {Nil, List(<<Rule(Scalar(Test("other")), Nil, Nil)>>)}
SplitFiles ==
  { [only |-> <<"GL013", "GL017", "GL019", "GL046", "GL049", "GL080", "GL081">>,
     tree |-> Map(
       [place \in Places \union {"default"} |->
         Given([extends |-> CASE place = "j" -> Scalar(".t") [] place = ".t" -> List(<<Scalar(".u")>>) [] OTHER -> Nil,
                environment |-> At(place, e[1], e[2]), rules |-> At(place, g[1], g[2]), stage |-> At(place, s, Scalar("deploy")),
                script |-> At(place, c, List(<<Script(<<Command("deploy", {})>>)>>)),
                tags |-> At(place, t, List(<<Scalar("x")>>)), interruptible |-> At(place, i, Scalar("true")),
                cache |-> At(place, c, Of("unprotect", Scalar("true"))), identity |-> At(place, s, Scalar("cloud")),
                inherit |-> At(place, ".u", inherit)])])] :
      e \in {".t", ".u"} \X SplitEnv \union {<<"j", Nil>>}, g \in {".t", ".u"} \X SplitGuards, s \in {"j", ".u"}, c \in {".t", ".u"},
      t \in Places \union {"default", "none"}, i \in {"j", ".u", "default"}, inherit \in {Nil, Of("default", Scalar("false"))} }

-----------------------------------------------------------------------------
(* One job and its template, with the variables in any of the places.      *)
Filter == Of("FILTER", Scalar("x"))
NoFilter == Of("FILTER", Scalar(""))
Switch == Of("AUTODISCOVER", Of("value", Scalar("true")))
Namespaces == Of("NAMESPACES", Scalar("x"))

IsSet == Scalar(Test("other"))
Changes == Map("changes" :> List(<<>>))

RulesOfJob ==
  {Nil}
  \union { List(<<Rule(IsSet, Nil, v), Rule(Nil, w, u)>>) :
             v \in {Filter, Switch}, u \in {Nil, Filter, Namespaces}, w \in {Nil, Scalar("never")} }
  \union { List(<<Rule(Nil, Nil, Filter), Rule(IsSet, Nil, Switch)>>) }

WorkflowRules ==
  {Nil, List(<<MergeMappings(Changes, Rule(Nil, Nil, Filter)), Rule(Nil, Nil, Nil)>>),
   List(<<MergeMappings(Changes, Rule(Nil, Scalar("never"), Filter)), Rule(Nil, Nil, Switch)>>)}

VariableFiles ==
  { [only |-> <<"GL089">>,
     tree |-> Given(
       ".t" :> Given([rules |-> rules, variables |-> template, inherit |-> inherit]) @@
       "j" :> Given([extends |-> Extends(<<".t">>), script |-> List(<<Script(<<cmd>>)>>), variables |-> IF spot = "job" THEN NoFilter ELSE Nil]) @@
       "workflow" :> (IF workflow = Nil THEN Nil ELSE Of("rules", workflow)) @@
       "variables" :> top @@
       "default" :> (IF spot = "default" THEN Of("variables", Switch) ELSE Nil))] :
      rules \in RulesOfJob,
      workflow \in WorkflowRules,
      template \in {Nil, Switch, Filter},
      spot \in {"none", "job", "default"},
      top \in {Nil, Switch, Filter},
      inherit \in {Nil, Of("variables", Scalar("false")), Of("variables", List(<<Scalar("FILTER")>>))},
      cmd \in {Command("renovate", {"on"}), Command("renovate", {})} }

OtherCommands ==
  { [only |-> <<"GL089">>,
     tree |-> Map("j" :> Map("before_script" :> List(<<Script(<<cmd>>)>>)) @@ "variables" :> Switch)] :
      cmd \in {Command("renovate", {"off"}), Command("renovate", {"on", "limited"}), Command("npm", {"on"})} }

-----------------------------------------------------------------------------
(* One job that deploys, and its guards.                                   *)
Tests == { Test(t) : t \in {"source is MR", "MR variable", "MR variable is other's", "no MR variable",
                            "source is not MR", "branch", "default branch", "named branch", "default ref",
                            "tag", "protected", "other"} }
Pairs == { Or(<<s, t>>) : s \in Tests, t \in Tests } \union { And(<<s, t>>) : s \in Tests, t \in Tests }
Deeper == { And(<<Or(<<s, Test("source is MR")>>), t>>) : s \in Tests, t \in Tests }
Exprs == Tests \union Pairs \union Deeper \union {Broken}

Guards ==
  { Of("rules", List(<<Rule(Scalar(e), Nil, Nil)>>)) : e \in Exprs }
  \union { Of("rules", List(<<Rule(Scalar(e), w, Nil), Rule(Scalar(f), Nil, Nil)>>)) :
             e \in Tests, f \in Tests, w \in {Nil, Scalar("never")} }
  \union { Of("rules", List(<<Rule(Scalar(e), Nil, Nil), Rule(Nil, w, Nil)>>)) :
             e \in Tests, w \in {Nil, Scalar("never")} }
  \union { Of("only", o) : o \in {Scalar("merge_requests"), List(<<Scalar("merge_requests"), Scalar("branches")>>),
                                  Of("refs", List(<<Scalar("merge_requests")>>))} }
  \union {Of("stage", Scalar("deploy"))}

Targets == {Of("name", Scalar("production")), Scalar("staging"),
            MergeMappings(Of("name", Scalar("production")), Of("action", Scalar("stop")))}

GuardRules == <<"GL013", "GL080", "GL081">>
GuardedJobs ==
  { [only |-> GuardRules,
     tree |-> Map("j" :> MergeMappings(g, Given([environment |-> env, identity |-> Scalar("cloud")])))] :
      g \in Guards, env \in Targets }
PublishingJobs ==
  { [only |-> GuardRules,
     tree |-> Map("release" :> MergeMappings(g, Of("script", List(<<Script(<<cmd>>)>>))))] :
      g \in Guards, cmd \in {Command("publish", {}), Command("publish", {"test registry"})} }
GuardedFiles ==
  { [only |-> GuardRules,
     tree |-> Map("pages" :> Of("script", List(<<>>)) @@ "workflow" :> g)] : g \in Guards }
PartialFiles ==
  { [only |-> GuardRules,
     tree |-> Map("j" :> MergeMappings(Of("environment", Scalar("production")), s)
                  @@ "include" :> List(<<>>) @@ "after_script" :> List(<<>>))] :
      s \in {Map(<<>>), Of("script", List(<<>>))} }
(* Production without a guard, in two levels of extends:.                  *)
SpreadFiles ==
  { [only |-> GuardRules,
     tree |-> Map(name :> Given([extends |-> Scalar(".t"), environment |-> env, stage |-> stage])
                  @@ ".t" :> Given([environment |-> above, except |-> except]))] :
      name \in {"j", "release", "deploy test"},
      env \in {Nil, Scalar("production"), Scalar("review"), Of("name", Scalar("pre production")),
               Of("deployment_tier", Scalar("production")), Of("action", Scalar("start"))},
      above \in {Nil, Scalar("staging"), Of("name", Scalar("production")), Of("action", Scalar("start"))},
      stage \in {Nil, Scalar("deploy"), Scalar("test")},
      except \in {Nil, Scalar("branches")} }

-----------------------------------------------------------------------------
(* What starts a pipeline, and conditions that say nothing.                *)
MoreTests == { Test(t) : t \in {"true", "value is x", "value is not x", "value is y", "value is not y",
                                "author is x", "source is other", "protected"} }
Triples ==
  { Or(<<s, t, u>>) : s \in MoreTests, t \in MoreTests, u \in MoreTests }
  \union { And(<<Or(<<s, t, u>>), Test("tag")>>) : s \in MoreTests, t \in MoreTests, u \in MoreTests }
  \union { And(<<Or(<<s, t>>), u>>) : s \in MoreTests, t \in MoreTests, u \in MoreTests }
  \union { Or(<<And(<<s, t>>), u>>) : s \in MoreTests, t \in MoreTests, u \in MoreTests }

ConditionFiles ==
  { [only |-> <<"GL053", "GL074", "GL091">>,
     tree |-> Map("j" :> Of("rules", List(<<Rule(Scalar(e), Nil, Nil)>>))
                  @@ "workflow" :> Of("rules", List(<<Rule(Scalar(f), when, Nil), Rule(Nil, last, Nil)>>)))] :
      e \in {Test("other")}, f \in MoreTests \union Tests,
      when \in {Nil, Scalar("never")}, last \in {Nil, Scalar("never")} }
  \union { [only |-> <<"GL074", "GL091">>,
             tree |-> Map("j" :> Of("rules", List(<<Rule(Scalar(e), Nil, Nil)>>)))] : e \in Triples }
  \union { [only |-> <<"GL053", "GL074">>, tree |-> Given("workflow" :> w @@ "include" :> i)] :
             w \in {Nil, Reference, Of("name", Scalar("x")), Of("rules", List(<<>>)), Of("rules", Reference)},
             i \in {Nil, Of("template", Scalar("Workflows/")), List(<<Of("template", Scalar("Workflows/"))>>),
                    Of("template", Scalar("Jobs/"))} }

-----------------------------------------------------------------------------
(* A manual job and a deployment, in stages.                               *)
Only(refs) == IF refs = {} THEN Nil ELSE List(SetToSeq({ Scalar(r) : r \in refs }))
GateFiles ==
  { [only |-> <<"GL071">>,
     tree |-> Given("a" :> Given([when |-> Scalar("manual"), stage |-> s, only |-> Only(o),
                                  allow_failure |-> fail, environment |-> env])
                    @@ "d" :> Given([stage |-> t, only |-> Only(q), environment |-> Scalar("production"), rules |-> rules])
                    @@ "stages" :> stages)] :
      s \in {Nil, Scalar("build"), Scalar("deploy")}, t \in {Nil, Scalar("deploy"), Scalar("build")},
      o \in {{}, {"main"}, {"other"}, {"tags"}, {"main", "tags"}}, q \in {{}, {"main"}, {"other"}, {"branches"}},
      fail \in {Nil, Scalar("false")}, env \in {Nil, Scalar("test")},
      rules \in {Nil, List(<<Rule(Nil, Nil, Nil)>>)},
      stages \in {Nil, List(<<Scalar("deploy"), Scalar("build")>>), List(<<Scalar("build"), Scalar("deploy"), Scalar("build")>>)} }

-----------------------------------------------------------------------------
(* Caches.                                                                 *)
Cache(policy, key) == Given([unprotect |-> Scalar("true"), policy |-> policy, key |-> key])
Caches ==
  {Cache(Nil, Nil), Of("unprotect", Scalar("false")), Cache(Scalar("pull"), Nil),
   List(<<Cache(Scalar("pull"), Nil), Cache(Scalar("push"), Scalar("user variable"))>>),
   Cache(Nil, Of("prefix", Scalar("user variable")))}
CacheFiles ==
  { [only |-> <<"GL046">>,
     tree |-> Map("j" :> MergeMappings(g, Given([extends |-> ext, cache |-> own]))
                  @@ ".t" :> Of("cache", c) @@ "default" :> Of("cache", c))] :
      g \in Guards \union {Of("only", List(<<Scalar("main")>>)), Of("only", List(<<>>))},
      ext \in {Scalar(".t")}, own \in {Nil}, c \in {Cache(Nil, Nil)} }
  \union
  { [only |-> <<"GL046">>,
     tree |-> Map("j" :> Given([extends |-> ext, cache |-> own, rules |-> rules])
                  @@ ".t" :> Of("cache", c) @@ "default" :> Of("cache", c))] :
      rules \in {Nil} \union { List(<<Rule(Scalar(t), Nil, Nil)>>) : t \in Tests },
      ext \in {Nil, Scalar(".t")}, own \in {Nil, Cache(Nil, Nil)}, c \in Caches }

-----------------------------------------------------------------------------
(* Images, with the variables anywhere; the tag T and the rest U.          *)
Variable(name) == Piece("variable", name)
Tag(t) == Scalar(<<Text(t)>>)
Node == <<Text("node"), Text(":")>>
RefsOfImages ==
  { Append(Node, Variable("T")), <<Variable("I")>>, Node \o <<Variable("T"), Variable("U")>>,
    Node \o <<Text("22"), Variable("T")>>, <<Text("r"), Text("/"), Variable("I"), Text("@"), Variable("T")>> }
Setting(t, u) == Given("T" :> t @@ "U" :> u @@ "I" :> (IF t = Nil THEN Nil ELSE Scalar(<<Text("node"), Text(":")>> \o t.value)))
Own == {Nil, Setting(Tag("latest"), Nil), Setting(Scalar(<<>>), Tag("3")), Setting(Scalar(<<Variable("U")>>), Tag("3"))}
ImageFiles ==
  { [only |-> <<"GL001">>,
     tree |-> Given("j" :> Given([image |-> image, variables |-> own, inherit |-> inherit, rules |-> rules, parallel |-> matrix])
                    @@ "workflow" :> workflow @@ "variables" :> top)] :
      image \in { Scalar(r) : r \in RefsOfImages }, own \in Own,
      rules \in {Nil, List(<<Rule(IsSet, Nil, Setting(Tag("22"), Tag("stable"))), Rule(Nil, Nil, Nil)>>),
                 List(<<Rule(IsSet, Scalar("never"), Setting(Tag("22"), Nil)), Rule(Nil, Nil, Setting(Tag("latest"), Nil))>>)},
      matrix \in {Nil} \union { Of("matrix", List(m)) : m \in {
                   <<Map("T" :> List(<<Tag("22"), Tag("alpine")>>))>>, <<Map("U" :> Tag("3")), Map("T" :> Tag("22"))>>,
                   <<Map("T" :> Tag("22") @@ "U" :> List(<<Tag("3"), Tag("stable")>>))>>} },
      workflow \in {Nil, Of("rules", List(<<MergeMappings(Changes, Rule(Nil, Nil, Setting(Tag("stable"), Nil))), Rule(Nil, Nil, Nil)>>))},
      top \in {Setting(Tag("22"), Tag("3")), Map("T" :> Of("value", Tag("latest")))},
      inherit \in {Nil, Of("variables", List(<<Scalar("U")>>))} }

Literals ==
  { <<Text("node")>>, Append(Node, Text("latest")), Append(Node, Text("22")), Append(Node, Text("alpine")), MacOSImage,
    <<Text("r"), Text(":"), Text("3"), Text("/"), Text("node")>>, <<Text("node"), Text("@sha256:"), Text("d")>>,
    <<Text("node"), Text("@"), Variable("X")>>, <<Variable("X"), Text("/"), Text("node")>>,
    Append(Node, Piece("moa", "x")), Append(Node, Piece("input", "t")), Append(Node, Piece("job input", "t")),
    Append(Node, Piece("input", "x")) }
Inputs == {Nil} \union { Of("t", v) : v \in {Of("default", Tag("latest")), Tag("latest"),
                         Map("default" :> Tag("22") @@ "options" :> List(<<Tag("22"), Tag("latest")>>))} }
LiteralFiles ==
  { [only |-> <<rule>>,
     tree |-> Given("j" :> Given([image |-> IF at = "j" THEN image ELSE Nil, services |-> IF at = "s" THEN List(<<image, Nil>>) ELSE Nil,
                                  inputs |-> inputs, extends |-> ext])
                    @@ "default" :> (IF at = "d" THEN Of("image", image) ELSE Nil) @@ ".t" :> (IF at = ".t" THEN Of("image", image) ELSE Nil)
                    @@ "spec" :> (IF specs = Nil THEN Nil ELSE Of("inputs", specs)))] :
      rule \in {"GL001", "GL001 with require_image_digest"}, at \in {"j", "s", "d", ".t"},
      image \in { Scalar(r) : r \in Literals } \union { Of("name", Scalar(r)) : r \in Literals },
      ext \in {Nil, Scalar(".t")}, inputs \in Inputs, specs \in {Nil, Of("t", Of("default", Tag("latest")))} }

-----------------------------------------------------------------------------
(* Commands that install and publish, with what they do.                   *)
Package(words, marks, install, publish, off) ==
  [tool |-> "other", marks |-> marks, words |-> words, does |-> [install |-> install, publish |-> publish, off |-> off]]
Idle(words) == Package(words, {}, {}, {}, {})
Installing(words, eco) == Package(words, {}, {eco}, {}, {})
Publishing(words, eco) == Package(words, {}, {}, {eco}, {})
NpmCommands ==
  { Installing(<<"npm", "ci">>, "npm"), Installing(<<"yarn">>, "npm"), Publishing(<<"npm", "publish">>, "npm"),
    Publishing(<<"yarn", "npm", "publish">>, "npm"), Idle(<<"npm", "install", "-g", "npm">>),
    Idle(<<"npm", "ci", "--ignore-scripts">>), Package(<<"npm", "ci">>, {"npm"}, {}, {}, {}),
    Package(<<>>, {"npm"}, {}, {}, {"npm"}), Package(<<"npm", "test">>, {"npm"}, {}, {}, {}) }
OtherEcosystems ==
  { Installing(<<"pip", "install", "-r", "deps">>, "python"), Installing(<<"python", "-m", "pip", "install", ".">>, "python"),
    Idle(<<"pip", "install", "-t", ".", "twine">>), Idle(<<"pip", "install", "-e", ".", "--no-deps">>),
    Installing(<<"uv", "pip", "sync", "deps">>, "python"), Installing(<<"uv", "run", "python", "-m", "pip", "install", "-r", "deps">>, "python"),
    Idle(<<"uv", "sync", "--no-build">>), Idle(<<"pip", "install", "--only-binary", ":all:", "-r", "deps">>),
    Idle(<<"poetry", "publish", "--dry-run">>), Publishing(<<"uvx", "twine", "upload", "x">>, "python"),
    Publishing(<<"poetry", "run", "twine", "upload", "x">>, "python"), Package(<<>>, {"python"}, {}, {}, {"python"}),
    Installing(<<"pdm", "sync">>, "python"), Installing(<<"bundle">>, "ruby"),
    Publishing(<<"bundle", "exec", "rake", "release">>, "ruby"), Publishing(<<"gem", "push", "x">>, "ruby"),
    Idle(<<"rake", "test">>), Installing(<<"npm", "ci">>, "npm") }

InOrder(first, then) ==
  Map("default" :> Of("before_script", List(<<Script(<<first>>)>>)) @@ "j" :> Of("script", List(<<Script(then)>>)))
PublishFiles ==
  { [only |-> <<"GL090">>, tree |-> InOrder(a, <<b, c>>)] : a \in NpmCommands, b \in NpmCommands, c \in NpmCommands }
  \union { [only |-> <<"GL090">>, tree |-> InOrder(a, <<b, c>>)] :
              a \in OtherEcosystems, b \in OtherEcosystems, c \in { d \in OtherEcosystems : d.does.publish # {} } }

NoScripts == Of("NPM_CONFIG_IGNORE_SCRIPTS", Scalar("true"))
Scripts == Of("NPM_CONFIG_IGNORE_SCRIPTS", Scalar("false"))
NoYarnScripts == Of("YARN_ENABLE_SCRIPTS", Scalar("0"))
PublishVariableFiles ==
  { [only |-> <<"GL090">>,
     tree |-> Given("j" :> Given([extends |-> Scalar(".t"), rules |-> rules, variables |-> own])
                    @@ ".t" :> Given([variables |-> template, inherit |-> inherit,
                                      script |-> List(<<Script(<<Installing(<<"npm", "ci">>, "npm")>>),
                                                        Script(<<Publishing(<<"npm", "publish">>, "npm")>>)>>)])
                    @@ "workflow" :> workflow @@ "variables" :> top)] :
      rules \in {Nil} \union { List(<<Rule(IsSet, Nil, v), Rule(Nil, w, u)>>) :
                               v \in {NoScripts, NoYarnScripts}, u \in {Nil, NoScripts, Scripts}, w \in {Nil, Scalar("never")} },
      own \in {Nil, Scripts, NoYarnScripts}, template \in {Nil, NoScripts},
      workflow \in {Nil, Of("rules", List(<<MergeMappings(Changes, Rule(Nil, Nil, NoScripts)), Rule(Nil, Nil, Scripts)>>))},
      top \in {Nil, NoScripts, NoYarnScripts}, inherit \in {Nil, Of("variables", Scalar("false"))} }

-----------------------------------------------------------------------------
(* A line for a shell in any key of any place, and another one elsewhere.  *)
Line(name) == Script(<<Command(name, {"unquoted user variable"})>>)
Exec(line) == List(<<Scalar("sh"), Scalar("-c"), line>>)
Scripted(key, line) ==
  CASE key \in {"before_script", "script", "after_script"} -> Of(key, List(<<line>>))
    [] key = "hooks" -> Of(key, Of("pre_get_sources_script", List(<<line>>)))
    [] key = "run" -> Of(key, List(<<Of("script", line), Of("step", Scalar("x"))>>))
    [] key = "image" -> Of(key, MergeMappings(Of("name", Scalar("x")), Of("entrypoint", Exec(line))))
    [] key = "services" -> Of(key, List(<<Of("command", Exec(line)), Of("entrypoint", List(<<Scalar("x")>>))>>))
Spots == {<<"j", key>> : key \in ScriptedKeys} \union {<<".t", key>> : key \in ScriptedKeys}
         \union {<<"default", key>> : key \in ScriptedKeys \ {"script", "run"}}
         \union {<<"top", key>> : key \in {"before_script", "after_script", "image", "services"}}
PlacedAt(spot, name, place) == IF spot[1] = place THEN Scripted(spot[2], Line(name)) ELSE Map(<<>>)
ScriptFiles ==
  { [only |-> <<"GL002">>,
     tree |-> LET at(place) == MergeMappings(PlacedAt(s, "c", place), PlacedAt(t, "d", place))
              IN  MergeMappings(at("top"),
                    Map("j" :> MergeMappings(at("j"), Given([extends |-> ext, inherit |-> inherit]))
                        @@ ".t" :> at(".t") @@ "default" :> at("default")))] :
      s \in Spots, t \in Spots, ext \in {Nil, Scalar(".t")}, inherit \in {Nil, Of("default", Scalar("false"))} }

Off(v) == Of("SAST_DISABLED", v)
Schedule == Test("source is schedule")
ScanFiles ==
  { [only |-> <<"GL082">>,
     tree |-> Given("j" :> Given([extends |-> Scalar(".t"), variables |-> own, rules |-> rules])
                    @@ ".t" :> Given([variables |-> template])
                    @@ "workflow" :> workflow @@ "variables" :> top
                    @@ "default" :> (IF preset = Nil THEN Nil ELSE Of("variables", preset)))] :
      own \in {Nil, Off(Scalar("1")), Off(Scalar("false"))}, template \in {Nil, Off(Scalar("true"))},
      rules \in {Nil} \union { List(<<Rule(Scalar(e), Nil, Off(Scalar("true"))), Rule(Nil, Nil, Nil)>>) :
                               e \in {Schedule, Or(<<Schedule, Test("tag")>>), And(<<Schedule, Test("tag")>>), Test("tag")} },
      workflow \in {Nil, Of("rules", List(<<Rule(Scalar(Test("tag")), Nil, Off(Of("value", Scalar("true")))), Rule(Nil, Nil, Nil)>>))},
      top \in {Nil, Off(Scalar("true"))}, preset \in {Nil, Off(Scalar("1"))} }

MCFamilies ==
  {InheritanceFiles, SplitFiles, VariableFiles, OtherCommands, GuardedJobs, PublishingJobs, GuardedFiles,
   PartialFiles, SpreadFiles, ConditionFiles, GateFiles, CacheFiles,
   ImageFiles, LiteralFiles, PublishFiles, PublishVariableFiles, ScriptFiles, ScanFiles}
=============================================================================
