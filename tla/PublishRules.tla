---------------------------- MODULE PublishRules ----------------------------
(***************************************************************************)
(* GL090: a job that installs dependencies, which runs their code, and     *)
(* publishes a package (rules/gl090.go).  Commands come with their words,  *)
(* as commandWords leaves them (ShellText.tla), and with the switches the  *)
(* text of the command turns off as marks.                                 *)
(***************************************************************************)
EXTENDS RuleHelpers

Ecosystems == {"npm", "python", "ruby"}

(* Words with a dash in front.                                             *)
OptionWords == {"-g", "-r", "-e", "-m", "-t", "-q", "--ignore-scripts", "--no-deps", "--no-build",
                "--only-binary", "--only-binary=:all:", "--dry-run", "--mode=skip-build"}
LocalProjects == {".", "./lib"}
PipValueOptions == {"-t", "--only-binary"}

CommandName(words) == IF words = <<>> THEN "" ELSE words[1]
Subcommand(words) ==
  LET rest == SelectSeq(Tail(words), LAMBDA w : w \notin OptionWords) IN IF rest = <<>> THEN "" ELSE rest[1]
From(words, w) == SubSeq(words, Min({ i \in DOMAIN words : words[i] = w }), Len(words))

(* pythonTool: the words from the tool on that python -m or a runner runs. *)
Runners == {"uv", "poetry", "pipenv", "pdm", "hatch", "pipx"}
RECURSIVE PythonTool(_)
PythonTool(words) ==
  CASE Len(words) > 2 /\ (<<words[1], words[2]>> = <<"python", "-m">> \/ (words[1] \in Runners /\ words[2] = "run")) ->
         PythonTool(SubSeq(words, 3, Len(words)))
    [] Len(words) > 1 /\ words[1] = "uvx" -> PythonTool(Tail(words))
    [] OTHER -> words

(* pipInstallsProject, one argument after the other.                       *)
NoArgs == [requirements |-> FALSE, local |-> FALSE, noDeps |-> FALSE, value |-> FALSE]
PipArg(seen, a) ==
  CASE seen.value -> [seen EXCEPT !.value = FALSE]
    [] a = "-r" -> [seen EXCEPT !.requirements = TRUE]
    [] a = "--no-deps" -> [seen EXCEPT !.noDeps = TRUE]
    [] a \in {"-e"} \union LocalProjects -> [seen EXCEPT !.local = TRUE]
    [] a \in PipValueOptions -> [seen EXCEPT !.value = TRUE]
    [] OTHER -> seen
PipInstallsProject(args) ==
  LET seen == FoldLeft(PipArg, NoArgs, args) IN seen.requirements \/ (seen.local /\ ~seen.noDeps)

PipInstalls(words) == Subcommand(words) = "install" /\ PipInstallsProject(Tail(From(words, "install")))
ToolInstalls(words) ==
  CASE CommandName(words) = "uv" /\ Subcommand(words) = "pip" ->
         LET pip == From(words, "pip") IN Subcommand(pip) = "sync" \/ PipInstalls(pip)
    [] CommandName(words) = "pip" -> PipInstalls(words)
    [] CommandName(words) = "poetry" -> Subcommand(words) = "install"
    [] CommandName(words) = "uv" -> Subcommand(words) = "sync"
    [] CommandName(words) \in {"pipenv", "pdm"} -> Subcommand(words) \in {"install", "sync"}
    [] OTHER -> FALSE
PythonInstallsDeps(words) == ToolInstalls(PythonTool(words))
ToolPublishes(tool) ==
  /\ "--dry-run" \notin Range(tool)
  /\ \/ CommandName(tool) = "twine" /\ Subcommand(tool) = "upload"
     \/ CommandName(tool) \in {"poetry", "uv", "flit", "hatch", "pdm"} /\ Subcommand(tool) = "publish"
PythonPublishes(words) == ToolPublishes(PythonTool(words))

GemPublishes(tool) ==
  \/ CommandName(tool) = "gem" /\ Subcommand(tool) = "push"
  \/ CommandName(tool) = "rake" /\ "release" \in Range(Tail(tool))
RubyPublishes(words) ==
  GemPublishes(IF Len(words) > 2 /\ words[1] = "bundle" /\ words[2] = "exec" THEN SubSeq(words, 3, Len(words)) ELSE words)

NpmInstallCmds == {"ci", "install", "add"}
NpmInstalls(words) ==
  /\ "-g" \notin Range(words)
  /\ \/ CommandName(words) = "npm" /\ Subcommand(words) \in NpmInstallCmds
     \/ CommandName(words) = "yarn" /\ Subcommand(words) \in {"", "install", "add"}
NpmPublishes(words) ==
  \/ CommandName(words) \in {"npm", "pnpm", "yarn"} /\ Subcommand(words) = "publish"
  \/ CommandName(words) = "yarn" /\ \E i \in 2..(Len(words) - 1) : words[i] = "npm" /\ words[i + 1] = "publish"

(* lifecycleEcosystems.                                                    *)
Installs(eco, words) ==
  CASE eco = "npm" -> NpmInstalls(words)
    [] eco = "python" -> PythonInstallsDeps(words)
    [] eco = "ruby" -> CommandName(words) = "bundle" /\ Subcommand(words) \in {"", "install"}
Publishes(eco, words) ==
  CASE eco = "npm" -> NpmPublishes(words)
    [] eco = "python" -> PythonPublishes(words)
    [] eco = "ruby" -> RubyPublishes(words)

(* offArg: an argument that keeps this install from running code.          *)
BinaryOnlyArg(words) ==
  \/ Range(words) \intersect {"--no-build", "--only-binary=:all:"} # {}
  \/ \E i \in 1..(Len(words) - 1) : words[i] = "--only-binary" /\ words[i + 1] = ":all:"
OffArg(eco, words) ==
  CASE eco = "npm" -> Range(words) \intersect {"--ignore-scripts", "--mode=skip-build"} # {}
    [] eco = "python" -> BinaryOnlyArg(words)
    [] eco = "ruby" -> FALSE

(* offVars: a variable that does so on every path through the job.         *)
OffVariables(eco) ==
  CASE eco = "npm" -> {"NPM_CONFIG_IGNORE_SCRIPTS", "npm_config_ignore_scripts", "YARN_ENABLE_SCRIPTS"}
    [] eco = "python" -> {"PIP_ONLY_BINARY", "UV_NO_BUILD", "POETRY_INSTALLER_ONLY_BINARY"}
    [] eco = "ruby" -> {}
OffValues(name) ==
  CASE name \in {"NPM_CONFIG_IGNORE_SCRIPTS", "npm_config_ignore_scripts"} -> {"true"}
    [] name = "YARN_ENABLE_SCRIPTS" -> {"false", "0"}
    [] name = "PIP_ONLY_BINARY" -> {":all:"}
    [] name = "UV_NO_BUILD" -> {"1", "true", "yes", "on"}
    [] name = "POETRY_INSTALLER_ONLY_BINARY" -> {":all:", "true"}
AllOff(p, name) == ~p.unset /\ p.values # <<>> /\ Range(p.values) \subseteq OffValues(name)
OffByVariables(file, job, eco) == \E name \in OffVariables(eco) : AllOff(Possible(file, job, name), name)

-----------------------------------------------------------------------------
(* mentionsPackageTool, mentionsPublish: the items that are looked into.   *)
ToolWords == {"npm", "pnpm", "yarn", "pip", "poetry", "uv", "uvx", "pdm", "pipenv", "twine", "flit", "hatch",
              "bundle", "gem", "rake"}
MentionsPackageTool(item) ==
  \E cmd \in Range(item.commands) : Range(cmd.words) \intersect ToolWords # {} \/ cmd.marks # {}
MentionsPublish(item) == \E cmd \in Range(item.commands) : Range(cmd.words) \intersect {"publish", "twine", "push", "rake"} # {}

(* The commands one after the other.  A setting in front of an install is  *)
(* for that install; a command that only sets it is for the later ones.    *)
NothingSeen == [install |-> {}, publish |-> {}, off |-> {}]
See(seen, cmd, install, publish) ==
  [install |-> seen.install \union { eco \in install \ (seen.off \union cmd.marks) : ~OffArg(eco, cmd.words) },
   publish |-> seen.publish \union (publish \ install),
   off |-> seen.off \union (cmd.marks \ (install \union publish))]
SeeCommand(seen, cmd) ==
  See(seen, cmd, { eco \in Ecosystems : Installs(eco, cmd.words) }, { eco \in Ecosystems : Publishes(eco, cmd.words) })

PublishItems(file, job) ==
  SelectSeq(ItemsOf(Key(file, job, "before_script")) \o ItemsOf(Key(file, job, "script")), MentionsPackageTool)

WithoutSwitch(file, job, seen) ==
  { eco \in seen.install \intersect seen.publish : ~OffByVariables(file, job, eco) }
ReportedEcosystems(file, job, items) ==
  IF \A i \in DOMAIN items : ~MentionsPublish(items[i]) THEN {}
  ELSE WithoutSwitch(file, job, FoldLeft(SeeCommand, NothingSeen, CommandsOf(items)))

GL090(file) ==
  UNION { { Finding("GL090", job, eco) : eco \in ReportedEcosystems(file, job, PublishItems(file, job)) } :
            job \in Visible(file) }
=============================================================================
