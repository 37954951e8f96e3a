------------------------------ MODULE Settings ------------------------------
(***************************************************************************)
(* How a run is set up: the flags, the configuration file, what the        *)
(* repository may decide and what not, and the files to scan               *)
(* (cmd/glsec/main.go, internal/config, internal/version).                 *)
(*                                                                         *)
(* The flags, the repository in the working directory and a configuration  *)
(* file are records; what need not be there is empty or has one item.      *)
(***************************************************************************)
EXTENDS Findings

KnownIds == {"GL001", "GL046", "GL081", "SC2086"}
Prefixed == KnownIds \union {"GL999"}        \* what a configuration file may name
Categories == {"CICD-SEC-1", "CICD-SEC-3", "CICD-SEC-4"}
Formats == {"text", "table", "json", "sarif", "codeclimate", "junit", "gitlab-sast", "template"}

-----------------------------------------------------------------------------
(* internal/version: Parse, of the parts of a text; numbers that are none  *)
(* are negative.                                                           *)
ParsesVersion(text) == text = <<>> \/ (text[1] >= 1 /\ (Len(text) > 1 => text[2] >= 0))
ParseVersion(text) ==
  IF text = <<>> THEN <<0, 0>> ELSE <<text[1], IF Len(text) > 1 THEN text[2] ELSE 0>>

-----------------------------------------------------------------------------
(* internal/config: a configuration file is taken as a whole or not at     *)
(* all.  Its rules have a severity each, or "" for a mapping without one.  *)
Severity == ToSet(Severities)
Default ==
  [keys |-> {}, rules |-> <<>>, min |-> "", owasp |-> {}, owaspExclude |-> {}, version |-> <<>>,
   strict |-> FALSE, noExit |-> FALSE, requireReason |-> FALSE, exclude |-> <<>>,
   shellcheck |-> [enabled |-> FALSE, path |-> ""]]

(* parse: keys are those that are none, also below shellcheck: and rules:. *)
Accepts(file) ==
  /\ file.keys = {}
  /\ DOMAIN file.rules \subseteq Prefixed
  /\ \A id \in DOMAIN file.rules : file.rules[id] \in Severity \union {"off"}
  /\ file.min \in Severity \union {""}
  /\ ParsesVersion(file.version)
  /\ file.owasp \union file.owaspExclude \subseteq Categories

(* A slip: --no-repo-config only keeps the link from being followed.       *)
ReadsOfRepo(flags, repo) == IF flags.config # <<>> THEN flags.config[1] ELSE repo.config

(* The file that is read: the one of --config, else that of the            *)
(* repository, unless it must not be.                                      *)
Reads(flags, repo) ==
  IF flags.config # <<>> THEN flags.config[1]
  ELSE IF flags.noRepoConfig THEN <<>> ELSE repo.config

(* A configuration file that --config names must be there; a link out of   *)
(* the working directory is not followed where the repository chose it.    *)
ConfigFails(flags, repo) ==
  \/ flags.config = <<<<>>>>
  \/ flags.config = <<>> /\ ~flags.noRepoConfig /\ repo.configLeadsOut
  \/ \E i \in DOMAIN Reads(flags, repo) : ~Accepts(Reads(flags, repo)[i])
IgnoreFileFails(flags, repo) == (~flags.noIgnores \/ flags.generate) /\ repo.ignoreLeadsOut

Taken(flags, repo) == IF Reads(flags, repo) = <<>> THEN Default ELSE Reads(flags, repo)[1]
ShellCheckPath(flags, repo) ==
  IF flags.shellcheckPath # "" THEN flags.shellcheckPath
  ELSE IF flags.config # <<>> THEN Taken(flags, repo).shellcheck.path ELSE ""
VersionText(flags, repo) == IF flags.version # <<>> THEN flags.version ELSE Taken(flags, repo).version

(* anyRuleSelected and unknownRuleIDs.                                     *)
SelectionFails(flags) ==
  \/ ~(flags.only \subseteq KnownIds)
  \/ flags.only # {} /\ flags.only \subseteq flags.skip

NewOnlyMode(flags) == flags.newOnly \/ flags.baseline # <<>>
FlagsContradict(flags) ==
  \/ NewOnlyMode(flags) /\ (flags.generate \/ flags.noIgnores)
  \/ flags.format \notin Formats
  \/ (flags.format = "template") # (flags.template # "")
  \/ flags.template = "broken"

(* What a run works with: cfg in the code.                                 *)
Effective(flags, repo) ==
  LET file == Taken(flags, repo)
  IN  [rules |-> file.rules, min |-> file.min, owasp |-> file.owasp, owaspExclude |-> file.owaspExclude,
       only |-> flags.only, skip |-> flags.skip,
       strict |-> file.strict \/ flags.strict, noExit |-> file.noExit \/ flags.noExit,
       requireReason |-> file.requireReason \/ flags.requireReason,
       exclude |-> file.exclude \o flags.exclude,
       version |-> ParseVersion(VersionText(flags, repo)),
       shellcheck |-> [enabled |-> file.shellcheck.enabled, path |-> ShellCheckPath(flags, repo)]]

-----------------------------------------------------------------------------
(* resolveTargets.  The repository says what an argument is: a file, a     *)
(* directory with or without a pipeline file, a pattern with its matches,  *)
(* or nothing; below a directory there are files, with their base names.   *)
DedupeStrings(paths) == FoldLeft(LAMBDA out, p : IF p \in Range(out) THEN out ELSE Append(out, p), <<>>, paths)

CIFile == ".gitlab-ci.yml"
MatchesCIFile(file, patterns) ==
  \/ file.base = CIFile
  \/ \E p \in patterns : (IF p.slash THEN file.rel ELSE file.base) \in p.matches
WalkForCIFiles(files, patterns) ==
  LET found == SelectSeq(files, LAMBDA f : ~f.git /\ MatchesCIFile(f, patterns))
  IN  [i \in DOMAIN found |-> found[i].path]

Expanded(what) ==
  CASE what.is = "file" -> <<what.path>>
    [] what.is = "directory" -> what.ci
    [] what.is = "pattern" -> what.matches
    [] what.is = "nothing" -> <<>>
(* No arguments are the pipeline file, or the directory, that is here.     *)
Targets(flags, repo) ==
  DedupeStrings(FlattenSeq(
    IF flags.recursive THEN [i \in DOMAIN flags.args |-> WalkForCIFiles(repo.tree[flags.args[i]], flags.names)]
    ELSE [i \in DOMAIN flags.args |-> Expanded(repo.what[flags.args[i]])]))
TargetsFail(flags, repo) ==
  IF flags.recursive THEN Targets(flags, repo) = <<>>
  ELSE \E i \in DOMAIN flags.args : Expanded(repo.what[flags.args[i]]) = <<>>

(* matchesExclude: a directory with all below it, or a glob.  The path is  *)
(* cleaned; what is named by an absolute path a relative pattern misses.   *)
MatchesExclude(path, patterns) ==
  \E i \in DOMAIN patterns :
    LET absolute == path.as \in {"absolute", "outside"}
    IN  absolute = patterns[i].absolute /\ path.name \in patterns[i].matches
Scanned(flags, repo) ==
  SelectSeq(Targets(flags, repo), LAMBDA t : ~MatchesExclude(t, Effective(flags, repo).exclude))

Refuses(flags, repo) ==
  \/ FlagsContradict(flags)
  \/ ConfigFails(flags, repo) \/ IgnoreFileFails(flags, repo)
  \/ SelectionFails(flags)
  \/ ~ParsesVersion(VersionText(flags, repo))
  \/ TargetsFail(flags, repo)
=============================================================================
