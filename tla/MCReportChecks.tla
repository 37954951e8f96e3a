--------------------------- MODULE MCReportChecks ---------------------------
(***************************************************************************)
(* Small runs for ReportChecks: main.yml includes tpl.yml, and a third     *)
(* file cannot be read.                                                    *)
(***************************************************************************)
EXTENDS ReportChecks

MCRules ==
  [GL001 |-> [owasp |-> {"CICD-SEC-3"}, asvs |-> {"V1"}, cwe |-> {"CWE-829"}, since |-> <<1, 0>>],
   GL046 |-> [owasp |-> {"CICD-SEC-4"}, asvs |-> {}, cwe |-> {"CWE-94"}, since |-> <<1, 0>>],
   GL081 |-> [owasp |-> {"CICD-SEC-4"}, asvs |-> {"V2"}, cwe |-> {}, since |-> <<15, 7>>]]

Main == Path("main", "relative")
Tpl == Path("tpl", "relative")
Other == Path("other", "relative")

Found(rule, severity, file, line, col, wording, job, secret) ==
  [rule |-> rule, severity |-> severity, file |-> file, line |-> line, col |-> col, job |-> job, origin |-> <<>>,
   message |-> [wording |-> wording, job |-> job, secret |-> secret, from |-> <<>>]]
Item(problem, finding) == [problem |-> problem, finding |-> finding, at |-> <<>>, by |-> "", reason |-> <<>>]
AtJob(item, line) == [item EXCEPT !.at = <<Place(Main, line)>>]
By(item, by, reason) == [item EXCEPT !.by = by, !.reason = reason]

token == <<"g", "-", "x", "x", "x", "x">>
wide == <<"g", "-", "w", "w", "w", "w">>
password == <<"x", "x", "x", "x">>
halved == <<"x", "x", "-", "x", "x">>
late == [i \in 1..13 |-> IF i = 13 THEN "-" ELSE "x"] \o [i \in 1..16 |-> "x"]

lint == Item(1, Found("GL001", "warn", Main, 3, 1, "pin", "lint", <<>>))
deploy == Item(1, Found("GL001", "error", Main, 3, 1, "pin", "deploy", <<>>))
sameLine == Item(2, Found("GL001", "warn", Main, 3, 5, "pin", "lint", <<>>))
quoted == Item(3, Found("SC2086", "info", Main, 7, 2, "quote", "lint", password))
own == Item(4, Found("GL046", "warn", Tpl, 2, 4, "danger", "base", <<>>))
used == AtJob(Item(4, Found("GL046", "warn", Tpl, 2, 4, "danger", "lint", <<>>)), 5)
usedToo == AtJob(Item(4, Found("GL046", "error", Tpl, 2, 4, "danger", "deploy", <<>>)), 9)
whole == Item(5, Found("GL001", "error", Main, 0, 0, "whole", "", wide))
commented == By(Item(6, Found("GL001", "error", Main, 9, 1, "pin", "deploy", <<>>)), "inline", halved)
noReason == By(Item(7, Found("GL001", "warn", Main, 10, 1, "pin", "deploy", <<>>)), "inline", <<>>)
ignored == By(Item(8, Found("GL081", "error", Main, 11, 1, "danger", "deploy", wide)), "ignore-file", <<>>)
Pool == <<lint, deploy, sameLine, quoted, own, used, usedToo, whole, commented, noReason, ignored>>

(* The same file named by an absolute path.                                *)
Spelled(path, as) == [path EXCEPT !.as = as]
SpelledItem(item, as) ==
  [item EXCEPT !.finding.file = Spelled(@, as), !.at = [i \in DOMAIN @ |-> Place(Spelled(@[i].path, as), @[i].line)]]
Picked(pool, some, file, as) ==
  LET items == SelectSeq([i \in DOMAIN pool |-> <<i, pool[i]>>],
                         LAMBDA p : p[1] \in some /\ (p[2].finding.file.name = "tpl" /\ p[2].at = <<>>) = (file = Tpl))
  IN  [i \in DOMAIN items |-> SpelledItem(items[i][2], as)]
Doc(file, as, items) ==
  [path |-> Spelled(file, as), items |-> items,
   unjustified |-> Cardinality({ i \in DOMAIN items : items[i].by = "inline" /\ items[i].reason = <<>> })]
Says(pool, some, as) ==
  [failed |-> <<>>, docs |-> <<Doc(Main, as, Picked(pool, some, Main, as)), Doc(Tpl, as, Picked(pool, some, Tpl, as))>>]
Fails(path) == [failed |-> <<[file |-> <<path>>, names |-> <<path>>, secret |-> late]>>, docs |-> <<>>]

-----------------------------------------------------------------------------
Flag ==
  [config |-> <<>>, noRepoConfig |-> FALSE, only |-> {}, skip |-> {}, strict |-> FALSE, noExit |-> FALSE,
   noIgnores |-> FALSE, newOnly |-> FALSE, baseline |-> <<>>, generate |-> FALSE, requireReason |-> FALSE,
   format |-> "json", template |-> "", version |-> <<>>, shellcheckPath |-> "", exclude |-> <<>>,
   args |-> <<"main">>, recursive |-> FALSE, names |-> {}, noRedact |-> FALSE]
WithFormat(flags, format) ==
  [flags EXCEPT !.format = format, !.template = IF format = "template" THEN "some" ELSE ""]

Checks == [Default EXCEPT !.shellcheck = [enabled |-> TRUE, path |-> "theirs"]]
Quieter == [Checks EXCEPT !.rules = [GL001 |-> "info"], !.min = "warn"]
Louder == [Default EXCEPT !.rules = ("GL046" :> "error" @@ "GL999" :> "warn"), !.strict = TRUE, !.requireReason = TRUE]
Without == [Default EXCEPT !.rules = [GL046 |-> "off"], !.owaspExclude = {"CICD-SEC-3"}, !.noExit = TRUE]
Excluding == [Default EXCEPT !.exclude = <<[absolute |-> FALSE, matches |-> {"main", "other"}]>>, !.version = <<15, 6>>]
Unknown == [Default EXCEPT !.keys = {"ignore"}]
BadVersion == [Default EXCEPT !.version = <<-1>>]
MCRepoFiles == {Checks, Quieter, Louder, Without, Excluding, Unknown, BadVersion}

Here ==
  [config |-> <<>>, configLeadsOut |-> FALSE, ignoreLeadsOut |-> FALSE,
   what |-> [main |-> [is |-> "file", path |-> Main],
             absolute |-> [is |-> "file", path |-> Spelled(Main, "absolute")],
             dir |-> [is |-> "directory", ci |-> <<Main>>],
             noFile |-> [is |-> "directory", ci |-> <<>>],
             glob |-> [is |-> "pattern", matches |-> <<Main, Other>>],
             nothing |-> [is |-> "nothing"]],
   tree |-> [here |-> <<[path |-> Main, base |-> CIFile, rel |-> "main", git |-> FALSE],
                        [path |-> Other, base |-> "other", rel |-> "ci/other", git |-> FALSE],
                        [path |-> Tpl, base |-> CIFile, rel |-> "tpl", git |-> TRUE]>>]]
Configured(file) == [Here EXCEPT !.config = <<file>>]

Lines == <<[at |-> Place(Main, 7), secret |-> halved], [at |-> Place(Main, 7), secret |-> token]>>
ARun(flags, repo, pool, some) ==
  [flags |-> flags, repo |-> repo, source |-> Lines, lines |-> 9, tty |-> TRUE,
   said |-> (Main :> Says(pool, some, "relative") @@ Other :> Fails(Other)
             @@ Spelled(Main, "absolute") :> Says(pool, some, "absolute"))]

(* Every format, what is found, and a flag or two.                         *)
UpTo(pool, k) == { some \in SUBSET DOMAIN pool : Cardinality(some) <= k }
Backwards == [i \in DOMAIN Pool |-> Pool[Len(Pool) + 1 - i]]
ReportFlags ==
  {Flag, [Flag EXCEPT !.noRedact = TRUE], [Flag EXCEPT !.args = <<"absolute">>, !.requireReason = TRUE],
   [Flag EXCEPT !.args = <<"glob">>, !.newOnly = TRUE], [Flag EXCEPT !.strict = TRUE, !.noIgnores = TRUE]}
FormatRuns ==
  { <<ARun(WithFormat(flags, format), Configured(Checks), Pool, some)>> :
      flags \in ReportFlags, format \in Formats, some \in UpTo(Pool, 2) }
ThreeRuns ==
  { <<ARun(WithFormat(Flag, format), Configured(Checks), pool, some)>> :
      format \in {"sarif", "json", "codeclimate"}, pool \in {Pool, Backwards}, some \in UpTo(Pool, 3) }

(* Configurations against flags.                                           *)
Several == {{}, {1, 2, 5}, {4, 8, 9}, {6, 7, 11}}
SetupFlags ==
  {Flag, [Flag EXCEPT !.config = <<<<Quieter>>>>], [Flag EXCEPT !.config = <<<<>>>>], [Flag EXCEPT !.only = {"GL001"}],
   [Flag EXCEPT !.only = {"GL001"}, !.skip = {"GL001"}], [Flag EXCEPT !.only = {"GL010"}],
   [Flag EXCEPT !.skip = {"SC2086", "GL010"}], [Flag EXCEPT !.version = <<16>>], [Flag EXCEPT !.version = <<0>>],
   [Flag EXCEPT !.noExit = TRUE], [Flag EXCEPT !.generate = TRUE], [Flag EXCEPT !.generate = TRUE, !.newOnly = TRUE],
   [Flag EXCEPT !.noIgnores = TRUE, !.newOnly = TRUE], [Flag EXCEPT !.baseline = <<"missing">>],
   [Flag EXCEPT !.format = "template"], [Flag EXCEPT !.template = "broken"], [Flag EXCEPT !.format = "xml"],
   [Flag EXCEPT !.shellcheckPath = "mine"], [Flag EXCEPT !.noRepoConfig = TRUE]}
SetupRuns ==
  { <<ARun(flags, Configured(file), Pool, some)>> : flags \in SetupFlags, file \in MCRepoFiles, some \in Several }

(* Files to scan.                                                          *)
Argument == DOMAIN Here.what \ {"absolute"}
ArgumentFlags ==
  { [Flag EXCEPT !.args = args, !.exclude = exclude, !.strict = strict] :
      args \in {<<"absolute">>} \union { <<a>> : a \in Argument } \union { <<a, b>> : a, b \in Argument },
      exclude \in {<<>>, <<[absolute |-> FALSE, matches |-> {"main"}]>>, <<[absolute |-> FALSE, matches |-> {"main", "other"}]>>},
      strict \in BOOLEAN }
WalkFlags ==
  { [Flag EXCEPT !.recursive = TRUE, !.args = args, !.names = names] :
      args \in {<<"here">>, <<"here", "here">>, <<>>},
      names \in {{}, {[slash |-> TRUE, matches |-> {"ci/other"}]}, {[slash |-> FALSE, matches |-> {"other"}]}} }
TargetRuns ==
  { <<ARun(flags, Here, Pool, some)>> : flags \in ArgumentFlags \union WalkFlags, some \in {{1, 2, 5}, {6, 8}} }

(* Two repositories that differ in what they decide, and flags against it. *)
Shields ==
  { [shield EXCEPT !.format = format] :
      shield \in {[Flag EXCEPT !.noIgnores = TRUE, !.noRepoConfig = TRUE],
                  [Flag EXCEPT !.noIgnores = TRUE, !.config = <<<<Louder>>>>]},
      format \in {"json", "text"} }
Uncommented == [i \in DOMAIN Pool |-> Bare(Pool[i])]
TheirRepos == { Configured(file) : file \in MCRepoFiles } \union {[Here EXCEPT !.configLeadsOut = TRUE, !.ignoreLeadsOut = TRUE]}
ShieldedRuns ==
  { <<ARun(flags, Here, Uncommented, some), ARun(flags, repo, Pool, some)>> :
      flags \in Shields, repo \in TheirRepos, some \in Several }

(* A snapshot, and a run with it after the file changed.                   *)
pinAt(problem, line) == Item(problem, Found("GL001", "error", Main, line, 1, "pin", "lint", <<>>))
secretAt(problem, line, secret) == Item(problem, Found("GL001", "warn", Main, line, 1, "secret", "lint", secret))
SnapshotPool == <<pinAt(1, 3), pinAt(2, 4), pinAt(3, 8), secretAt(9, 5, token), used>>
ShiftedPool ==
  [i \in DOMAIN SnapshotPool |-> IF SnapshotPool[i].at = <<>> THEN [SnapshotPool[i] EXCEPT !.finding.line = @ + 1] ELSE SnapshotPool[i]]
DiffRuns ==
  { <<ARun([Flag EXCEPT !.noRedact = ways[1]], Here, SnapshotPool, some),
      ARun([Flag EXCEPT !.baseline = <<"accepted">>, !.args = <<ways[3]>>, !.noRedact = ways[2]], Here, ShiftedPool, others)>> :
      ways \in {<<FALSE, FALSE, "main">>, <<TRUE, FALSE, "absolute">>, <<FALSE, TRUE, "absolute">>},
      some \in SUBSET DOMAIN SnapshotPool, others \in SUBSET DOMAIN SnapshotPool }

MCFamilies == {FormatRuns, ThreeRuns, SetupRuns, TargetRuns, ShieldedRuns, DiffRuns}
=============================================================================
