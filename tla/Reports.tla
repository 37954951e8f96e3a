------------------------------ MODULE Reports ------------------------------
(***************************************************************************)
(* The reports (internal/output, and writeOutput of cmd/glsec/main.go).  A *)
(* report holds what a reader of its format gets, in the order written.    *)
(*                                                                         *)
(* A scan is what is reported: found, suppressed and errors, what was      *)
(* scanned, and whether secrets are masked and a person reads the output.  *)
(* An error has a file or none, the path that its text names, if any, and  *)
(* the secret that it shows.                                               *)
(***************************************************************************)
EXTENDS Settings

-----------------------------------------------------------------------------
(* reportPath: a path below the working directory is written relative to   *)
(* it, any other one, and ./ in front, as it was given.                    *)
ReportPath(path) == IF path.as = "absolute" THEN Path(path.name, "relative") ELSE path
IsLocal(path) == path.as \notin {"up", "outside"}
Reported(f) == [f EXCEPT !.file = ReportPath(@)]

(* reportError: also where the text names the file.                        *)
ReportPaths(paths) == [i \in DOMAIN paths |-> ReportPath(paths[i])]
ReportError(e) ==
  IF e.file = <<>> THEN e
  ELSE [e EXCEPT !.file = ReportPaths(@), !.names = IF @ = e.file THEN ReportPaths(@) ELSE @]
ReportErrors(errors) == [i \in DOMAIN errors |-> ReportError(errors[i])]

-----------------------------------------------------------------------------
(* JSON, which a template is given too.  A rule has its categories, and    *)
(* ShellCheck's have none.                                                 *)
Meta(rules, id) == IF id \in DOMAIN rules THEN rules[id] ELSE [owasp |-> {}, asvs |-> {}, cwe |-> {}]

JsonFinding(rules, f) ==
  [rule |-> f.rule, severity |-> f.severity, job |-> f.job, file |-> ReportPath(f.file), line |-> f.line,
   message |-> f.message, owasp |-> Meta(rules, f.rule).owasp, asvs |-> Meta(rules, f.rule).asvs]
JsonFindings(rules, found) == [i \in DOMAIN found |-> JsonFinding(rules, found[i])]
JsonSuppressed(rules, s) == [finding |-> JsonFinding(rules, s.finding), source |-> s.source, reason |-> s.reason]

WriteJSON(rules, scan) ==
  [findings |-> JsonFindings(rules, scan.found),
   suppressed |-> [i \in DOMAIN scan.suppressed |-> JsonSuppressed(rules, scan.suppressed[i])],
   errors |-> ReportErrors(scan.errors)]

CountOf(found, severity) == Len(SelectSeq(found, LAMBDA f : f.severity = severity))
WriteTemplate(rules, scan) ==
  [findings |-> JsonFindings(rules, scan.found), errors |-> ReportErrors(scan.errors),
   summary |-> [s \in Severity |-> CountOf(scan.found, s)], files |-> scan.files]

-----------------------------------------------------------------------------
(* SARIF: a suppressed finding is a result with a suppression, a rule is   *)
(* described once, with what it relates to, and errors make an invocation  *)
(* that failed.                                                            *)
SarifLevel(severity) == CASE severity = "error" -> "error" [] severity = "warn" -> "warning" [] OTHER -> "note"
SarifLocation(path, line) ==
  [uri |-> ReportPath(path), base |-> IF IsLocal(path) THEN "%SRCROOT%" ELSE "",
   region |-> IF line > 0 THEN <<line>> ELSE <<>>]
SarifResultOf(f, suppressions) ==
  [rule |-> f.rule, level |-> SarifLevel(f.severity), message |-> f.message, at |-> SarifLocation(f.file, f.line),
   suppressions |-> suppressions]
SarifSuppression(s) ==
  [kind |-> IF s.source = "ignore-file" THEN "external" ELSE "inSource", justification |-> s.reason]

SarifNotification(e) ==
  LET reported == ReportError(e)
  IN  [error |-> reported, at |-> [i \in DOMAIN e.file |-> SarifLocation(e.file[i], 0)]]
SarifInvocations(errors) ==
  IF errors = <<>> THEN <<>>
  ELSE <<[successful |-> FALSE, notifications |-> [i \in DOMAIN errors |-> SarifNotification(errors[i])]]>>

SarifRule(rules, id) ==
  LET meta == Meta(rules, id)
  IN  [id |-> id,
       relationships |-> [CWE |-> meta.cwe, OWASP |-> meta.owasp, ASVS |-> meta.asvs],
       tags |-> {"security"} \union meta.cwe]
Described(results) ==
  FoldLeft(LAMBDA ids, r : IF r.rule \in Range(ids) THEN ids ELSE Append(ids, r.rule), <<>>, results)

WriteSARIF(rules, scan) ==
  LET results == [i \in DOMAIN scan.found |-> SarifResultOf(scan.found[i], <<>>)]
                 \o [i \in DOMAIN scan.suppressed |->
                       SarifResultOf(scan.suppressed[i].finding, <<SarifSuppression(scan.suppressed[i])>>)]
      ids == Described(results)
  IN  [results |-> results,
       rules |-> [i \in DOMAIN ids |-> SarifRule(rules, ids[i])],
       taxonomies |-> [CWE |-> UNION { Meta(rules, id).cwe : id \in Range(ids) },
                       OWASP |-> UNION { Meta(rules, id).owasp : id \in Range(ids) },
                       ASVS |-> UNION { Meta(rules, id).asvs : id \in Range(ids) }],
       invocations |-> SarifInvocations(scan.errors)]

-----------------------------------------------------------------------------
(* Code Climate, where an error is an issue as well.  A hash is what is    *)
(* hashed.                                                                 *)
CodeClimateSeverity(severity) ==
  CASE severity = "error" -> "critical" [] severity = "warn" -> "major" [] OTHER -> "info"
CodeClimateFingerprint(f) == <<f.rule, f.file, f.job, f.message, f.line>>
CodeClimateIssue(f) ==
  [check |-> f.rule, description |-> f.message, severity |-> CodeClimateSeverity(f.severity),
   fingerprint |-> CodeClimateFingerprint(f), path |-> f.file, begin |-> f.line]
CodeClimateError(e) ==
  [check |-> "glsec-error", description |-> e, severity |-> "blocker", fingerprint |-> <<"glsec-error", e>>,
   path |-> IF e.file = <<>> THEN Path(".", "relative") ELSE e.file[1], begin |-> 1]
WriteCodeClimate(scan) ==
  LET errors == ReportErrors(scan.errors)
  IN  [i \in DOMAIN scan.found |-> CodeClimateIssue(Reported(scan.found[i]))]
      \o [i \in DOMAIN errors |-> CodeClimateError(errors[i])]

-----------------------------------------------------------------------------
(* JUnit: without anything to say there is one case, which passes.         *)
Case(name, class, failure, error) == [name |-> name, class |-> class, failure |-> failure, error |-> error]
JUnitFailure(f) ==
  Case(<<f.rule, f.job>>, <<f.file, IF f.line > 0 THEN <<f.line>> ELSE <<>>>>,
       <<[message |-> f.message, type |-> f.severity]>>, <<>>)
JUnitError(e) == Case(<<"scan failed">>, e.file, <<>>, <<e>>)
NoFindings == Case(<<"no findings">>, <<>>, <<>>, <<>>)
WriteJUnit(scan) ==
  LET errors == ReportErrors(scan.errors)
      cases == [i \in DOMAIN scan.found |-> JUnitFailure(Reported(scan.found[i]))]
               \o [i \in DOMAIN errors |-> JUnitError(errors[i])]
  IN  [cases |-> IF cases = <<>> THEN <<NoFindings>> ELSE cases,
       tests |-> IF cases = <<>> THEN 1 ELSE Len(scan.found) + Len(errors),
       failures |-> Len(scan.found), errors |-> Len(errors)]

-----------------------------------------------------------------------------
(* GitLab's security report: a line is at least 1.                         *)
SASTSeverity(severity) == CASE severity = "error" -> "High" [] severity = "warn" -> "Medium" [] OTHER -> "Low"
SASTID(f) == <<f.rule, f.file, f.line, f.job, f.message>>
SASTVuln(rules, f) ==
  [id |-> SASTID(f), description |-> f.message, job |-> f.job, severity |-> SASTSeverity(f.severity),
   primary |-> f.rule, identifiers |-> Meta(rules, f.rule).cwe \union Meta(rules, f.rule).owasp,
   file |-> f.file, line |-> IF f.line < 1 THEN 1 ELSE f.line]
WriteGitLabSAST(rules, scan) ==
  [status |-> IF scan.errors = <<>> THEN "success" ELSE "failure", messages |-> ReportErrors(scan.errors),
   vulnerabilities |-> [i \in DOMAIN scan.found |-> SASTVuln(rules, Reported(scan.found[i]))]]

-----------------------------------------------------------------------------
(* Text and table, for people: the paths are as given, errors are on       *)
(* stderr.  A diagnostic shows its line of the file, with the secret that  *)
(* stands there, and a caret at its column.                                *)
SuppressedSummary(suppressed) ==
  LET inline == Len(SelectSeq(suppressed, LAMBDA s : s.source = "inline"))
  IN  [all |-> Len(suppressed), inline |-> inline, ignoreFile |-> Len(suppressed) - inline]
CleanSummary(scan) == scan.found = <<>> /\ scan.tty

MaskedIf(scan, secret) == IF scan.mask THEN Mask(secret) ELSE secret
SecretsAt(scan, f) ==
  FlattenSeq([i \in DOMAIN scan.source |->
                IF scan.source[i].at = Place(f.file, f.line) THEN MaskedIf(scan, scan.source[i].secret) ELSE <<>>])
SourceLine(scan, f) == IF f.line \in 1..scan.lines THEN <<SecretsAt(scan, f)>> ELSE <<>>
Diagnostic(scan, f) ==
  [severity |-> f.severity, rule |-> f.rule, message |-> f.message, file |-> f.file, line |-> f.line,
   job |-> f.job, source |-> SourceLine(scan, f), caret |-> SourceLine(scan, f) # <<>> /\ f.col > 0]
WriteText(scan) ==
  [entries |-> [i \in DOMAIN scan.found |-> Diagnostic(scan, scan.found[i])],
   clean |-> CleanSummary(scan), suppressed |-> SuppressedSummary(scan.suppressed)]

TableRow(f) ==
  [severity |-> f.severity, rule |-> f.rule, job |-> IF f.job = "" THEN "-" ELSE f.job, file |-> f.file,
   line |-> f.line, message |-> f.message]
WriteTable(scan) ==
  [entries |-> [i \in DOMAIN scan.found |-> TableRow(scan.found[i])],
   clean |-> CleanSummary(scan), suppressed |-> SuppressedSummary(scan.suppressed)]

-----------------------------------------------------------------------------
(* writeOutput masks first, whatever the format.                           *)
MaskedFinding(f) == [f EXCEPT !.message = Redacted(@)]
MaskedSuppressed(s) == [s EXCEPT !.finding = MaskedFinding(@), !.reason = Mask(@)]
MaskedError(e) == [e EXCEPT !.secret = Mask(@)]
MaskedScan(scan) ==
  IF ~scan.mask THEN scan
  ELSE [scan EXCEPT !.found = [i \in DOMAIN @ |-> MaskedFinding(@[i])],
                    !.suppressed = [i \in DOMAIN @ |-> MaskedSuppressed(@[i])],
                    !.errors = [i \in DOMAIN @ |-> MaskedError(@[i])]]

WriteMasked(format, rules, scan) ==
  CASE format = "json" -> WriteJSON(rules, scan)
    [] format = "sarif" -> WriteSARIF(rules, scan)
    [] format = "codeclimate" -> WriteCodeClimate(scan)
    [] format = "junit" -> WriteJUnit(scan)
    [] format = "gitlab-sast" -> WriteGitLabSAST(rules, scan)
    [] format = "template" -> WriteTemplate(rules, scan)
    [] format = "text" -> WriteText(scan)
    [] format = "table" -> WriteTable(scan)
WriteOutput(format, rules, scan) == WriteMasked(format, rules, MaskedScan(scan))

(* A slip: a finding decides before an error.                              *)
ExitCodeOfFindings(cfg, found, errors) ==
  IF ~cfg.noExit /\ \E f \in Range(found) : f.severity = "error" \/ (cfg.strict /\ f.severity = "warn") THEN 1
  ELSE IF errors # <<>> THEN 2 ELSE 0

(* exitCode, and what comes before it.                                     *)
ExitCode(cfg, found, errors) ==
  IF errors # <<>> THEN 2
  ELSE IF ~cfg.noExit /\ \E f \in Range(found) : f.severity = "error" \/ (cfg.strict /\ f.severity = "warn")
    THEN 1 ELSE 0
=============================================================================
