---------------------------- MODULE ReportChecks ----------------------------
(***************************************************************************)
(* Runs of glsec from the flags to the exit code (run of                   *)
(* cmd/glsec/main.go): set up, collect what the rules say of the files,    *)
(* compare it with a snapshot and write the report, which may be the       *)
(* snapshot of the next run.                                               *)
(*                                                                         *)
(* A run has flags, a repository, and for each target what the rules say.  *)
(* An item of that is a finding, the place of the job it is moved to, if   *)
(* any, how it is suppressed, and the problem it is about: what a person   *)
(* would fix once.                                                         *)
(***************************************************************************)
EXTENDS Reports

CONSTANTS Rules,      \* of each rule its categories, and since when it applies
          Families,   \* sets of sequences of runs
          RepoFiles   \* what a repository may have as .glsec.yml

(* The data of a run.  A secret may have a prefix that says of what kind   *)
(* it is: up to its first "-", if that is one of its first twelve bytes    *)
(* and in its first half.  All that is not in such a prefix may be of the  *)
(* body, which nobody may see: anything before a later "-", and the whole  *)
(* of a value without one (redact.go:67-69).  The text of an error names   *)
(* the file it is about, or none.                                          *)
Body == {"x", "w"}
Character == {"g", "-", "*"} \union Body
EndsPrefix(s, k) ==
  /\ s[k] = "-" /\ \A j \in 1..k - 1 : s[j] # "-"
  /\ LET before == Bytes(SubSeq(s, 1, k - 1)) IN before < 12 /\ before + 1 < Bytes(s) \div 2
ASecret ==
  { s \in Seq(Character) : \A i \in DOMAIN s : s[i] \in Body => ~ \E k \in i..Len(s) : EndsPrefix(s, k) }
APath == [name : STRING, as : {"relative", "dotted", "up", "absolute", "outside"}]
APlace == [path : APath, line : Nat]
AMessage == [wording : STRING, job : STRING, secret : ASecret, from : Seq(APlace)]
AFinding ==
  [rule : STRING \ {"glsec-error"}, severity : Severity, file : APath, line : Nat, col : Nat, job : STRING,
   origin : Seq(APlace), message : AMessage]
AnItem ==
  [problem : Nat, finding : { f \in AFinding : f.origin = <<>> /\ f.message.from = <<>> },
   at : Seq(APlace), by : STRING, reason : ASecret]
ADoc == [path : APath, items : Seq(AnItem), unjustified : Nat]
AnError ==
  { e \in [file : Seq(APath), names : Seq(APath), secret : ASecret] : e.names \in {<<>>, e.file} }
Saying == [failed : Seq(AnError), docs : Seq(ADoc)]

(* Configuration files are what a repository may have, and something is    *)
(* said of every file that a run scans.                                    *)
RunsAssumption ==
  \A family \in Families : \A some \in family :
    /\ some \in Seq(Range(some)) /\ some # <<>>
    /\ \A run \in Range(some) :
         /\ run.flags.config \in Seq(Seq(RepoFiles)) /\ run.repo.config \in Seq(RepoFiles)
         /\ \A t \in DOMAIN run.said : run.said[t] \in Saying
         /\ ~Refuses(run.flags, run.repo) => Scanned(run.flags, run.repo) \in Seq(DOMAIN run.said)
         /\ run.source \in Seq([at : APlace, secret : ASecret])
ASSUME RunsAssumption

VARIABLES runs, n, at, found, quiet, errors, report, exit, before
vars == <<runs, n, at, found, quiet, errors, report, exit, before>>

Run == runs[n]
Flags == Run.flags
Cfg == Effective(Flags, Run.repo)

Init ==
  /\ \E family \in Families : runs \in family
  /\ n = 1 /\ at = "start"
  /\ found = <<>> /\ quiet = <<>> /\ errors = <<>>
  /\ report = <<>> /\ exit = 0 /\ before = <<>>

Refuse ==
  /\ at = "start" /\ Refuses(Flags, Run.repo)
  /\ at' = "done" /\ exit' = 2
  /\ UNCHANGED <<runs, n, found, quiet, errors, report, before>>

-----------------------------------------------------------------------------
(* collectFindings, for one file with its context.                         *)
SkipSuppress == Flags.generate \/ Flags.noIgnores
Covered(item) ==
  /\ ~SkipSuppress
  /\ item.by = "inline" \/ (item.by = "ignore-file" /\ ~NewOnlyMode(Flags))
Placed(item) == IF item.at = <<>> THEN item.finding ELSE MovedToJob(item.finding, item.at[1])
Counts(item) == Selected(Cfg, Rules, <<item.finding>>) # <<>>
ItemsOf(doc, covered) == { i \in DOMAIN doc.items : Counts(doc.items[i]) /\ Covered(doc.items[i]) = covered }
Finding(item) == ApplySeverity(Cfg, Placed(item))
Suppressed(item) == [finding |-> Finding(item), source |-> item.by, reason |-> item.reason]
FoundIn(doc) == Dedupe(Kept([i \in DOMAIN doc.items |-> Finding(doc.items[i])], ItemsOf(doc, FALSE)))
QuietIn(doc) == DedupeSuppressed(Kept([i \in DOMAIN doc.items |-> Suppressed(doc.items[i])], ItemsOf(doc, TRUE)))

ScanError(file) == [file |-> file, names |-> file, secret |-> <<>>]
PolicyErrors(doc) ==
  IF Cfg.requireReason /\ ~SkipSuppress THEN [i \in 1..doc.unjustified |-> ScanError(<<doc.path>>)] ELSE <<>>

(* scanRoot: a file that fails ends the scan of its root without findings. *)
InDocs(target, Of(_)) ==
  IF Run.said[target].failed # <<>> THEN <<>>
  ELSE FlattenSeq([i \in DOMAIN Run.said[target].docs |-> Of(Run.said[target].docs[i])])
FoundBy(target) == DedupeMoved(Dedupe(InDocs(target, FoundIn)))
QuietBy(target) == DedupeSuppressed(InDocs(target, QuietIn))
ErrorsBy(target) == InDocs(target, PolicyErrors) \o Run.said[target].failed

OverTargets(Of(_)) ==
  LET scanned == Scanned(Flags, Run.repo) IN FlattenSeq([i \in DOMAIN scanned |-> Of(scanned[i])])
NothingScanned ==
  IF Cfg.strict /\ Targets(Flags, Run.repo) # <<>> /\ Scanned(Flags, Run.repo) = <<>>
    THEN <<ScanError(<<>>)>> ELSE <<>>

Collect ==
  /\ at = "start" /\ ~Refuses(Flags, Run.repo)
  /\ found' = OverTargets(FoundBy)
  /\ quiet' = OverTargets(QuietBy)
  /\ errors' = OverTargets(ErrorsBy) \o NothingScanned
  /\ at' = IF Flags.generate THEN "generate" ELSE "collected"
  /\ UNCHANGED <<runs, n, report, exit, before>>

(* The ignore file is written, and no report.                              *)
Generate ==
  /\ at = "generate"
  /\ at' = "done" /\ exit' = IF errors = <<>> THEN 0 ELSE 2
  /\ UNCHANGED <<runs, n, found, quiet, errors, report, before>>

(* --baseline names a report of the run before, or a file that is not      *)
(* there; without it there is no ignore file here, so all is new.          *)
Snapshot == IF Flags.baseline = <<>> THEN <<>> ELSE before[1].report[1].findings
Compare ==
  /\ at = "collected"
  /\ IF Flags.baseline = <<"missing">> THEN at' = "done" /\ exit' = 2 /\ UNCHANGED found
     ELSE /\ at' = "compared" /\ UNCHANGED exit
          /\ found' = IF NewOnlyMode(Flags) THEN FilterNewOnly(Snapshot, found) ELSE found
  /\ UNCHANGED <<runs, n, quiet, errors, report, before>>

FilesScanned ==
  UNION { { d.path : d \in Range(Run.said[t].docs) } : t \in Range(Scanned(Flags, Run.repo)) }
Scan ==
  [found |-> found, suppressed |-> quiet, errors |-> errors, files |-> Cardinality(FilesScanned),
   source |-> Run.source, lines |-> Run.lines, mask |-> ~Flags.noRedact, tty |-> Run.tty]
Write ==
  /\ at = "compared"
  /\ report' = <<WriteOutput(Flags.format, Rules, Scan)>>
  /\ exit' = ExitCode(Cfg, found, errors)
  /\ at' = "done"
  /\ UNCHANGED <<runs, n, found, quiet, errors, before>>

(* The items of a run: of each file that an argument names and no pattern  *)
(* excludes, once however often it is named, if its root can be scanned.   *)
Excluded(path) == MatchesExclude(path, Cfg.exclude)
NamedTargets ==
  { t \in DOMAIN Run.said : t \in Range(Targets(Flags, Run.repo)) /\ ~Excluded(t) }
ItemsIn(targets) ==
  UNION { UNION { Range(Run.said[t].docs[i].items) : i \in DOMAIN Run.said[t].docs } :
            t \in { u \in targets : Run.said[u].failed = <<>> } }
Items == { item \in ItemsIn(NamedTargets) : Counts(item) }
SeverityHere(item) == ApplySeverity(Cfg, item.finding).severity

(* A problem is reported where it is, or, if its own file does not do so,  *)
(* at one of the jobs that use it.                                         *)
InPlace(problem, covered) ==
  { item \in Items : item.problem = problem /\ item.at = <<>> /\ Covered(item) = covered }
AtJobs(problem) == { item \in Items : item.problem = problem /\ item.at # <<>> /\ ~Covered(item) }
Problems == { item.problem : item \in { i \in Items : ~Covered(i) } }
MarkedPlaces ==
  { <<item.problem, Placed(item).file, Placed(item).line>> : item \in { i \in Items : Covered(i) } }
Highest(items) == Severities[Max({ Rank(SeverityHere(item)) : item \in items })]

Known == { <<i.problem, <<i.finding.rule, Placed(i).file.name, Placed(i).message>>>> : i \in { j \in Items : ~Covered(j) } }
NextRun ==
  /\ at = "done" /\ n < Len(runs)
  /\ n' = n + 1 /\ at' = "start"
  /\ before' = <<[known |-> Known, report |-> report, exit |-> exit]>>
  /\ found' = <<>> /\ quiet' = <<>> /\ errors' = <<>> /\ report' = <<>> /\ exit' = 0
  /\ UNCHANGED runs

Next == Refuse \/ Collect \/ Generate \/ Compare \/ Write \/ NextRun
Spec == Init /\ [][Next]_vars

-----------------------------------------------------------------------------
(* What a reader of each format sees: the findings, those marked as        *)
(* suppressed, the errors, and all secrets and paths.                      *)
Entry(rule, severity, file, message) == [rule |-> rule, severity |-> severity, file |-> file, message |-> message]
EntryOf(f) == Entry(f.rule, f.severity, f.file, f.message)
Entries(seq, Of(_)) == [i \in DOMAIN seq |-> Of(seq[i])]
Reading(shown, marked, errs) == [shown |-> shown, marked |-> marked, errors |-> errs]

SeverityOf(names, name) == CHOOSE s \in Severity : names[s] = name
SarifLevels == [s \in Severity |-> SarifLevel(s)]
Criticality == [s \in Severity |-> CodeClimateSeverity(s)]
SASTSeverities == [s \in Severity |-> SASTSeverity(s)]

ReadSarif(r) ==
  LET Of(x) == Entry(x.rule, SeverityOf(SarifLevels, x.level), x.at.uri, x.message)
      ErrorsIn(i) == Entries(i.notifications, LAMBDA m : m.error)
  IN  Reading(Entries(Passing(r.results, LAMBDA x : x.suppressions = <<>>), Of),
              Entries(Passing(r.results, LAMBDA x : x.suppressions # <<>>), Of),
              FlattenSeq(Entries(r.invocations, ErrorsIn)))
ReadCodeClimate(r) ==
  LET IsError(x) == x.check = "glsec-error"
  IN  Reading(Entries(Passing(r, LAMBDA x : ~IsError(x)),
                      LAMBDA x : Entry(x.check, SeverityOf(Criticality, x.severity), x.path, x.description)),
              <<>>, Entries(Passing(r, IsError), LAMBDA x : x.description))
ReadJUnit(r) ==
  LET failed == Passing(r.cases, LAMBDA c : c.failure # <<>>)
      broken == Passing(r.cases, LAMBDA c : c.error # <<>>)
  IN  Reading(Entries(failed, LAMBDA c : Entry(c.name[1], c.failure[1].type, c.class[1], c.failure[1].message)),
              <<>>, Entries(broken, LAMBDA c : c.error[1]))
ReadSAST(r) ==
  Reading(Entries(r.vulnerabilities,
                  LAMBDA v : Entry(v.primary, SeverityOf(SASTSeverities, v.severity), v.file, v.description)),
          <<>>, r.messages)
Read(format, r) ==
  CASE format = "json" -> Reading(Entries(r.findings, EntryOf), Entries(r.suppressed, LAMBDA s : EntryOf(s.finding)), r.errors)
    [] format = "template" -> Reading(Entries(r.findings, EntryOf), <<>>, r.errors)
    [] format = "sarif" -> ReadSarif(r)
    [] format = "codeclimate" -> ReadCodeClimate(r)
    [] format = "junit" -> ReadJUnit(r)
    [] format = "gitlab-sast" -> ReadSAST(r)
    [] format \in {"text", "table"} -> Reading(Entries(r.entries, EntryOf), <<>>, <<>>)


Written == at = "done" /\ report # <<>>
Shown == Read(Flags.format, report[1])
ForPeople == Flags.format \in {"text", "table"}
CountIn(seq, Test(_)) == Len(Passing(seq, Test))

-----------------------------------------------------------------------------
ShowsAs(entry, item, severity) ==
  /\ entry.rule = item.finding.rule /\ entry.severity = severity
  /\ entry.message.wording = item.finding.message.wording
  /\ entry.file.name = Placed(item).file.name
IsShownBy(problem, entry) ==
  IF InPlace(problem, FALSE) # {}
    THEN \E item \in InPlace(problem, FALSE) : ShowsAs(entry, item, Highest(InPlace(problem, FALSE)))
    ELSE \E item \in AtJobs(problem) : ShowsAs(entry, item, SeverityHere(item))

(* A report shows each problem once, in the severity that it has, whatever *)
(* jobs and files share it and however often its file is named; what a     *)
(* suppression covers it shows only as suppressed, and only SARIF and JSON *)
(* do.  (dedupe.go:11: the merged finding keeps the highest severity; a    *)
(* problem that only jobs elsewhere report has that of one of them.)       *)
EachProblemOnce ==
  /\ Len(Shown.shown) = Cardinality(Problems)
  /\ \A p \in Problems : \E i \in DOMAIN Shown.shown : IsShownBy(p, Shown.shown[i])
  /\ \A i \in DOMAIN Shown.shown : \E p \in Problems : IsShownBy(p, Shown.shown[i])
  /\ Len(Shown.marked) = IF Flags.format \in {"json", "sarif"} THEN Cardinality(MarkedPlaces) ELSE 0

(* With a snapshot of the run before, of problems that read alike as many  *)
(* are reported as came without others going, and never more than came     *)
(* (baseline.go:21: a genuine third occurrence is still reported as new).  *)
TextOf(f) == <<f.rule, f.file.name, f.message>>
OnlyTheNew ==
  \A text \in { known[2] : known \in Known } :
    LET now == { known \in Known : known[2] = text }
        old == { known \in before[1].known : known[2] = text }
        reported == CountIn(found, LAMBDA f : TextOf(f) = text)
    IN  /\ reported <= Cardinality(now \ old)
        /\ reported >= Cardinality(now \ old) - Cardinality(old \ now)

(* What a report shows of what the rules say: everything once, or of what  *)
(* a snapshot does not accept what came since.                             *)
ReportedAsFound ==
  Written => /\ ~NewOnlyMode(Flags) => EachProblemOnce
             /\ Flags.baseline # <<>> => OnlyTheNew

-----------------------------------------------------------------------------
(* What a run exits with is what its report shows: 2 only with an error,   *)
(* which a report for machines has too, 1 only with a finding of a         *)
(* severity that counts; and no report of a scan that failed looks clean.  *)
Serious(entry) == entry.severity = "error" \/ (Cfg.strict /\ entry.severity = "warn")
ExitAsShown ==
  /\ ~ForPeople => Len(Shown.errors) = Len(errors)
  /\ exit = 2 <=> errors # <<>>
  /\ exit = 1 <=> errors = <<>> /\ ~Cfg.noExit /\ \E i \in DOMAIN Shown.shown : Serious(Shown.shown[i])

(* What readers of one format rely on: every rule and requirement that a   *)
(* SARIF result refers to is described, JUnit counts its cases, ids are of *)
(* one finding each, lines of a security report begin at 1.                *)
SarifCloses(r) ==
  /\ { x.rule : x \in Range(r.results) } = { d.id : d \in Range(r.rules) }
  /\ Cardinality({ d.id : d \in Range(r.rules) }) = Len(r.rules)
  /\ \A d \in Range(r.rules) : \A k \in DOMAIN d.relationships : d.relationships[k] \subseteq r.taxonomies[k]
JUnitCounts(r) ==
  /\ r.tests = Len(r.cases) /\ r.tests > 0
  /\ r.failures = CountIn(r.cases, LAMBDA c : c.failure # <<>>)
  /\ r.errors = CountIn(r.cases, LAMBDA c : c.error # <<>>)
(* The column is in no id: two findings of a line may share one, also if   *)
(* they differ in what is masked.                                          *)
Apart(f, g) == [f EXCEPT !.col = 0, !.severity = ""] # [g EXCEPT !.col = 0, !.severity = ""]
IdsDiffer(ids) ==
  LET told == MaskedScan(Scan).found
  IN  \A i, j \in DOMAIN told : i # j /\ Apart(Reported(told[i]), Reported(told[j])) => ids[i] # ids[j]
Closed(format, r) ==
  CASE format = "sarif" -> SarifCloses(r)
    [] format = "junit" -> JUnitCounts(r)
    [] format = "codeclimate" -> IdsDiffer([i \in DOMAIN r |-> r[i].fingerprint])
    [] format = "gitlab-sast" ->
         /\ IdsDiffer([i \in DOMAIN r.vulnerabilities |-> r.vulnerabilities[i].id])
         /\ r.status = "failure" <=> errors # <<>>
         /\ \A i \in DOMAIN r.vulnerabilities : r.vulnerabilities[i].line >= 1
    [] OTHER -> TRUE

(* A report says of itself what it says: it fits the exit code, and        *)
(* nothing in it refers to what it leaves out.                             *)
ReportCloses == Written => ExitAsShown /\ Closed(Flags.format, report[1])

-----------------------------------------------------------------------------
(* All secrets that a report shows, and all paths.                         *)
Secrets(format, r) ==
  { e.message.secret : e \in Range(Shown.shown \o Shown.marked) }
    \union { e.secret : e \in Range(Shown.errors) }
    \union CASE format = "json" -> { s.reason : s \in Range(r.suppressed) }
             [] format = "sarif" -> UNION { { s.justification : s \in Range(x.suppressions) } : x \in Range(r.results) }
             [] format = "text" -> UNION { Range(e.source) : e \in Range(r.entries) }
             [] OTHER -> {}
Paths ==
  { e.file : e \in Range(Shown.shown \o Shown.marked) }
    \union UNION { Range(e.file) \union Range(e.names) : e \in Range(Shown.errors) }

(* No format shows the body of a secret, in a message, a reason, an error  *)
(* or a source line (main.go:695: "in every format"): of a value nothing   *)
(* but its prefix, and nothing at all if it has none.  No report for       *)
(* machines says where the working directory is (errors.go:62).            *)
NothingLeaks ==
  Written =>
    /\ ~Flags.noRedact => \A secret \in Secrets(Flags.format, report[1]) : Range(secret) \intersect Body = {}
    /\ ~ForPeople => \A path \in Paths : path.as # "absolute"

-----------------------------------------------------------------------------
(* What the repository may decide: with flags that keep its files out, a   *)
(* run is the same whatever its configuration and its comments say, and    *)
(* never does it choose the ShellCheck binary (main.go:253, #804).         *)
Shielded == Flags.noIgnores /\ ~Flags.generate /\ (Flags.noRepoConfig \/ Flags.config # <<>>)
Bare(item) == [item EXCEPT !.by = "", !.reason = <<>>]
BareDoc(doc) == [path |-> doc.path, items |-> Entries(doc.items, Bare)]
BareRun(run) ==
  [flags |-> run.flags, what |-> run.repo.what, tree |-> run.repo.tree, source |-> run.source,
   lines |-> run.lines, tty |-> run.tty,
   said |-> [t \in DOMAIN run.said |->
               [failed |-> run.said[t].failed, docs |-> Entries(run.said[t].docs, BareDoc)]]]

(* A run that is refused, or fails, has not written a report that looks    *)
(* clean; --only and --skip hold against the configuration.                *)
SettingsHold ==
  at = "done" =>
    /\ report = <<>> => exit = 2 \/ Flags.generate
    /\ report # <<>> => \A e \in Range(Shown.shown \o Shown.marked) :
         e.rule \notin Flags.skip /\ (Flags.only # {} => e.rule \in Flags.only)
    /\ n = 2 /\ Shielded /\ BareRun(runs[1]) = BareRun(runs[2]) => before[1].exit = exit /\ before[1].report = report
    /\ \A file \in RepoFiles :
         ShellCheckPath(Flags, [Run.repo EXCEPT !.config = <<file>>]) = ShellCheckPath(Flags, [Run.repo EXCEPT !.config = <<>>])
=============================================================================
