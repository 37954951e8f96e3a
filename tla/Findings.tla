------------------------------ MODULE Findings ------------------------------
(***************************************************************************)
(* What becomes of what the rules say before it is reported: which of it   *)
(* counts, what is said more than once, what a baseline has accepted, and  *)
(* the masking of secrets (internal/config, finding, baseline, redact, and *)
(* cmd/glsec/main.go).                                                     *)
(*                                                                         *)
(* A path is a file and how it is written.  A message is its wording, the  *)
(* job it quotes, the secret value it shows and the note on where the      *)
(* configuration is that a job uses; an origin and a note are empty or one *)
(* place.                                                                  *)
(***************************************************************************)
EXTENDS SequencesExt, FiniteSetsExt, Integers

(* What a sequence has at some of its places, in order, and what passes a  *)
(* test.                                                                   *)
Kept(seq, places) ==
  FoldLeftDomain(LAMBDA out, i : IF i \in places THEN Append(out, seq[i]) ELSE out, <<>>, seq)
Passing(seq, Test(_)) == Kept(seq, { i \in DOMAIN seq : Test(seq[i]) })

Path(name, as) == [name |-> name, as |-> as]
Place(path, line) == [path |-> path, line |-> line]

(* filepath.Abs: a relative path may begin with ./ ("dotted") or lead out  *)
(* of the working directory ("up").                                        *)
Absolute(path) == Path(path.name, IF path.as \in {"up", "outside"} THEN "outside" ELSE "absolute")

-----------------------------------------------------------------------------
(* internal/config: an override counts also if the severity is that of the *)
(* rule; "off" only turns the rule off.                                    *)
Severities == <<"info", "warn", "error">>
Rank(severity) == SelectInSeq(Severities, LAMBDA s : s = severity)

RuleEnabled(cfg, id) ==
  /\ cfg.only = {} \/ id \in cfg.only
  /\ id \notin cfg.skip
  /\ id \notin DOMAIN cfg.rules \/ cfg.rules[id] # "off"
OWASPEnabled(cfg, categories) ==
  /\ cfg.owasp = {} \/ categories \intersect cfg.owasp # {}
  /\ categories \intersect cfg.owaspExclude = {}
ApplySeverity(cfg, f) ==
  IF f.rule \in DOMAIN cfg.rules THEN [f EXCEPT !.severity = cfg.rules[f.rule]] ELSE f
AboveMinSeverity(cfg, f) == cfg.min = "" \/ Rank(f.severity) >= Rank(cfg.min)

(* rules.EnabledFor, with internal/version: <<0, 0>> is no version.        *)
AtLeast(v, w) == v[1] > w[1] \/ (v[1] = w[1] /\ v[2] >= w[2])
EnabledFor(rule, v) == v = <<0, 0>> \/ AtLeast(v, rule.since)

(* collectFindings: what rules say, and after it what ShellCheck says.     *)
IsShellCheck(rules, f) == f.rule \notin DOMAIN rules
Runs(cfg, rules, f) ==
  /\ RuleEnabled(cfg, f.rule)
  /\ IF IsShellCheck(rules, f) THEN cfg.shellcheck.enabled
     ELSE OWASPEnabled(cfg, rules[f.rule].owasp) /\ EnabledFor(rules[f.rule], cfg.version)
Selected(cfg, rules, said) ==
  LET run == Passing(said, LAMBDA f : Runs(cfg, rules, f))
  IN  Passing([i \in DOMAIN run |-> ApplySeverity(cfg, run[i])], LAMBDA f : AboveMinSeverity(cfg, f))

-----------------------------------------------------------------------------
(* internal/finding: one finding for a problem at a place, whichever jobs  *)
(* share it, with the job that comes first and the highest severity.       *)
Wording(f) == IF f.job # "" /\ f.message.job = f.job THEN [f.message EXCEPT !.job = "quoted"] ELSE f.message
KeyOf(f) == <<f.rule, f.file, Wording(f), f.line, f.col>>

(* A slip: the severity of the first job stays.                            *)
MergeFirst(out, f) == IF \E i \in DOMAIN out : KeyOf(out[i]) = KeyOf(f) THEN out ELSE Append(out, f)

Merge(out, f) ==
  LET same == SelectInSeq(out, LAMBDA g : KeyOf(g) = KeyOf(f))
  IN  IF same = 0 THEN Append(out, f)
      ELSE [out EXCEPT ![same].severity = IF Rank(f.severity) > Rank(@) THEN f.severity ELSE @]
Dedupe(said) == FoldLeft(Merge, <<>>, said)

MergeSuppressed(out, s) ==
  LET same == SelectInSeq(out, LAMBDA o : KeyOf(o.finding) = KeyOf(s.finding))
  IN  IF same = 0 THEN Append(out, s)
      ELSE [out EXCEPT ![same].finding.severity =
              IF Rank(s.finding.severity) > Rank(@) THEN s.finding.severity ELSE @]
DedupeSuppressed(suppressed) == FoldLeft(MergeSuppressed, <<>>, suppressed)

(* What was moved to a job counts once for all jobs, and not at all if its *)
(* own file reports it: with the first severity, not the highest.          *)
OriginOf(f) ==
  IF f.origin = <<>> THEN <<f.rule, Place(f.file, f.line), Wording(f)>>
  ELSE <<f.rule, f.origin[1], Wording([f EXCEPT !.message.from = <<>>])>>
IsRepeated(found, i) ==
  \/ \E j \in DOMAIN found : found[j].origin = <<>> /\ OriginOf(found[j]) = OriginOf(found[i])
  \/ \E j \in 1..i - 1 : OriginOf(found[j]) = OriginOf(found[i])
DedupeMoved(found) == Kept(found, { i \in DOMAIN found : found[i].origin = <<>> \/ ~IsRepeated(found, i) })

(* movedToJob: the finding is at the job now, and says where it was.       *)
MovedToJob(f, at) ==
  [f EXCEPT !.file = at.path, !.line = at.line, !.col = 1, !.message.from = <<Place(f.file, f.line)>>,
            !.origin = <<Place(f.file, f.line)>>]

-----------------------------------------------------------------------------
(* internal/redact.  A secret is its characters: "-" ends a prefix, "w" is *)
(* one of two bytes.  mask looks for a prefix by bytes, and writes a * for *)
(* each character.                                                         *)
Bytes(s) == Len(s) + Len(SelectSeq(s, LAMBDA c : c = "w"))

PrefixWithin == 12
(* A slip: any prefix is kept, whatever its length.                        *)
MaskAfter(secret) ==
  LET dash == SelectInSeq(secret, LAMBDA c : c = "-")
  IN  [i \in DOMAIN secret |-> IF i <= dash THEN secret[i] ELSE "*"]
Mask(secret) ==
  LET dash == SelectInSeq(secret, LAMBDA c : c = "-")
      before == Bytes(SubSeq(secret, 1, dash - 1))
      keep == IF dash # 0 /\ before < PrefixWithin /\ before + 1 < Bytes(secret) \div 2 THEN dash ELSE 0
  IN  [i \in DOMAIN secret |-> IF i <= keep THEN secret[i] ELSE "*"]
Redacted(message) == [message EXCEPT !.secret = Mask(@)]

-----------------------------------------------------------------------------
(* internal/baseline: a JSON report is the snapshot of what is accepted.   *)
SnapshotKey(rule, file, message) == <<rule, Absolute(file), Redacted(message)>>

KeyIn(entries, i) == SnapshotKey(entries[i].rule, entries[i].file, entries[i].message)
Times(entries, k) == Cardinality({ i \in DOMAIN entries : KeyIn(entries, i) = k })

(* filterNewOnly: each accepted finding stands for one.                    *)
FilterNewOnly(snapshot, found) ==
  Kept(found, { i \in DOMAIN found :
                  Times(SubSeq(found, 1, i), KeyIn(found, i)) > Times(snapshot, KeyIn(found, i)) })
=============================================================================
