------------------------------ MODULE MCScanRuns ------------------------------
(***************************************************************************)
(* Small repositories for ScanRuns: a.yml includes b.yml and d.yml, whose  *)
(* templates both use, c.yml is a pipeline of its own with b.yml, and      *)
(* d.yml by itself includes c.yml, as it does where paths lead elsewhere   *)
(* from its directory than from that of a.yml.  gl is a rule like GL001,   *)
(* whole one like GL053.                                                   *)
(***************************************************************************)
EXTENDS ScanRuns

CONSTANTS a, b, c, d, gl, whole

MCFile == {a, b, c, d}
MCRule == {gl, whole}

MCPipeline ==
  [t \in MCFile |->
    CASE t = a -> <<[file |-> a, with |-> {a, b, d}, included |-> FALSE],
                    [file |-> b, with |-> {a, b, d}, included |-> TRUE],
                    [file |-> d, with |-> {a, b, d}, included |-> TRUE]>>
      [] t = c -> <<[file |-> c, with |-> {b, c}, included |-> FALSE],
                    [file |-> b, with |-> {b, c}, included |-> TRUE]>>
      [] t = d -> <<[file |-> d, with |-> {c, d}, included |-> FALSE],
                    [file |-> c, with |-> {c, d}, included |-> TRUE]>>
      [] OTHER -> <<[file |-> t, with |-> {t}, included |-> FALSE]>>]

TemplateUses == [f \in MCFile |-> IF f \in {a, d} THEN {b} ELSE {}]

In(f, rule, line, text) ==
  [rule |-> rule, file |-> f, line |-> line, text |-> text, seenBy |-> {"file"}]

first == In(a, gl, 2, 1)
second == In(a, gl, 3, 1)
third == In(b, gl, 2, 1)
fourth == In(b, gl, 2, 2)
template == [In(b, gl, 3, 1) EXCEPT !.seenBy = {"file", "jobs"}]
hidden == [In(b, gl, 4, 2) EXCEPT !.seenBy = {"jobs"}]
noWorkflow == In(b, whole, 1, 2)
rootJob == [In(b, whole, 4, 3) EXCEPT !.seenBy = {"jobs"}]
alone == In(c, gl, 2, 1)

On(q, until) == [file |-> q.file, line |-> q.line, rule |-> q.rule, until |-> until]
AtJobOf(f, rule, until) == [file |-> f, line |-> 1, rule |-> rule, until |-> until]

FlowProblems == {first, second, third, fourth, template, hidden, alone}
FlowStart == {first, third, template, hidden}
FlowComments == {On(template, 0), AtJobOf(a, gl, Never), On(first, Lapsed)}
FlowBaselines == {<< >>, <<On(first, 0), On(third, 0), AtJobOf(a, gl, 0)>>}
FlowTargets == {<<a, b>>, <<b, c>>}
OneRuleSet == {MCRule}

RaceProblems == {first, third, noWorkflow, template, rootJob, alone}
RaceComments == {On(third, 0), On(template, Never), AtJobOf(d, gl, Never), AtJobOf(a, whole, Never)}
RaceBaselines == {<<On(first, Never), On(template, 0)>>}
RaceTargets == {<<a, d>>, <<c, b, a>>}
Interchangeable == Permutations(Proc)
RaceRules == {MCRule, {whole}}
=============================================================================
