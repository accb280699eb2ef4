----------------------------- MODULE MCRunCommands -----------------------------
(* Two scenarios over the unlocked files of a run, for TLC: operators and       *)
(* gated processes over run-state.json (RunState), and importers, classifiers   *)
(* and editors over the findings (FindingTriage).  The two share no file, so    *)
(* one rests while the other runs.                                              *)
EXTENDS RunState, FindingTriage

Symmetry == Permutations(Operators) \cup Permutations(Triagers)

Id(name) == [name |-> name, of |-> << >>]

Text(root, evidence) ==
  [n \in HashNames |->
     CASE n = "root_cause" -> root
       [] n = "evidence" -> evidence
       [] n = "chain_membership" -> Empty
       [] OTHER -> "place of " \o root]

\* A local finding; its evidence may be longer, its severity 3 or 4.
Local(name, fp, root, evidence, severity) ==
  [id |-> Id(name), fp |-> << "local", fp >>, text |-> Text(root, evidence),
   strength |-> [severity |-> severity, confidence |-> 3, status |-> 4,
                 evidence_size |-> Len(evidence), impact_size |-> 1],
   recommended |-> TRUE]

Raw(id, severity, status, secret) ==
  [external_id |-> id, title |-> "title", severity |-> severity, confidence |-> "high",
   status |-> status, evidence |-> [text |-> "e", secret |-> secret],
   locations |-> << [inRepo |-> TRUE, line |-> {1}, endLine |-> {}] >>]

\* One record twice, spelled differently and once with a secret in the evidence,
\* and one of an unknown severity.
Repeating ==
  [source |-> "tool",
   records |-> << Raw("x", "info", "confirmed", FALSE), Raw("x", "informational", "probable", TRUE),
                  Raw("y", "urgent", "confirmed", FALSE) >>]
Other == [source |-> "tool", records |-> << Raw("z", "high", "confirmed", FALSE) >>]
Oversize == [source |-> "tool", records |-> [i \in 1..4 |-> Raw("w", "high", "confirmed", FALSE)]]

MCPayloads == {Repeating, Other, Oversize}

\* The operator has reviewed the imported finding and wants it published.
Adopted == [BuildFinding("tool", Other.records[1]) EXCEPT !.recommended = TRUE]

\* The last list names two findings alike.
MCFindingLists ==
  { << Local("SEC-1", "f", "r", "e", 3) >>,
    << Local("SEC-1", "f", "r", "e", 4), Adopted >>,
    << Local("SEC-1", "g", "r", "ee", 3), Local("SEC-1", "f", "s", "e", 3) >> }

MCRiskChoices == {{}, {Id("SEC-1")}}

\* The run starts without findings.json or with the first list.
Before == report.findings.of \in {<< >>, << Local("SEC-1", "f", "r", "e", 3) >>}

MCInit ==
  \/ Init /\ TriageInit /\ report.findings.is = "missing"
  \/ /\ TriageInit /\ Before
     /\ file = "missing" /\ log = << >>
     /\ command = [o \in Operators |-> "clear"]
     /\ pc = [p \in Operators \cup Gated |-> "refused"]
     /\ found = [o \in Operators |-> 0] /\ looked = [g \in Gated |-> 0]

MCNext ==
  \/ Next /\ UNCHANGED triageVars
  \/ (\A p \in Operators \cup Gated : pc[p] = "refused") /\ TriageStep /\ UNCHANGED vars

MCSpec == MCInit /\ [][MCNext]_<< vars, triageVars >>
================================================================================
