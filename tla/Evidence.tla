------------------------------ MODULE Evidence ------------------------------
(***************************************************************************)
(* The evidence of a run as its commands leave it side by side: votes on    *)
(* findings and chains (AdversarialValidation), candidate patches and their *)
(* validation (PatchValidation), and the evidence graph that gra-evidence-  *)
(* graph makes of these and of the artifacts other commands and agents have *)
(* left (EvidenceGraph).                                                    *)
(***************************************************************************)
EXTENDS AdversarialValidation, PatchValidation, EvidenceGraph

CONSTANTS
  Chains,     \* the chains of the run; the other subjects are findings
  Materials,  \* the artifacts that no command here changes
  NoGraph

ASSUME EvidenceAssumption ==
  /\ Subjects = Findings \cup Chains
  /\ \A m \in Materials : WellFormed(m)

VARIABLES
  material,  \* the artifacts found in the run
  graph,     \* reports/evidence-graph.json
  loaded     \* the artifacts gra-evidence-graph has read, or none yet

vars == << votingVars, patchVars, material, graph, loaded >>

(* The records of the artifacts the commands write. *)
ValidationRecords ==
  IF validation = NoReport THEN {}
  ELSE {[id |-> s, kind |-> IF s \in Chains THEN "chain" ELSE "finding", subject |-> s,
         decision |-> validation.decisions[s], path |-> "validation.json",
         gaps |-> \E report \in Range(validation.votes) : s \notin DOMAIN report]
          : s \in DOMAIN validation.decisions}

CandidateRecords ==
  {[id |-> c.id, finding |-> c.finding, path |-> "remediation-candidates.json"]
     : c \in Range(candidates)}

PatchRecords ==
  UNION {{[id |-> r.patch, finding |-> f, status |-> r.status, path |-> f] : r \in reports[f]}
           : f \in Findings}

Artifacts ==
  [records |-> [kind \in RecordKinds |->
                  CASE kind = "validation" -> ValidationRecords
                    [] kind = "remediation_candidate" -> CandidateRecords
                    [] kind = "patch_validation" -> PatchRecords
                    [] OTHER -> material.records[kind]],
   queue |-> material.queue, index |-> material.index,
   present |-> material.present
                 \cup (IF validation = NoReport THEN {} ELSE {"validation.json"})
                 \cup (IF candidates = << >> THEN {} ELSE {"remediation-candidates.json"})
                 \cup {f \in Findings : reports[f] # {}}]

Init ==
  /\ VotingInit /\ PatchInit
  /\ material \in Materials /\ graph = NoGraph /\ loaded = {}

(* gra-evidence-graph reads the artifacts ... *)
LoadArtifacts ==
  /\ graph = NoGraph /\ loaded = {}
  /\ loaded' = {Artifacts}
  /\ UNCHANGED << votingVars, patchVars, material, graph >>

(* ... and replaces the graph. *)
WriteGraph ==
  /\ graph = NoGraph
  /\ \E a \in loaded : graph' = Graph(a)
  /\ loaded' = {}
  /\ UNCHANGED << votingVars, patchVars, material >>

Next ==
  \/ VotingStep /\ UNCHANGED << patchVars, material, graph, loaded >>
  \/ PatchStep /\ UNCHANGED << votingVars, material, graph, loaded >>
  \/ LoadArtifacts \/ WriteGraph

Spec == Init /\ [][Next]_vars

-----------------------------------------------------------------------------

(* No vote command has removed validation.json without having written it again. *)
Resting == \A p \in Voters : voting[p] \in {"idle", "single", "ensure", "done"}

(* What the commands write the validator accepts, in whatever order they ran and     *)
(* wherever they were killed: every aggregate of votes; the validation of every      *)
(* patch that is still a candidate; and the evidence graph, whose artifacts may have *)
(* been rewritten since, unless a vote command is about to bring one of them back.   *)
EvidenceIsAccepted ==
  /\ validation # NoReport /\ validation.votes # << >> => ValidationAccepted(validation)
  /\ CandidatesAccepted =>
       \A f \in Findings : \A r \in reports[f] :
         (\E c \in Range(candidates) : c.id = r.patch /\ c.finding = f) => ReportAccepted(f, r)
  /\ graph # NoGraph /\ Resting => GraphAccepted(graph, Artifacts)
=============================================================================
