------------------------------ MODULE MCEvidence ------------------------------
(***************************************************************************)
(* Instances of Evidence for TLC: a finding and a chain that are voted on   *)
(* by overlapping commands, and, from other initial states, patches of the  *)
(* finding that are validated twice, or validated and redrafted meanwhile.  *)
(***************************************************************************)
EXTENDS Evidence, TLC

CONSTANTS v1, v2, v3, v4, r1, r2, r3, d1, t1, t2

\* --finding twice, --chain, and --all-critical-high where no finding has been confirmed.
MCChosen == v1 :> {"f"} @@ v2 :> {"f"} @@ v3 :> {"c"} @@ v4 :> {}
MCPasses == v1 :> 2 @@ v2 :> 2 @@ v3 :> 1 @@ v4 :> 2
MCPolicy ==
  v1 :> "precision-biased" @@ v2 :> "recall-biased" @@ v3 :> "human-review-on-split"
    @@ v4 :> "human-review-on-split"
MCBallots == {"f" :> "confirm" @@ "c" :> "invalidate", "f" :> "invalidate", << >>}

MCTouches == t1 :> {"src"} @@ t2 :> {"src", "test"}
MCAsked == r1 :> "f" @@ r2 :> "f" @@ r3 :> "all" @@ d1 :> "f"
MCGiven == r1 :> {"build", "test"} @@ r2 :> {} @@ r3 :> {"test"}
MCCandidate(id, declared) == [id |-> id, finding |-> "f", declared |-> declared]
MCDrafts ==
  { [candidates |-> << MCCandidate("p", {}) >>, patches |-> "p" :> t1 @@ "q" :> NoPatch],
    [candidates |-> << MCCandidate("p", {"src"}), MCCandidate("q", {}) >>,
     patches |-> "p" :> t2 @@ "q" :> t1] }

MCFinding == [id |-> "f", severe |-> TRUE, recommended |-> TRUE, exempt |-> FALSE,
              chains |-> {"c"}, path |-> "findings.json"]
MCNothing == [kind \in RecordKinds |-> {}]
MCEverything ==
  [MCNothing EXCEPT
     !["finding"] = {MCFinding},
     !["target"] = {[id |-> "t", about |-> {"f"}, path |-> "targets.json"]},
     !["scanner_lead"] = {[id |-> "l", names |-> {"syft", "raw"}, path |-> "l"]},
     !["scanner_run"] = {[id |-> "s", lead |-> "l", path |-> "scanner-runs.json"]},
     !["chain"] = {[id |-> "c", findings |-> {"f"}, targets |-> {"t"}, leads |-> {"l", "syft", "raw", "scanner-index.json"},
                    path |-> "chains.json"]},
     !["proof"] = {[id |-> "x", finding |-> "f", status |-> "failed", path |-> "proofs.json"]},
     !["trace"] = {[id |-> "y", finding |-> "f", status |-> "Confirmed", path |-> "traces.json"]},
     !["issue_plan_entry"] = {[id |-> "f", path |-> "issue-publication-plan.json"]},
     !["metric"] = {[id |-> "run", path |-> "metrics.json"]},
     !["workflow_profile"] = {[id |-> "run", path |-> "workflow-profile.json"]},
     !["workflow_stage"] = {[id |-> "audit", path |-> "workflow-profile.json"]},
     !["workflow_execution"] = {[id |-> "run", path |-> "workflow-execution.json"]},
     !["workflow_execution_stage"] =
       {[id |-> "audit", needs |-> {}, path |-> "workflow-execution.json"],
        [id |-> "prove", needs |-> {"audit"}, path |-> "workflow-execution.json"]}]

MCMaterial(records, queue) ==
  [records |-> records, queue |-> queue, index |-> {"scanner-index.json"},
   present |-> {r.path : r \in UNION {records[k] : k \in DOMAIN records}}]

MCMaterials ==
  {MCMaterial(MCEverything, {1}), MCMaterial([MCNothing EXCEPT !["finding"] = {MCFinding}], {})}

Voting(ps) == \A p \in Voters \ ps : voting[p] = "done"
Patching(ps) == \A p \in (Validators \cup Drafters) \ ps : at[p] = "done"

(* Votes in two passes by one or two commands, or beside other votes; validations, or one *)
(* and a drafter.                                                                         *)
MCInit ==
  /\ Init
  /\ \/ /\ Patching({})
        /\ \/ Voting({v1, v2}) /\ material.queue = {}
           \/ Voting({v1, v3}) \/ Voting({v3, v4})
     \/ /\ Voting({}) /\ material.queue = {}
        /\ Patching({r1, r2, r3}) \/ Patching({r1, d1})

MCSpec == MCInit /\ [][Next]_vars
===============================================================================
