---------------------------- MODULE WorkflowReport ----------------------------
(***************************************************************************)
(* workflow-execution.json: the report made from a checkpoint at every     *)
(* checkpoint write, what gra-validate-report requires of it, and the      *)
(* summary of it that metrics, dashboard and trend reports embed.          *)
(*                                                                         *)
(* In WorkflowExecutor the variable report holds the checkpoint the report *)
(* on disk was built from; Built is the report itself.  Left out: times    *)
(* and durations, and the counts by class of a failure history, which      *)
(* ProviderFailures models.                                                *)
(***************************************************************************)
EXTENDS WorkflowExecutor

None == "none"

\* What a dependency must be for a stage not to be reported as blocked by it.
Satisfying == {"succeeded", "external_prerequisite", "skipped_by_scope"}

\* Mutant of BlockedBy: only a stage that ran satisfies a dependency.
BlockedByUnrun(ck, s) == {d \in DependsOn[s] : ck.stage[d].status # "succeeded"}

BlockedBy(ck, s) == {d \in DependsOn[s] : ck.stage[d].status \notin Satisfying}

AbsenceReasons ==
  {"interrupted", "operator_scoped_skip", "external_prerequisite",
   "outside_selected_range", "blocked_by_dependency", "range_continuation",
   "workflow_paused", "workflow_blocked", "not_started"}

\* Why stage s has no result; ranged tells whether --until was given.
AbsenceReason(ck, ranged, s) ==
  LET status  == ck.stage[s].status
      blocked == status = "blocked_dependency" \/ BlockedBy(ck, s) # {}
      told    == [skipped_by_scope |-> "operator_scoped_skip",
                  external_prerequisite |-> "external_prerequisite",
                  out_of_range |-> "outside_selected_range"]
  IN IF ck.stage[s].error = "interrupted" THEN "interrupted"
     ELSE IF status \in DOMAIN told THEN told[status]
     ELSE IF blocked THEN "blocked_by_dependency"
     ELSE IF status # "pending" THEN None
     ELSE IF ranged THEN "range_continuation"
     ELSE CASE ck.status = "paused" -> "workflow_paused"
            [] ck.status = "blocked" -> "workflow_blocked"
            [] OTHER -> "not_started"

\* One entry of "stages": the record without what only the executor needs.
StageEntry(ck, ranged, s) ==
  LET r == ck.stage[s] IN
  [status |-> r.status, attempt |-> r.attempt, error |-> r.error,
   provider |-> r.provider, failures |-> r.failures, lastError |-> r.lastError,
   recovered |-> r.recovered, absence |-> AbsenceReason(ck, ranged, s),
   blockedBy |-> BlockedBy(ck, s), artifact |-> r.output # Absent]

Entries(rep, S) == {s \in Stage : rep.stage[s].status \in S}

CountBy(f, Keys) == [k \in Keys |-> Cardinality({s \in Stage : f[s] = k})]

ByStatus(rep) == CountBy([s \in Stage |-> rep.stage[s].status], StageStatus)

ByAbsence(rep) == CountBy([s \in Stage |-> rep.stage[s].absence], AbsenceReasons)

WithHistory(rep) == {s \in Stage : rep.stage[s].failures > 0}
Active(rep) == {s \in WithHistory(rep) : rep.stage[s].provider # None}
Recovered(rep) == {s \in WithHistory(rep) : rep.stage[s].recovered}

\* The sum of some counts, taken as the number of pairs <<k, i>> where i is
\* one of the first counts[k] positive numbers.
Units(counts) == UNION {{k} \X (1..counts[k]) : k \in DOMAIN counts}

Total(counts) == Cardinality(Units(counts))

FailureCount(rep) == Total([s \in WithHistory(rep) |-> rep.stage[s].failures])

\* The "summary" of a report with these stages.
StageSummary(rep) ==
  [stages |-> N, byStatus |-> ByStatus(rep),
   failed |-> Cardinality(Entries(rep, {"failed"})),
   skipped |-> Cardinality(Entries(rep, {"skipped_by_scope"})),
   blocked |-> Cardinality(Entries(rep, {"blocked_dependency"})),
   absent |-> Cardinality({s \in Stage : rep.stage[s].absence # None}),
   byAbsence |-> ByAbsence(rep),
   failures |-> FailureCount(rep),
   active |-> Cardinality(Active(rep)), recovered |-> Cardinality(Recovered(rep))]

\* build_workflow_execution, which refuses a record _load_checkpoint would
\* refuse too (AllAccepted).
Built(ck, ranged) ==
  LET stage == [s \in Stage |-> StageEntry(ck, ranged, s)]
      rep   == [status |-> ck.status, resume |-> ck.resume,
                available |-> ck.resume # NoStage, stage |-> stage]
  IN [status |-> rep.status, resume |-> rep.resume, available |-> rep.available,
      stage |-> stage, summary |-> StageSummary(rep)]

-----------------------------------------------------------------------------
(* validate_workflow_execution. *)

ProviderEntryAccepted(e) ==
  /\ (e.error = "provider_error") <=> (e.provider # None)
  /\ e.provider # None =>
       e.status = "failed" /\ e.failures > 0 /\ e.lastError = e.provider /\ ~e.recovered
  /\ e.failures > 0 =>
       e.failures <= e.attempt /\ (e.recovered <=> e.status = "succeeded")

EntryAccepted(rep, s) ==
  /\ rep.stage[s].status \in StageStatus
  /\ rep.stage[s].absence \in AbsenceReasons \cup {None}
  /\ ProviderEntryAccepted(rep.stage[s])
  /\ rep.stage[s].blockedBy \subseteq DependsOn[s]

\* The summary is recomputed from the stages and compared field by field.
ReportAccepted(rep) ==
  /\ rep.status \in WorkflowStatus
  /\ \A s \in Stage : EntryAccepted(rep, s)
  /\ rep.summary.stages = N
  /\ rep.summary.byStatus = ByStatus(rep)
  /\ rep.summary.failed = rep.summary.byStatus["failed"]
  /\ rep.summary.skipped = rep.summary.byStatus["skipped_by_scope"]
  /\ rep.summary.blocked = rep.summary.byStatus["blocked_dependency"]
  /\ rep.summary.byAbsence = ByAbsence(rep)
  /\ rep.summary.absent = Total(ByAbsence(rep))
  /\ rep.summary.failures = FailureCount(rep)
  /\ rep.summary.active = Cardinality(Active(rep))
  /\ rep.summary.recovered = Cardinality(Recovered(rep))
  /\ rep.available <=> rep.resume # NoStage
  /\ rep.available => rep.resume \in Stage

-----------------------------------------------------------------------------
(* summarize_workflow_execution and the contract on its result. *)

NoSummary ==
  [present |-> FALSE, status |-> "not-recorded", stages |-> 0,
   byStatus |-> [k \in StageStatus |-> 0], failed |-> {}, skipped |-> {}, blocked |-> {},
   absent |-> 1, byAbsence |-> [workflow_execution_not_recorded |-> 1],
   available |-> FALSE, resume |-> NoStage, failures |-> 0, active |-> 0,
   failureStages |-> {}, recovered |-> {}]

\* The history of a stage counts when it is valid, whatever the stage's status.
SummarizeWorkflowExecution(rep) ==
  IF rep.status = "none" THEN NoSummary ELSE
  [present |-> TRUE, status |-> rep.status, stages |-> N, byStatus |-> ByStatus(rep),
   failed |-> Entries(rep, {"failed"}), skipped |-> Entries(rep, {"skipped_by_scope"}),
   blocked |-> Entries(rep, {"blocked_dependency"}),
   absent |-> Total(ByAbsence(rep)), byAbsence |-> ByAbsence(rep),
   available |-> rep.available, resume |-> rep.resume,
   failures |-> FailureCount(rep), active |-> Cardinality(Active(rep)),
   failureStages |-> WithHistory(rep), recovered |-> Recovered(rep)]

\* The rules on the provider failure fields.
FailuresContract(sum) ==
  /\ Cardinality(sum.failureStages) <= sum.failures
  /\ sum.active <= Cardinality(sum.failureStages)
  /\ sum.recovered \subseteq sum.failureStages
  /\ sum.active <= sum.failures /\ Cardinality(sum.recovered) <= sum.failures

SummaryContract(sum) ==
  /\ sum.status \in WorkflowStatus \cup {"not-recorded"}
  /\ sum.stages = Total(sum.byStatus)
  /\ Cardinality(sum.failed) = sum.byStatus["failed"]
  /\ Cardinality(sum.skipped) = sum.byStatus["skipped_by_scope"]
  /\ Cardinality(sum.blocked) = sum.byStatus["blocked_dependency"]
  /\ sum.present => sum.absent = Total(sum.byAbsence)
  /\ sum.available <=> sum.resume # NoStage
  /\ FailuresContract(sum)

-----------------------------------------------------------------------------
\* Every stage is accounted for: it has run (or runs), or the report says why
\* it has not, never both; and what is called blocked is unfinished and names
\* the dependencies it waits for.
AccountedFor(rep) ==
  \A s \in Stage :
    /\ (rep.stage[s].absence = None) <=>
         (rep.stage[s].status \in {"succeeded", "failed", "running"})
    /\ rep.stage[s].absence = "blocked_by_dependency" =>
         rep.stage[s].blockedBy # {} /\ rep.stage[s].status \in Unfinished

\* Wherever an execution stopped, and however it was retried, the report that
\* lies on disk is one the validator accepts, accounts for every stage, and has
\* a summary that keeps the contract of the reports that embed it.
ReportAddsUp ==
  \A ranged \in BOOLEAN :
    LET rep == Built(report, ranged) IN
    /\ report # NoCheckpoint => ReportAccepted(rep) /\ AccountedFor(rep)
    /\ SummaryContract(SummarizeWorkflowExecution(rep))

\* What a checkpoint holds so that its report can say why a stage has no
\* result: an interrupted stage has not gone on, and a blocked one still waits
\* for a dependency.
Explained(ck) ==
  \A s \in Stage :
    /\ ck.stage[s].error = "interrupted" =>
         ck.stage[s].status \in {"pending", "blocked_dependency"}
    /\ ck.stage[s].status = "blocked_dependency" => Unsatisfied(ck, s) # {}

\* With IInv, inductive: the report on disk was built from such a checkpoint.
ReportInv ==
  /\ disk.status # "none" => Explained(disk)
  /\ report # NoCheckpoint =>
       report.status # "none" /\ Sound(report) /\ Explained(report)
=============================================================================
