# Formal models of GenAI Repo Auditor

TLA+ modules, TLC configurations and TLAPS proofs about the stateful parts of
GenAI Repo Auditor. Paths are relative to the repository; `executor:640`
abbreviates `lib/workflow_executor.py` line 640, `gra-issues:640` line 640 of
`bin/gra-issues`, and so on.

## 1. The system

The auditor is a set of command line tools (`bin/gra-*`) over libraries (`lib/`)
that share one *run directory* per audited repository. There is no server: every
tool is a process that reads JSON artifacts from the run directory, works, and
writes artifacts back. What interacts are processes and files, and what is hard
is what several processes, an operator and crashes do to those files. Some
artifacts are replaced atomically, some are truncated and rewritten in place; a
few writers take a lock directory, most take none.

| Component | State it keeps | Operations | Interacts with | Hard behaviour | What makes it correct |
|---|---|---|---|---|---|
| Workflow plan (`workflow_orchestrator`, `workflow_profile`) | `workflow-plan.json` | validate a profile, order its stages, skip, expand | executor | range selection over a dependency graph | order is topological, ranges are closed under what they need |
| Workflow executor (`workflow_executor`, `gra-run`) | `workflow-checkpoint.json`, the lock directory | execute, resume, stop at a gate, run a stage, fail, finish | run state, events, every stage command | crash between two writes, overlapping invocations, stale inputs, retries | stages in dependency order, no success repeated, every stop resumable |
| Execution report (`workflow_execution`) | `workflow-execution.json` | build from the checkpoint, validate, summarize | executor, metrics, dashboard | crash between checkpoint and report; scopes, ranges and retries in one report | never shows more than the checkpoint; every stage accounted for |
| Run state (`run_state`, `gra-run-state`) | `run-state.json` | pause, block, clear, gate | executor, research, dashboard | non-atomic write; read-check-write race | no stop is lifted but by a clearing or a state recorded over it |
| Provider failures (`provider_failures`) | history inside stage records and events | classify, record, mark recovered | executor, metrics | history across retries and resumes, its limit | counts consistent with attempts |
| Command events (`run_events`) | `command-events.jsonl`, append lock | preflight, append, read | every command | lock left by a crash, torn line, timeout | no lost or torn event, no command stuck |
| Issue publication (`gra-issues`, `publication/`, `issue_ledger`) | tracked plan, ledger, decisions, GitHub issues | plan, apply, verify, mark duplicates | GitHub, findings | partial failure, lagging search, concurrent publications | no finding published twice, no published entry lost |
| Findings triage (`novelty_ledger`, `external_findings`, `publication/policy`) | `known-findings.json`, `imported-findings.json`, findings | classify, accept a risk, import, withhold | publication, later runs | torn files, overlapping commands, acceptances handed on from run to run | nothing is classified away without an acceptance or an original |
| Target queue (`target_queue`, `gralib`, `gra-targets`, `gra-gapfill`, `gra-research`, `gra-scanner-triage`) | `targets.json` | bind, mark, research, gapfill, normalize, rebalance | coverage, evidence graph | writers without a lock; a wave that is replayed at every write | no target lost, no state undone, refused at its limits only |
| Batch and audit (`batch_cli`, `audit_cli`) | logs, results, lock per repository | run N audits in a pool | audit command | name collisions, fail-fast, reused batch ids, kills | results and exit status are those of the audits |
| Report freshness (`report_freshness`) | a sidecar with digests, its lock | record, preflight, assess | every report writer | sources change during rendering; concurrent producers | "fresh" means rendered from these sources |
| Scanner pipeline (`scanner_*`, `gra-scan`, `gra-ingest`) | raw and normalized results, index, dependencies, runs | readiness, execute, ingest, report | target queue, posture | parallel scans, failure between two writes, kills | a recorded success keeps its evidence |
| Adversarial validation (`gra-adversarial-validate`) | vote files, `validation.json` | vote, aggregate | evidence graph, publication | overlapping commands share vote files | command and validator agree on the decision |
| Patch validation (`patch_validation`, `gra-remediate`) | candidates, workspaces, reports | draft, apply, build, test, report | evidence graph | kills, time-outs, shared workspaces, redrafts | "validated" was earned in a fresh copy |
| Evidence graph (`evidence_graph`) | `evidence-graph.json` | build, validate | all of the above | inputs rewritten meanwhile | every reference is an edge, none dangles |
| Metrics, posture, benchmarks, agent workers, store | their own report files | one pass each | run directory | mostly none: read, compute, write | content of reports |

`PROJECT.json` lists every component with its files and status, and under
`hazards` the places where the code can go wrong in a way that is hard to test.

## 2. Plan

The order of the work was: the executor and its abstract specification with
proofs; publication with proofs; run state, events and provider failures; the
target queue; batch and audits; report freshness; scanners; evidence; the
execution report; triage. All of these are modelled. What is left, in the order it would be
worth doing:

1. The executor composed with `CommandEvents` and `RunState` in one state space:
   each has the others as a nondeterministic environment now.
2. `metrics.py`: its counters against reference definitions.

## 3. Modules

| Module | What it is |
|---|---|
| `WorkflowPlan` | the plan a profile gives, and the range `--from` / `--until` selects |
| `StagedWorkflow` | the abstract specification: what an execution promises |
| `WorkflowExecutor` | the executor, its control flow in full, its environment, properties |
| `WorkflowReport` | the report made from a checkpoint, its validator, and the summary embedded in other reports |
| `MCWorkflowExecutor` | small plans for TLC |
| `WorkflowSafetyProofs` | type correctness; the inductive invariant and the safety theorems; `WorkflowExecutor` implements `StagedWorkflow`; the execution report adds up |
| `IssuePublication`, `MCIssuePublication` | `gra-issues`: plan, verification, publication loop, ledger; GitHub and the operator as its environment |
| `IssuePublicationProofs` | what is applied is what was planned; what the ledger guarantees, and when a second issue is opened, if invocations follow each other |
| `ProviderFailures` | classification, history and its validator, as operators |
| `CommandEvents`, `MCCommandEvents`, `CommandEventsProofs` | the event log, its lock and readers, and the executor's attribution of failures |
| `RunState` | `gra-run-state` and the two gates |
| `NoveltyLedger` | `gra-novelty`'s classification, its validator, what publication withholds, as operators |
| `ExternalFindings` | the import of external findings and its validator, as operators |
| `FindingTriage` | the commands that read and rewrite findings and ledgers |
| `MCRunCommands`, `RunCommandsProofs` | `RunState` and `FindingTriage` together, for TLC and for the prover |
| `TargetPolicy` | the queue policy of `target_queue.py`, as operators |
| `TargetQueue`, `MCTargetQueue` | `targets.json` and the tools that write it |
| `Batch`, `MCBatch` | `gra-batch` and its `gra-audit` processes |
| `BatchQueueProofs` | theorems about the batch and about the target queue |
| `ReportFreshness`, `MCReportFreshness`, `ReportFreshnessProofs` | the sidecar and the producers of derived reports |
| `ScannerReadiness` | layout checks, readiness report and its validator, as operators |
| `Scanners`, `MCScanners`, `ScannersProofs` | the scanner pipeline of a run |
| `AdversarialValidation` | votes and their aggregate |
| `PatchValidation` | candidate patches and their validation |
| `EvidenceGraph` | the graph as a function of the artifacts, its validator, and the publication policy's warnings |
| `Evidence`, `MCEvidence`, `EvidenceProofs` | the composition of the last three: commands writing artifacts side by side with the graph's builder |

Operator modules (`WorkflowPlan`, `ProviderFailures`, `NoveltyLedger`,
`ExternalFindings`, `TargetPolicy`, `ScannerReadiness`, `EvidenceGraph`, `WorkflowReport`)
give both sides of a contract: what the producer computes and what the validator
recomputes or demands. The state machines supply the states in which the two have to
agree.

### Correspondence: the executor

Stages are numbered `1..N` in the order `validate_profile` returns. `Inputs[s]`
names the stages that *produce* a required input of `s`; inputs nobody produces
(the checkout) exist before and are left out. A stage's outputs are one file
each (`files`), whose content stands for its digest: `artifact_stamp` and
`_validate_stamp` compare digests only, and they treat several outputs of a
stage alike. The plan's identity (fingerprint, profile version) is fixed, the
installed command scripts (`build`) are not.

| Variable | In the code |
|---|---|
| `disk` | `workflow-checkpoint.json`; status `"none"` when it does not exist |
| `report` | the checkpoint the execution report was last written from |
| `files` | declared outputs under the reports directory |
| `lock` | `.workflow-execution.lock` exists |
| `runState` | what `_run_state_gate` sees: active, paused, blocked, or unreadable (missing permissions, torn, symlink) |
| `mem`, `selected`, `pc` | the local variables `checkpoint` and `selected` of each `execute_workflow` and where it is |
| `faults`, `late` | not in the code: a bound, and a counter for one property |

`execute_workflow` is cut at every point where another process, the operator or
a crash can observe or change something: taking the lock, opening, the atomic
replacement of the checkpoint (`Save`), the report (`WriteReport`), the
run-state gate (`GateOpen` / `GateClosed`), the checks and the "running"
checkpoint (`BeginStage` and the three `StopOn...`), the command itself
(`StageWrites`, then one of the four ways it exits), and the removal of the
lock (`Release`). Each action ends in the checkpoint write its handler ends in.
`gra-run` checks the run state and preflights the checkpoint before it calls
`execute_workflow`, which checks both again; a refusal at the first check
changes nothing that is modelled, so `Invoke` stands for the run-state check of
both and `Refuse` for either checkpoint check.

What surrounds the executor: `Kill` (the process is gone, the lock stays),
`Abort` (an exception leaves the loop: an unwritable report, a missing script,
an interrupt outside the command; the lock is removed), `SetRunState`,
`PauseAgain`, `ClearPause`, `EditFile`, `Upgrade`, `RecoverLock`,
`RemoveLeftover`. `RecoverLock` assumes an operator who follows the error
message's "requires operator lock recovery" only when no invocation is past the
lock: an operator who removes the lock of a live execution defeats it by hand, and
no property covers what two executions then do to the checkpoint.
The comparison of the command scripts (executor:649) is part of the step that begins the
stage or stops: a script replaced between that comparison and its start (executor:685) runs, and
nothing here says it must not.

### Correspondence: execution report

`report` of `WorkflowExecutor` is the checkpoint the report on disk was built from; `Built`
(in `WorkflowReport`) is the report itself, with the reason each stage has no result
(`AbsenceReason`), the dependencies that block it, and the counters. `ReportAccepted` is
what `validators/advanced.py` recomputes, `SummarizeWorkflowExecution` and
`SummaryContract` the summary and the rules on it. Durations, times and byte counts are
left out.

### Correspondence: publication

A finding (`Key`) is its id and its fingerprint, the key of plan and ledger
entries; two keys with one id are a finding before and after its fingerprint
changed. Everything else an issue says (title, labels, text) is one `Body`, since
the code compares these together and publishes them together. A body may already
carry a fingerprint marker (`Carried`), as drafts do.

| Variable | In the code |
|---|---|
| `findings`, `draft` | `findings.json`; what each finding would be published with (`issue-drafts/`, or rendered) |
| `plan`, `copy` | `issue-publication-plan.json`; a reviewed copy of one kept elsewhere |
| `recorded` | the plan's freshness record: the sources it was taken from |
| `ledger` | `issue-ledger.json`; an issue's number stands for its URL |
| `decisions` | `duplicate-decisions/*.json`; `"new"` stands for every decision that names no existing issue |
| `issues` | the repository's issues: open or closed, indexed by the search or not yet |
| `pc`, `mem` | where an invocation is, and its local variables |
| `faults`, `missed` | not in the code: a bound, and what `OneOpenIssue` exempts |

An invocation is cut wherever it reads or writes one of these files or asks
GitHub: `Load` (findings), `Render` or `VerifyPlan` (drafts and plan),
`WritePlan`, `RecordPlan`, `RewritePlan` (`write_tracked_publication_plan`),
`CheckFreshness`, `ReadLedger` (once, before the loop), for each finding
`SkipKnown`, `SkipDuplicate`, `PreviewIssue`, or `FindNothing` and then
`CreateIssue`, and at the end `ReloadLedger` and `WriteLedger`. Every early return
before the loop is `Refuse`: nothing has been written. A failing or killed `gh issue
create` (`CreateFails`) ends the invocation with an exception, before or after
GitHub created the issue, and nothing of the loop reaches the ledger. `Crash` may
happen anywhere.

Left out of the state: the order of findings (any order is possible in the
model), the ledger's statuses "pending", "not selected" and "dry run", which no
code tells apart when it decides (they are `Unpublished`), and drift notes. The
selection depends on severity, status, novelty and options: any subset. A
published entry is taken to have a URL: `create_issue` returns what `gh` prints.
`DecisionsAgree` is the check of `--verify-ledger`, which writes nothing itself.
An applied plan may name findings the selection would leave out now (`VerifyPlan`
looks at all findings); the code allows that.

### Correspondence: events and provider failures

An event is written in two pieces, as `os.write` may write less than it was given
(run_events:673-684): a line is a "head" and a "tail". `TakeLock`, `GiveUp` and `Release`
are `_acquire_event_append_lock` with its deadline; `GiveUp` is possible whenever somebody
else has the directory, since ten seconds may pass at any time. `CheckAndOpen` and
`Withdraw` are `preflight_command_event`, with or without `reserve`. A failed append turns success into exit
code 2 ("block") and leaves another exit code ("warn"). The executor reads the identities
before and after the stage (`snapshot`, `Attributed`). `EventOf` and `EventIsValid` are
`build_command_event` and `validate_command_event_payload` as far as status, exit code and
provider error go; what else an event may be refused for is `Refused`.

`ProviderFailures.Classify` takes the set of patterns a text matches and its delay
hints: the regular expressions are inputs, the order of the classes, the need for a
provider context and the bounds on delays are the code's.

### Correspondence: run state and triage

`RunState` cuts every command where `write_run_state` truncates and where it writes
(run_state:106); a reader in between, and after a crash in between, finds no JSON, which both
gates treat as closed. A tool looks at the state before it prepares its target (`LookFirst`, gra-research:90) and
again before the provider session (`LookAgain`, gralib:231), a stage before its session only; what a look
permits (`Prepare`, `StartSession`) is a later step, with any number of writes in between. A process is at
"begun" until it has looked, then "permitted", "prepared", "entering" and "session". `log` is a history of what was
recorded, each entry with how much of it the `--clear-pause` that wrote it had seen (`found`), and
`looked` is how much of it there was at each process's last look.

In `FindingTriage`, `report[name]` is a file that is missing, whole or torn; a torn file
keeps what was in it so that the history `gone` stays right. A command is cut where
it reads a file and around each `write_json`, which truncates before it writes. `archive`
is the ledger of the previous run, given with `--prior-ledger`. A finding is its id,
its fingerprint, the text of each hashed field (equal hashes are equal texts) and its rank on each
scale. The fingerprints of the lists that audits and operators write are unique
(`ListsAreValid`), which `validate_findings` demands. Nothing demands it of ids, and one of the
lists of the run names two findings alike; `named` remembers whether the run has had such a list.

### Correspondence: target queue

`TargetPolicy` follows `apply_target_queue_policy`, `validate_target_queue_artifact` and
`refresh_target_queue_after_semantic_normalization`: grouping by fingerprint, canonical order, budgets, decisions,
lineage, and the replay of the selection that every write performs. A target's
list fields and taxonomies are one `shape`, of which `Signature` is what the fingerprint is made of (the fields without
case and extra blanks), `CanonicalShape` what normalization makes of it and `MergedShape` what is left of the fields
of a group when `_merge` has united and cut them (target_queue:268-272); of the latter nothing is assumed, so a merged target may
carry a fingerprint that is no longer its own (target_queue:273). Priorities are equal. A tool of `TargetQueue` reads
the file (`Mark`, `Research`, ...), reads it once more when it writes (`ReadForWrite`:
`write_targets` takes the deferred list and the summary from the file as it is now) and replaces
it (`Replace`), with no lock around the three. A provider may leave any list in the file
(`ProviderWrites`), which `BindModelOutput` turns into a managed queue; the triage of scanner
leads (`gralib:404`) writes its baseline back before it appends.

### Correspondence: batch and audits

One job per line of the list: taking the lock of the repository, cloning, the session with the checks
after it, and the line written to the log. `LogOf` and `SlugOf` are
`safe_name` and `slug_from_repo`, which map different names to one. Statuses are
numbers, or words where the code has words ("not-run", "missing-findings-json").
`StatusText` reads the logs as `result_summary` does. `KillBatch` is a batch killed with
its audits; locks stay. `OtherAudit` is an audit outside the batch.

### Correspondence: report freshness

A file is its version. A producer's path is `Start`, the initialization of the
sidecar under the lock, `Preflight` (capture), `Render`, `Write`, `Record`, the lock and
`WriteSidecar`, and, for reports that embed their own assessment, `Snapshot`. The plan is
rendered before its inputs are captured. `StaticContent`, `StaticPresence` and
`Collections` are the catalog; `Assessed` is `assess_artifact`. A session runs one command
or the documented order (`docs/REPORTING_AND_STORE.md:83`).

### Correspondence: scanners

A `World` of `ScannerReadiness` is everything the evaluator reads; `Reasons`,
`State` and `Report` are its answer, `Accepted` the validator it passes its own answer to.
`Scanners` cuts a scan at the checks before it (`Preflight`), the repeated checks
(`PassGate`), the staging directory, the container, the publication by `os.link`, the
ingestion under its lock (copy, normalize, index, posture, targets), the record under
the report lock, and the event. An import takes the same ingestion path. Bytes are
named after who produced them. `runs` and `summary` are `scanner-runs.json`.

### Correspondence: evidence

`AdversarialValidation`: a pass removes `validation.json`, lets an agent write it or not,
and reads it as a vote (`gathered`); commands with the same selection use the
same vote files. `PatchValidation`: a validation makes a fresh workspace, copies the
target, initializes git there, checks that the patch applies, applies it, builds, tests and writes the report, all
after the sandbox and the scope of the patch were judged; any other process may use the same workspace meanwhile. What `git apply`
changes is taken to be what `parse_diff_paths` finds in the patch (patch_validation:176), and the children of
a killed validation are taken to die with it. `EvidenceGraph`: nodes and edges as
functions of the records each artifact lists. `Evidence` puts them side by side; the
graph's builder reads all artifacts at one moment and writes the graph at another.

## 4. Runs

| Run | Question | Bounds |
|---|---|---|
| `executor` | Do the lock, the checkpoint, the resume rules and the report keep the safety properties when two invocations overlap, and does the executor do what `StagedWorkflow` promises? | three stages, of which the third needs the two others and one has no output; every `--from`/`--until`; two invocations (symmetric); two contents, two builds; two disturbances |
| `liveness` | Does every invocation end, and does coming back with `--resume` complete the range? | five stages, one skipped whose old output is an external input, one that is out of range with `--until 1` and so makes another a dead end; one invocation; one disturbance |
| `final_crash` | README: an existing checkpoint must be continued with `--resume` | diamond, one disturbance; violated |
| `publication` | Do ledger, decisions and issues stay consistent over any sequence of applies and dry runs? | one finding with two fingerprints and another with one of them; one invocation at a time; two issues; two disturbances |
| `reviewed_plan` | Is what gets published what the plan says? | two invocations (symmetric), one finding, two bodies, a plan and a copy, a lagging index; one issue; one disturbance |
| `events` | Do records stay whole, is none lost, is nobody stuck, are failures attributed and counted soundly? | two attempts and one other command; stderr texts that match one and two classes; limits of two events, two new events and one history entry; any number of crashes and failing writes |
| `run_commands` | Is every stop heeded that was there to see? Do findings, ledger and import report fit one another, and is nothing withheld without a reason? | three operators, a tool and a stage; or two triage processes (symmetric), three commands, two edits or new runs, three lists of which one names two findings alike, three payloads |
| `target_queue` | Is what is stored valid after every interleaving and crash, is a rebalance refused at the limits only, and does a tool working alone keep waves, progress and targets? | four settings: four jobs on a legacy list with two budgets and both policies; producers, gapfill and triage on a provider's list; two overlapping tools; merges at the limits, with `MaxLineage` 2 and lists whose union is cut |
| `batch` | Do results and exit status tell what the audits did? | four lists of two or three lines with shared logs and locks; sequential or two threads; two invocations with one batch id; kills without bound |
| `freshness` | Is what is assessed as fresh current, is no record lost, does the order converge? | one session with the whole order beside one that produces the plan or the dashboard; three sources; one edit, one kill |
| `scanners` | Does a recorded success keep its evidence, and does the evaluator never fail by its own validator? | two scans of one adapter after an earlier failed one or none, room for two records, an import, a readiness check; every combination of engines, environments, paths and profiles of `MCWorlds`; one kill; each normalized result deleted once |
| `evidence` | Does the validator accept what the commands write, and is "validated" earned? | a finding and a chain; overlapping votes in up to two passes under each policy; two patches with redrafts or shared workspaces; one kill |

Why the bounds are enough to meet the interesting cases. A plan in which one stage needs
two that do not depend on each other has ranges with
prerequisites, continuations and out-of-range stages, and a stage may
be blocked by a failure or by an out-of-range dependency. Two invocations are
what a lock has to keep apart; a third would add only another refusal. Two
contents distinguish "unchanged" from "changed"; two disturbances give a failure
followed by a crash, a crash during a retry, a pause of a resumed run. Without the bound the
number of retries is unbounded.

For publication, two issues are what a duplicate needs; three keys over two ids
and two fingerprints give a finding whose fingerprint changes and comes back, two
findings with the same fingerprint, and a ledger entry that is taken over. Two
disturbances give a failed creation followed by a failing search, or an edit of
the findings and back. `reviewed_plan` needs one disturbance (the draft changes at
the worst moment) because plans, copies and records of two invocations already
interleave freely. The runs split the modes of `gra-issues` (`Invoked`) because plans
do not touch what the first checks and the ledger does not touch what the second
checks, except through the findings selected, which are arbitrary in both.

For events, three processes are enough for a writer, one that waits and one that died
with the lock; two attempts give an event of an earlier attempt; the limits are at the
number of events there can be, so each is hit. For triage, three commands are an acceptance, a
classification of something else and one that hands the acceptance on, or an import, a classification and
one more; two edits make a finding worse twice or put a new run between. In the
target queue a wave of one of three seeds makes every reselection visible, two equivalent
shapes a merge, and a third target with the same fingerprint, put back into the queue, a lineage beyond `MaxLineage`, which is 2 here and 64 in the code. In `batch` a third line repeats the first one's lock under another log. In
`freshness` the sources are a required one, one that a producer itself
rewrites and a collection. In `scanners` the limit of records is reached when the earlier failure
was recorded and one of the two scans has ended. The proofs below have none of these bounds.

`run_commands` is one run with two scenarios: `RunState` and `FindingTriage` share no file, so
one of them rests while the other moves; the product would only repeat each.

Deadlock is checked where the system can always go on (`executor`, `liveness`, `final_crash`,
`publication`, `reviewed_plan`, `target_queue`: an idle tool can always be started again). The
others model commands that end, with a bounded number of them, and say
`CHECK_DEADLOCK FALSE`; that no command of `events` is stuck is `NobodyIsStuck`.

### Fairness

`FairSpec` assumes weak fairness of the steps of an invocation (the operating
system runs it; it never waits for anybody) and of a command's writing and
exiting (the executor itself puts no time limit on a stage: a command that hangs
hangs the execution). Of the operator it assumes what the documentation asks of
him: pauses are cleared, a lock left behind is recovered (the refusal asks for it, executor:617), and `--resume` is
called again and again (strong, because a run state may close in between).
It is not assumed that anybody removes an output that an unfinished stage left behind:
docs/LOCAL_INSTALL_AND_AUDIT.md:258 does not ask for it, although `--resume` then refuses.
Clearing is possible only from "paused", so a blocked or torn state is first
paused again (`PauseAgain`), the only way `gra-run-state` offers out of "blocked".
The command's writing (`Command`) is fair apart from `Step`, so that a producing
stage does write; it may nevertheless exit before it has written.

`ResumeCompletes` says how far resuming gets. Everything before the first dead end gets done: a stage that needs
one left out of range (`DeadEnd`) is pending in the continuation, but the loop stops
at it (executor:653-658), in the order of the plan, and whatever comes after it
stays undone, also where it does not depend on it. And a run may wait for a repair
(`NeedsRepair`) that nobody is assumed to make: an artifact changed behind the executor's back, a replaced command
script, or a declared output of a stage that is not finished; all three are refused by the code.
A final-crash checkpoint (section 6) has no unfinished stage and
so does not contradict it: everything was run, it is only never declared so.

## 5. Properties and proofs

| Property | What it says | Shown by |
|---|---|---|
| `ExclusiveCheckpoint` | one invocation past the lock; its memory is what is on disk | TLC, `Exclusion` |
| `RecordsAccepted` | `_load_checkpoint` never refuses the executor's own records | TLC, `Acceptance` |
| `ResumePointCovers` | no interrupted stage before the resume stage; none unfinished without one | TLC, `ResumeCoverage` |
| `ReportNeverAhead` | the report shows no success the checkpoint does not have | TLC, `ReportBehind` |
| `ReportAddsUp` | wherever an execution stopped, the report is accepted, accounts for every stage, and its summary keeps its contract | TLC, `ReportsAddUp` |
| `PauseStopsWithinOneStage` | a pause is overtaken by at most one stage | TLC, `PauseIsPrompt` |
| `SuccessIsFinal` | a succeeded stage is never run again | TLC, `SuccessFinality` |
| `HistoryIsKept` | failure counts never go down | TLC, `HistoryRetention` |
| `ImplementsStaged` | refinement of `StagedWorkflow` | TLC, `Refinement` |
| `EveryInvocationEnds`, `ResumeCompletes` | liveness | TLC |
| `AppliedAsPlanned` | an issue from `--apply-plan` says what the plan says | TLC, `PlanIsBinding` |
| `LedgerPreventsReissue` | no issue is created for a finding the ledger has | TLC, `NoReissue` |
| `PublishedIsKept` | no rewrite of the ledger loses a published URL | TLC, `UrlsAreKept` |
| `DecisionsAgree` | decision records fit the ledger, after any crashes and reruns | TLC, `DecisionsFit` |
| `OneOpenIssue` | two open issues with one fingerprint only where a search overlooked one | TLC, `SecondIssueWasOverlooked` |
| `LogIsWhole` | while nobody writes and no write was cut short, every line is one record the validator accepts | TLC, `LogStaysWhole` |
| `SuccessIsRecorded` | a command that reports success has its record in the log | TLC, `SuccessStaysRecorded` |
| `AttributionIsSound` | a failed stage is never given another's error in place of its own, nor an old one | TLC, `AttributionStaysSound` |
| `HistoryIsConsistent` | the failure history satisfies the contract its reader checks, over retries and at the limit | TLC, `HistoryStaysConsistent` |
| `NobodyIsStuck` | every command under way can take a step, also behind a dead one's lock | TLC |
| `StopsAreHeeded` | who prepares a target or starts a session found every stop lifted that was recorded when it looked; a block is lifted only by a clearing that overlapped it, or by a pause over it and its clearing | TLC, `StopsAreAlwaysHeeded` |
| `TriageIsAccepted` | findings, ledger and import report fit one another unless torn or edited since; where findings share an id, all but the ids of the ledger | TLC, `TriageStaysAccepted` |
| `WithheldForAReason` | a withheld finding is no worse than a risk that was accepted, or was rewritten since it was classified, or duplicates something not withheld | TLC, `AlwaysWithheldForAReason` |
| `StoredQueueIsValid` | the stored queue passes its own validation, whoever overlaps | TLC, `StoredQueueStaysValid` |
| `OnlyLimitsRefuseRebalance` | whatever the budgets, a rebalance of a valid queue is refused only where a merge exceeds `MAX_LINEAGE` or changes what the fingerprint is made of | TLC |
| `ProgressIsKept` | no tool working alone queues again what was begun | TLC, `ProgressStaysKept` |
| `WaveIsStable` | nor changes the wave by anything but a rebalance or a normalization | TLC, `WaveStaysStable` |
| `NoTargetIsForgotten` | nor drops a target | TLC, `NoTargetIsEverForgotten` |
| `ExitIsHonest` | exit 0 without `--allow-failures` means every audit succeeded | TLC, `ExitCodeIsHonest` |
| `ResultsAreReal` | a reported success is an audit of that repository | TLC, `ResultsStayReal` |
| `OneAuditPerRepository` | who is past the lock holds it | TLC, `AuditsAreApart` |
| `SuccessIsValidated` | an audit succeeds only with its checks passed | TLC, `AuditSuccessIsValidated` |
| `FreshMeansCurrent` | an assessment as fresh is right | TLC, `FreshReportsAreCurrent` |
| `RecordsSurvive` | producers do not lose each other's records | TLC, `ConcurrentRecordsSurvive` |
| `OrderConverges` | the documented order leaves everything fresh | TLC, `OrderAlwaysConverges` |
| `SuccessIsBacked` | a recorded success keeps raw output, normalized file and index entry; exit 0 means it is recorded, in a report the validator accepts | TLC, `SuccessStaysBacked` |
| `NoEvaluationFails` | the readiness evaluator accepts its own report in every world | TLC, `EvaluationNeverFails` |
| `EvidenceIsAccepted` | votes, patch reports and graph pass the validators, whatever overlapped or died | TLC, `WhatIsWrittenIsAccepted` |
| `ValidatedIsEarned` | a "validated" patch was built and tested alone in a fresh copy | TLC, `ValidatedStaysEarned` |

Beyond the runs' properties, proved only: type correctness of executor and publication
(`TypeCorrect`), `DependencyOrder` (no stage attempted before its dependencies), and of the
evidence operators, for all artifact sets and vote sequences: the aggregate a command
computes is the one the validator recomputes (`AggregateIsExpected`); the references of accepted artifacts are edges of the
graph, except exactly those of chains that name a scanner result by its tool, its raw path or the
index (`AcceptedReferencesAreKept`; the validator accepts these names and the graph has no node for them); a serious finding that its validation does not confirm is counted as challenged
and refused for publication (`UnconfirmedIsChallengedAndRefused`); one the policy does not warn of is one the
graph counts as supported (`UnwarnedIsSupported`, whose premise is that the chains a
finding names also list it: otherwise policy and graph disagree).

**Executor.** `Invariance` proves the inductive invariant the others follow from. The theorems hold for every plan, any number of invocations, any set of
contents, builds and error classes, and any number of disturbances. They rest on
two assumptions. `PlanAssumption` is what `validate_profile` and `build_plan`
check before a plan exists: dependencies come first, an input comes from an
ancestor or from a skipped stage, an executable stage has no skipped dependency.
`ExecutorAssumption` says that the symbols for "no file" and "no error" are not
among the contents and error classes, and that there is a build.

None of the safety properties is inductive alone: that reopening
covers every interrupted stage depends on where the resume stage is, which
depends on the checkpoint having been consistent when it was opened, which
depends on the lock. `IInv` joins

- `ExclusiveCheckpoint`, so that a write starts from what is on disk;
- `DiskInv`: a checkpoint that exists is `Sound`: its records are acceptable,
  its resume point covers, dependencies are done, and its `Shape` is right
  (a stage that ran has an attempt; a running stage has fewer failures than
  attempts, which is what makes the next failure countable; while the workflow
  is marked running the only interrupted stage is the running one);
- `ControlInv`: where an invocation is agrees with the checkpoint on disk;
- `GateInv`, for the pause property, and `ReportNeverAhead`.

`WorkflowSafetyProofs` proves first that every write produces a well-formed
checkpoint, then for each kind of write (new, reopened,
gate, begin, success, failure, missing output, interrupt, finish) that `Sound` is
preserved, then one step per action for the rest of `IInv`. For the plan this
needs that ancestors come before their descendants and that a prerequisite of a
range is not in its continuation, which are lemmas by complete induction over
`1..N`. The action properties follow from `IInv` and the shape of each write.
A further part shows that each write is an `Open`, `Complete` or
`Close` of `StagedWorkflow` or a stutter.

The last part is `ReportsAddUp`, about the report (`WorkflowReport`), for any plan and with or without `--until`.
Beside `IInv` it needs `ReportInv`: the report on disk was made from a checkpoint that is `Sound` and
`Explained`. In such a checkpoint a stage whose last attempt was interrupted is pending or blocked, never
one that went on, and a blocked stage still has an unsatisfied dependency. The second holds because
stages are blocked only when the workflow stops and all of them are reopened before
anything succeeds again. Then the absence reasons say exactly of the stages without a result why
there is none. The sums of the counters are numbers of pairs of a key and a position (`Total`), so that
"the counts by status add up to the number of stages" is a bijection between those pairs and the stages
(`CountedOnce`), which needs no induction.

**Publication.** The theorems hold for any findings, fingerprints, drafts and
markers, any number of issues and disturbances, and rest on `PublicationAssumption`:
findings are pairs of id and fingerprint, and the symbols for "no marker" and "no plan"
are no fingerprint and no plan. `TypeCorrect` and `PlanIsBinding` hold for any number
of overlapping invocations, all modes. `PlanIsBinding` needs `Binding`: once a plan
is verified, an invocation's entries are those of the plan, it publishes only
these, and it never renders again. The freshness record plays no part in it: the
comparison of bodies alone makes the plan binding.

`DecisionsFit`, `NoReissue` and `UrlsAreKept` assume `OneAtATime`: there is only one
process, so invocations follow each other, crash and restart, but do not overlap.
Nothing locks the ledger, and section 6 tells what overlapping invocations do.
Their invariant `LedgerInv` says of a running invocation (`Faithful`): what it read of
the ledger is still what is on disk; a finding about to get an issue is unknown to
the ledger and its decision is "new"; an entry it takes over from an older
fingerprint has a successor with the same URL among its own entries, which is why
dropping superseded entries loses nothing; and every entry it will write has a
decision that fits. The last is what makes `DecisionsAgree` survive a crash: decisions are
written before the ledger, and a rerun only replaces a decision when the entry
it will write fits the new one.

`SecondIssueWasOverlooked` (`OneOpenIssue`) assumes `OneAtATime` too, and `NothingIsCarried`: no draft has
a marker of its own. `publish_findings` searches for the finding's fingerprint, but an issue
shows the marker its draft has; with a foreign marker the two differ and the property is
false (section 6). The invariant adds `Searched`: who is about to create an issue knows that none
is open with its fingerprint, or the search has overlooked one. Between the search and the creation the
environment only closes and indexes issues, which opens none.

**Command events.** The invariant is `LogInv /\ WholeInv /\ AttemptInv /\ AttributionIsSound /\
HistoryIsConsistent`, for any processes, bounds, deaths and failing writes. `LogInv` ties the log to
the lock: whoever is inside is the only one, a half-written record is the last thing in the log, and a record once
acknowledged lies in it in one piece. `WholeInv` says that only torn lines make the log unreadable. `AttemptInv` says of
the executor's attempt that its own event is not among those the snapshot saw, and that a failed stage's command has
ended. A record's head and tail are separate writes, so the lemmas about the log have a half for each.

**Run state and triage.** `StopsAreAlwaysHeeded` rests on `GateInv`: a file that is not torn holds what was recorded last
(`FileIsLast`), the state at a process's last look was one that lets it pass (`LookWasOpen`), and what a clearing records
was paused when it looked (`ClearsFollowPauses`). Of the records after a stop the first that is none lifted it.
`TriageInv` is `FilesFit /\ KnownFit /\
ReportsFit /\ JobsFit`: the findings, ledger and import report on disk, and what each command has in hand, fit
the validators unless torn or edited; of ids it says nothing. `NamedInv` adds, as long as no `findings.json` of the run has named two findings
alike, that ledgers and what commands have in hand name each finding once. The two theorems hold for any findings, payloads and bounds, on `ListsAreValid` and
`PayloadsAreLists`: the lists commands start from have no fingerprint twice, as the findings validator demands, and a payload is
a list. What a loop over a list does is proved by least counterexample: the set of prefixes
for which the claim fails would have a smallest member (`WFMin` on the naturals), which the
step from the prefix before it refutes. The withheld findings are the least set closed under the rule (`Traced`), so that a chain of
duplicates is an induction of the same kind.

**Scanners.** `IInv` is `TypeOK /\ LockInv /\ AdapterInv /\ ImportInv /\ OwnerInv /\ RunsInv /\ NoEvaluationFails`, for any
adapters, tools, runs, imports and kills; `ScannersAssumption` keeps scans, imports and checks apart, the bytes of
files from the symbol for no file, and the paths that scans write from those that imports write. `OwnerInv` says how far a scan that published its output
has come: from its copy over the normalized file to the index entry and the record, its raw output stays its own. `RunsInv`
says that every recorded success still has them. Both need `LockInv`: who works on the index or the runs
holds the lock, and what it has loaded is what is there. `ReadinessReportIsAccepted` is about the evaluator as a function:
in every world its report has the counts and the order its validator recomputes.

**Evidence.** `IInv` is `VoteInv /\ PatchInv /\ GraphInv`, for any subjects, policies, sessions and
kills. `VoteInv` says that what a voter has gathered are reports, and that `validation.json` is
sound, a sequence of votes with the aggregate of exactly these. `PatchInv` says that
a report's status is that of its trial. `GraphInv` says that a graph is that of some
artifacts read earlier of which none has disappeared since (`Standing`); it needs the other two because a vote
command removes `validation.json` and writes it again. The agreement of aggregate and validator
is one lemma about the most frequent decision.

`ValidatedStaysEarned` has an invariant of its own, `EarnInv`: `PatchTypeOK`, `Trusted` of every process and the
property. `Trusted` follows a trial step by step (`TrialInv`) while nobody else has touched its patch or
workspace: there is no directory before the copy, then a copy, then one with this patch applied in which nothing has run
before the build, and what the trial notes of build and test is what they did there.
`PatchAssumption` says here that the symbol for "no directory" is no directory and that who validates
does not draft.

**Target queue.** The theorems hold for any tools, lists, ids, fingerprints, budgets and policies.
`PolicyAssumption` says that taxonomy normalization and merging map shapes to shapes (not which), `QueueAssumption` that lists are lists of
targets and that producers say nothing of lineage (`append_source_generated_targets` drops what they say). The invariant is
`QueueSound`, typed and valid, and for a tool that works alone `Foreseen`: what it has
loaded still has every target of the file with its lineage, what it has prepared keeps the wave, the targets or the progress as its
operation must, and a queue kept for a restore is the file once it is restored. That needs what the policy returns for
*every* list. Order is therefore given by position, not by a sort: the k-th of a set has k - 1 before it
(`InOrderFacts`: with a strict order every member has its place); the groups are disjoint and cover what competes
(`GroupFacts`); a wave taken greedily exists, by the least list length for which it would not
(`TakenExists`); hence an applicable list loses no target (`ApplyFacts`), and neither does the selection after a normalization,
which puts the operators' progress back (`ReselectedFacts`).

**Batch.** `IInv` is `TypeOK /\ Judged /\ OneAuditPerRepository /\ ExitIsHonest`, for any lists, any pool
and any names, also colliding ones. `Judged` says that an audit without a status is not yet flawed and one
with status 0 is not flawed; the exit code's arithmetic (a status is reduced modulo 256)
is a lemma. `ResultsStayReal` adds
`LogsFit /\ Logged /\ ResultsAreReal`: what a thread has read from its log was written there by an audit of its
repository, or by the one whose log has the same name. The lines the threads overwrite in a shared log
(two writes at one offset) lose lines but never alter one.

**Report freshness.** `IInv` is `TypeOK /\ LockInv /\ NoticesOverlaps /\ VersionInv`, for any sessions,
sources, edits and kills. `LockInv`: who is past the lock has loaded what is on disk. `VersionInv` orders
versions: what a record captured is not newer than what was rendered, and that is not newer
than the file. A fresh assessment says that the first equals the last, hence the middle does too.
`RecordsSurvive` follows from `LockInv`. `OrderAlwaysConverges` is about a session that works through
the catalog's order while nobody interferes. Its invariant places the session in the order and says that every report
it will not produce again is up to date (`Undisturbed`). Metrics and dashboard come twice: producing
a report leaves the others current unless their content is what it writes, and what its sources have changed is still to come.

Only model-checked:

- liveness, and `NobodyIsStuck`: the prover has neither fairness nor ENABLED;
- `OnlyLimitsRefuseRebalance`: what a rebalance selects would have to be proved to pass the whole validation and its replay, for
  every list and budget.

Proving changed the models where they were wrong or could not be reasoned about. Two operators with overlapping
CASE arms (`Selected` of the readiness report and `StatusText` of the batch) said something else to
the prover than to TLC. An append to the scanners' index wrote bytes the model had not counted. Lines that two threads of the
batch write at one offset stay in place, unreadable, and are not removed. Gapfill targets were
made in the order of the list; the code sorts the candidates by id. Loops over lists that were folds are now sets of positions,
least positions or least fixpoints, and sums in the execution report are numbers of pairs, with the same value.

## 6. Where documentation and code disagree, and what the code does not promise

One disagreement is checked by a run:

- `UnfinishedNamesResumeStage` (run `final_crash`). After the last success the
  loop writes a checkpoint with status "running" and no resume stage
  (executor:729-730); the write that makes it "succeeded" is a second one
  (executor:736). A kill or a failing report write in between leaves a checkpoint
  that `--resume` refuses (executor:530) and that a fresh execution refuses as well
  (executor:627). README.md:141 says such a run must be continued with `--resume`.

The others were met while modelling and are told here only. Executor and run state:

- A stage that had already written a declared output when it failed or was interrupted
  cannot be resumed until somebody removes the file (executor:625, executor:573).
  docs/LOCAL_INSTALL_AND_AUDIT.md:258 describes inspection and `--resume` only.
- `--clear-pause` reads, checks and writes (gra-run-state:126): a `--block` or `--pause` in
  between is lost. `StopsAreHeeded` allows just this: without the exception for what was recorded after
  the clearing had looked it is violated.
- What a tool's or a stage's look at the run state permits happens later (gra-research:90, gralib:231, executor:643): a pause or a
  block in between is heeded by the next look.
- In a continuation the loop stops at the first stage that needs one left out of range (executor:653-658), and no
  `--resume` gets past it, even to a stage that could run.
- `gra-run` rewrites `workflow-plan.json` before it takes the lock (gra-run:148).
- External inputs are validated when a checkpoint is opened, not before each stage
  (executor:525).
- `record_provider_failure` raises at 1,000,000 failures in the middle of the executor's update
  (provider_failures:167); `HistoryIsConsistent` covers the history, the stage stays "running".
- A torn event line makes every later read of the whole stream fail (run_events:675, executor:265):
  attribution of provider failures ends for that run.

Publication and triage:

- `issue_exists` answers "none" when `gh` fails (publication/github.py:77), and `gra-issues`
  then creates an issue (gra-issues:634). After a creation that was interrupted when
  GitHub had already done it, the finding gets a second open issue. docs/ISSUE_WORKFLOW.md:325 says an
  existing open issue prevents that. (A lagging index has the same effect.)
- The ledger is read once before the loop (gra-issues:557); two overlapping publications
  create two issues for a finding although the ledger has it by the time the second is
  created. docs/ISSUE_WORKFLOW.md:328 says creation is then skipped. `LedgerPreventsReissue` and `PublishedIsKept`
  are about invocations that follow each other and say nothing of this.
- A draft that contains any fingerprint marker gets no other (publication/rendering.py:66), so an
  issue may carry the fingerprint its finding had when the draft was written.
  docs/ISSUE_WORKFLOW.md:319 says the marker names the finding's fingerprint.
- Running `gra-novelty` twice turns "new" and "regression" into "duplicate" of the run's own
  entries (docs/NOVELTY_LEDGER.md:46 says so), so the second run withholds
  everything the first one left.
- Imported findings share the same text for root cause, source to sink, entry point and trust boundary
  (`Boilerplate`), so a later, unrelated imported finding is a "duplicate" of an earlier one, and stays
  suppressed once adopted. docs/NOVELTY_LEDGER.md:50-53 says contextual hashes prevent
  that.
- The stale check on a novelty record compares fingerprints only (publication/policy.py:431), and a finding's own
  `fingerprint` field is taken as it is (publication/rendering.py:30): a finding rewritten under its fingerprint after
  `gra-novelty` ran, at a higher severity or with new evidence, stays withheld by what it was before, until `gra-novelty` runs again.
  docs/NOVELTY_LEDGER.md:79-82 says such a finding is no longer suppressed, and :93-95 that the record is ignored when
  `findings.json` changed. `WithheldForAReason` says so (`Reworked`). An import's
  fingerprint contains neither confidence nor status.
- Two findings with one id pass the validator of `findings.json` (validators/findings.py:120-185), and `gra-novelty` then writes a
  ledger that `gra-validate-report` refuses for the duplicate id (validators/advanced.py:1186).
- `write_json` is not atomic: a killed import leaves `findings.json` torn, a killed `gra-novelty` leaves
  a ledger that the next one fails on. There is no lock: a concurrent import
  loses appended findings, overlapping `gra-novelty` runs lose an acceptance.

Target queue, batch, freshness:

- The replay of the selection (target_queue:754) counts a target it retained for its
  status by its present status: one that was in progress at the last rebalance and is
  queued again competes, and when the replay then selects another wave, the write that
  queued it is refused until a rebalance.
- A merge unites the list fields of its targets and cuts them at 64 items, taxonomies at 32 (target_queue:235-249, 268-272), but keeps the
  fingerprint of the group (target_queue:273). When the cut, or spellings that differ before normalization, change what the
  fingerprint is made of, the merged queue fails its own validation (target_queue:587) and the rebalance is refused; so it is when
  the contributors of a group exceed `MAX_LINEAGE` (target_queue:230). Nothing but marking a target or normalizing changes that.
- Two overlapping tools lose each other's changes to `targets.json`: only validity is
  promised there.
- Freshness is by digest: content that changes and changes back is not noticed, nor is
  a new member of a collection, nor an overlap of two producers of one report
  (report_freshness:471). A dead lock holder costs every later producer ten seconds
  and its record. The benchmark's scan may see temporary files.

Scanners and evidence:

- `gra-ingest` takes the digest of a file before the lock and copies it after.
- A bill of materials ingested after vulnerability scans drops their vulnerabilities from
  `dependencies.json`.
- A scan that fails or is killed after publishing its raw output cannot be repeated
  in that run, nor can one be recorded when `scanner-runs.json` is full; a deleted normalized
  file makes the reports of the other adapters fail, and a scan that ends removes the staging root another is
  about to use.
- The vote of a pass is whatever the report file holds: the file of an earlier
  command counts when the agent wrote none (gra-adversarial-validate:438), which
  docs/ADVERSARIAL_VALIDATION.md:45 and :69 call independent votes. A paused
  run deletes `validation.json` and replaces it by "needs-human-review"; a killed one leaves it removed, so that
  a graph made before is refused.
- Overlapping validations of one patch share a workspace; a patch may be redrafted between its
  scope check and its application; two candidates of one finding share a report file; a
  killed validation leaves its workspace although the report says `disposed: true`, a literal.
- The policy counts a proof of any status as a safe proof.
- A chain's reference to a scanner result by its tool, by the raw path of a normalized one or to the index itself passes the
  validator (validators/advanced.py:428-440), but the graph has a node for one path of an entry only
  (evidence_graph:345), and the edge of such a reference (evidence_graph:554-555) is dropped.

## 7. Not modelled

Components without a model: metrics and dashboard (counts and rendering over finished artifacts),
posture reports (read-only scans of a checkout; only the step of
dependency posture that ingestion calls is modelled), benchmark and efficacy (offline scoring of fixed corpora), agent worker
and sandbox profiles (command lines, no state), and the run manifest, store and safety helpers (I/O and text scrubbing).
Partly modelled: the workflow plan (parsing, placeholders and argument contracts
are left out), issue publication, the validators (what they demand of the modelled artifacts), and
`gra-trace`, which hands one finding to an agent and leaves its report.

Of publication: liveness (nothing makes an operator publish), labels, visibility
(it only refuses), the dry-run summary, `issues-created.json`, `--verify-ledger`,
plans with fields left out, and the hash of the applied plan, which is recorded
and used for nothing.

Of the executor: rendering, wording, timestamps, durations; secret scanning of artifacts; symlink and path checks
(a path that fails them is a refusal, as `Refuse` and `Abort` are); exit codes of `gra-run`; several outputs per stage;
the stages' own work. `workflow-checkpoint.json` is only ever changed by the
executor: a hand-edited checkpoint is outside the model.

Of the others: Markdown next to JSON; regular expressions and text normalization (their results are inputs);
priorities and text fields of targets; taxonomies whose names and ids agree in their first 80 characters, of which a merge keeps the last;
the counters of a queue summary; scanner formats, redaction, SARIF export
and scorecard posture; severities and owner routes of votes; the network guard written for Python in a patch validation.
The artifacts are read at one moment by the graph's builder in the model, one after the other in the code. Reading a file and parsing it is
one step everywhere.
