-------------------------- MODULE WorkflowExecutor --------------------------
(***************************************************************************)
(* gra-run --execute / --resume: the executor that runs the stages of a    *)
(* plan in order and records every step in a checkpoint on disk, so that   *)
(* a later invocation can go on where this one stopped.                    *)
(*                                                                         *)
(* Several invocations may be under way (Procs), separated by a lock       *)
(* directory.  Around them an operator pauses, blocks and clears the run,  *)
(* edits artifacts, upgrades the auditor and recovers a lock a killed      *)
(* process left behind.  Disturbances are counted in faults and bounded by *)
(* MaxFaults, so that the number of retries is bounded too.                *)
(***************************************************************************)
EXTENDS WorkflowPlan

CONSTANTS
  Procs,       \* invocations of gra-run that may overlap
  Content,     \* what an output file may hold (its digest)
  Absent,      \* no file, or no stamp
  Build,       \* digests of the approved command scripts
  ErrorClass,  \* provider failure classes
  MaxFaults    \* bound on the number of disturbances

ASSUME ExecutorAssumption ==
  /\ Absent \notin Content
  /\ Build # {}
  /\ "none" \notin ErrorClass
  /\ MaxFaults \in Nat

VARIABLES
  disk,      \* workflow-checkpoint.json
  report,    \* workflow-execution.json
  files,     \* the declared output file of each producing stage
  lock,      \* the directory .workflow-execution.lock exists
  runState,  \* run-state.json
  build,     \* the installed command scripts
  pc,        \* where each invocation is
  mem,       \* the checkpoint each invocation holds in memory
  selected,  \* the stages each invocation is to run
  faults,    \* disturbances so far
  late       \* stages begun since the run was last taken out of "active"

vars == <<disk, report, files, lock, runState, build, pc, mem, selected, faults, late>>

env == <<files, runState, build, faults, late>>
store == <<disk, report>>

-----------------------------------------------------------------------------
(* The checkpoint. *)

TerminalSuccess == {"succeeded", "external_prerequisite", "skipped_by_scope"}

Interrupted == {"failed", "blocked_dependency", "running"}

Unfinished == {"pending"} \cup Interrupted

StageStatus == TerminalSuccess \cup Unfinished \cup {"out_of_range"}

WorkflowStatus == {"running", "paused", "blocked", "succeeded"}

ErrorCategory ==
  {"none", "stage_exit", "provider_error", "interrupted", "missing_or_unsafe_output"}

OptionalError == ErrorClass \cup {"none"}

\* provider_failure_history is None exactly when failures = 0.
StageRecord ==
  [status : StageStatus, attempt : Nat, error : ErrorCategory,
   provider : OptionalError, failures : Nat, lastError : OptionalError,
   recovered : BOOLEAN, output : Content \cup {Absent}]

Checkpoint ==
  [status : WorkflowStatus \cup {"none"}, resume : Stage \cup {NoStage},
   build : Build, external : [Stage -> Content \cup {Absent}],
   stage : [Stage -> StageRecord]]

NewRecord(status) ==
  [status |-> status, attempt |-> 0, error |-> "none", provider |-> "none",
   failures |-> 0, lastError |-> "none", recovered |-> FALSE, output |-> Absent]

\* The value of disk before the first execution writes a checkpoint.
NoCheckpoint ==
  [status |-> "none", resume |-> NoStage, build |-> CHOOSE b \in Build : TRUE,
   external |-> [s \in Stage |-> Absent],
   stage |-> [s \in Stage |-> NewRecord("pending")]]

WithStatus(ck, S) == {s \in Stage : ck.stage[s].status \in S}

Put(ck, s, r) == [ck EXCEPT !.stage = [ck.stage EXCEPT ![s] = r]]

\* Stop the execution at stage s, for a later --resume.
StopAt(ck, status, s) == [ck EXCEPT !.status = status, !.resume = s]

-----------------------------------------------------------------------------
(* What execute_workflow does to the record of a stage. *)

BegunRecord(r) ==
  [r EXCEPT !.status = "running", !.attempt = r.attempt + 1, !.error = "none",
            !.provider = "none", !.recovered = FALSE, !.output = Absent]

\* mark_provider_failure_recovered: a missing history stays missing.
SucceededRecord(r, out) ==
  [r EXCEPT !.status = "succeeded", !.error = "none", !.provider = "none",
            !.recovered = (r.failures > 0), !.output = out]

MissingOutputRecord(r) ==
  [r EXCEPT !.status = "failed", !.error = "missing_or_unsafe_output",
            !.provider = "none"]

\* e is the provider failure the new command events attribute to the
\* command, or "none".
FailedRecord(r, e) ==
  IF e = "none"
  THEN [r EXCEPT !.status = "failed", !.error = "stage_exit", !.provider = "none"]
  ELSE [r EXCEPT !.status = "failed", !.error = "provider_error", !.provider = e,
                 !.failures = r.failures + 1, !.lastError = e, !.recovered = FALSE]

InterruptedRecord(r) ==
  [r EXCEPT !.status = "pending", !.error = "interrupted", !.provider = "none"]

BlockedRecord(r) == [r EXCEPT !.status = "blocked_dependency"]

\* Mutant of ReopenedRecord: the provider error of the failed attempt stays.
ReopenedKeepingError(r) ==
  [r EXCEPT !.status = "pending", !.recovered = FALSE, !.output = Absent]

\* Mutant of ReopenedRecord: a retried stage starts without a history.
ReopenedForgetting(r) ==
  [r EXCEPT !.status = "pending", !.error = "none", !.provider = "none",
            !.failures = 0, !.lastError = "none", !.recovered = FALSE, !.output = Absent]

\* _load_checkpoint: back to pending, the failure history kept.
ReopenedRecord(r) ==
  [r EXCEPT !.status = "pending", !.error = "none", !.provider = "none",
            !.recovered = FALSE, !.output = Absent]

-----------------------------------------------------------------------------
(* Writing a first checkpoint and accepting an existing one. *)

\* External inputs of a range: produced by a stage outside it.
ExternalInputs(range) == (UNION {Inputs[s] : s \in range}) \ range

NewCheckpoint(from, until) ==
  LET range == Selected(from, until) IN
  [status |-> "running", resume |-> First(range), build |-> build,
   external |-> [s \in Stage |-> IF s \in ExternalInputs(range) THEN files[s] ELSE Absent],
   stage |-> [s \in Stage |-> NewRecord(InitialStatus(s, from, until))]]

\* The checks _load_checkpoint makes on one stage record.
RecordAccepted(r) ==
  /\ (r.error = "provider_error") <=> (r.provider # "none")
  /\ r.provider # "none" =>
       /\ r.status = "failed"
       /\ r.failures > 0 /\ r.lastError = r.provider /\ ~r.recovered
  /\ r.failures > 0 =>
       /\ r.failures <= r.attempt
       /\ r.recovered <=> r.status = "succeeded"

AllAccepted(ck) == \A s \in Stage : RecordAccepted(ck.stage[s])

\* The output of a succeeded stage still is what the checkpoint recorded.
StampValid(ck, s) ==
  /\ ck.stage[s].output = files[s]
  /\ (ck.stage[s].output # Absent) <=> (s \in Producers)

StampsValid(ck) ==
  /\ \A s \in WithStatus(ck, {"succeeded"}) : StampValid(ck, s)
  /\ \A s \in Stage : ck.external[s] # Absent => ck.external[s] = files[s]

CheckpointAccepted(ck) ==
  /\ ck.status \notin {"none", "succeeded"}
  /\ ck.build = build
  /\ AllAccepted(ck)
  /\ StampsValid(ck)
  /\ ck.resume \in Stage

\* Mutant of Reopened: the resume stage itself is not reopened.
ReopenedAfter(ck) ==
  [ck EXCEPT !.status = "running",
             !.stage = [s \in Stage |->
                IF s > ck.resume /\ ck.stage[s].status \in Interrupted
                THEN ReopenedRecord(ck.stage[s]) ELSE ck.stage[s]]]

\* What _load_checkpoint returns: interrupted stages are reopened, from the
\* resume stage on.
Reopened(ck) ==
  [ck EXCEPT !.status = "running",
             !.stage = [s \in Stage |->
                IF s >= ck.resume /\ ck.stage[s].status \in Interrupted
                THEN ReopenedRecord(ck.stage[s]) ELSE ck.stage[s]]]

\* _reject_existing_outputs.
NoLeftovers(range) == \A s \in range : files[s] = Absent

-----------------------------------------------------------------------------
(* Control state.                                                          *)
(*                                                                         *)
(*   idle         not running                                              *)
(*   fresh/resume past gra-run's own run-state check, about to lock        *)
(*   openFresh/openResume   holds the lock, has no checkpoint yet          *)
(*   report       checkpoint written, execution report not yet             *)
(*   loop         at the head of the stage loop                            *)
(*   gated        the run-state gate of the next stage was passed          *)
(*   running      the command of stage mem.resume is running               *)
(*   release      about to remove the lock                                 *)

PC == {"idle", "fresh", "resume", "openFresh", "openResume", "report",
       "loop", "gated", "running", "release"}

Holding == PC \ {"idle", "fresh", "resume"}

\* The invocation has a checkpoint in memory it goes on working with.
Working == {"report", "loop", "gated", "running"}

Goto(p, label) == pc' = [pc EXCEPT ![p] = label]

\* Mutant of Save: a failed checkpoint write goes unnoticed.
SaveUnnoticed(p, ck) ==
  /\ disk' \in {disk, ck}
  /\ mem' = [mem EXCEPT ![p] = ck]
  /\ Goto(p, "report")

\* _write_checkpoint, up to the atomic replacement of the checkpoint.
Save(p, ck) ==
  /\ disk' = ck
  /\ mem' = [mem EXCEPT ![p] = ck]
  /\ Goto(p, "report")

\* The next stage of the loop: pending, selected, first in plan order.
Todo(p) == selected[p] \cap WithStatus(mem[p], {"pending"})

IsNext(p, s) == s \in Todo(p) /\ s = First(Todo(p))

TypeOK ==
  /\ disk \in Checkpoint
  /\ report \in Checkpoint
  /\ files \in [Stage -> Content \cup {Absent}]
  /\ lock \in BOOLEAN
  /\ runState \in {"active", "paused", "blocked", "unreadable"}
  /\ build \in Build
  /\ pc \in [Procs -> PC]
  /\ mem \in [Procs -> Checkpoint]
  /\ selected \in [Procs -> SUBSET Stage]
  /\ faults \in 0..MaxFaults
  /\ late \in Nat

\* Any stage output may or may not exist already: --from runs rely on it.
Init ==
  /\ disk = NoCheckpoint
  /\ report = NoCheckpoint
  /\ files \in [Stage -> Content \cup {Absent}]
  /\ \A s \in Stage \ Producers : files[s] = Absent
  /\ lock = FALSE
  /\ runState = "active"
  /\ build \in Build
  /\ pc = [p \in Procs |-> "idle"]
  /\ mem = [p \in Procs |-> NoCheckpoint]
  /\ selected = [p \in Procs |-> {}]
  /\ faults = 0
  /\ late = 0

-----------------------------------------------------------------------------
(* Starting an invocation. *)

\* gra-run checks the run state before anything else.
Invoke(p, mode) ==
  /\ pc[p] = "idle"
  /\ runState = "active"
  /\ Goto(p, mode)
  /\ UNCHANGED <<env, store, lock, mem, selected>>

\* Mutant of AcquireLock: an existing lock directory is no obstacle.
AcquireAnyway(p) ==
  /\ pc[p] \in {"fresh", "resume"}
  /\ lock' = TRUE
  /\ Goto(p, IF pc[p] = "fresh" THEN "openFresh" ELSE "openResume")
  /\ UNCHANGED <<env, store, mem, selected>>

\* os.mkdir of the lock directory succeeds.
AcquireLock(p) ==
  /\ pc[p] \in {"fresh", "resume"}
  /\ ~lock
  /\ lock' = TRUE
  /\ Goto(p, IF pc[p] = "fresh" THEN "openFresh" ELSE "openResume")
  /\ UNCHANGED <<env, store, mem, selected>>

\* The lock directory exists: this invocation gives up.
LockBusy(p) ==
  /\ pc[p] \in {"fresh", "resume"}
  /\ lock
  /\ Goto(p, "idle")
  /\ UNCHANGED <<env, store, lock, mem, selected>>

\* Mutant of OpenFresh: an existing checkpoint is overwritten.
OpenFreshOverwriting(p, from, until) ==
  /\ pc[p] = "openFresh"
  /\ ValidRange(from, until)
  /\ NoLeftovers(Selected(from, until))
  /\ \A s \in ExternalInputs(Selected(from, until)) : files[s] # Absent
  /\ Save(p, NewCheckpoint(from, until))
  /\ selected' = [selected EXCEPT ![p] = Selected(from, until)]
  /\ UNCHANGED <<env, report, lock>>

\* A new execution: no checkpoint yet, a valid range, none of its outputs
\* there already, every input from outside the range there.
OpenFresh(p, from, until) ==
  /\ pc[p] = "openFresh"
  /\ disk.status = "none"
  /\ ValidRange(from, until)
  /\ NoLeftovers(Selected(from, until))
  /\ \A s \in ExternalInputs(Selected(from, until)) : files[s] # Absent
  /\ Save(p, NewCheckpoint(from, until))
  /\ selected' = [selected EXCEPT ![p] = Selected(from, until)]
  /\ UNCHANGED <<env, report, lock>>

Resumable ==
  /\ CheckpointAccepted(disk)
  /\ NoLeftovers(WithStatus(disk, Unfinished))

OpenResume(p) ==
  /\ pc[p] = "openResume"
  /\ Resumable
  /\ Save(p, Reopened(disk))
  /\ selected' = [selected EXCEPT ![p] = WithStatus(disk, Unfinished)]
  /\ UNCHANGED <<env, report, lock>>

\* The invocation is refused: an existing checkpoint, an impossible range,
\* a stale or completed checkpoint, an output that is there already.
Refuse(p) ==
  /\ \/ pc[p] = "openFresh"
     \/ pc[p] = "openResume" /\ ~Resumable
  /\ Goto(p, "release")
  /\ UNCHANGED <<env, store, lock, mem, selected>>

\* The second half of _write_checkpoint: the execution report.
WriteReport(p) ==
  /\ pc[p] = "report"
  /\ report' = mem[p]
  /\ Goto(p, IF mem[p].status # "running" THEN "release"
             ELSE IF WithStatus(mem[p], {"running"}) # {} THEN "running" ELSE "loop")
  /\ UNCHANGED <<env, disk, lock, mem, selected>>

-----------------------------------------------------------------------------
(* The stage loop. *)

\* Mutant of GateOpen: the run state is only read when gra-run starts.
GateAlwaysOpen(p, s) ==
  /\ pc[p] = "loop"
  /\ IsNext(p, s)
  /\ Goto(p, "gated")
  /\ UNCHANGED <<env, store, lock, mem, selected>>

\* The run-state gate before stage s.
GateOpen(p, s) ==
  /\ pc[p] = "loop"
  /\ IsNext(p, s)
  /\ runState = "active"
  /\ Goto(p, "gated")
  /\ UNCHANGED <<env, store, lock, mem, selected>>

GateClosed(p, s) ==
  /\ pc[p] = "loop"
  /\ IsNext(p, s)
  /\ runState # "active"
  /\ Save(p, StopAt(mem[p], IF runState = "paused" THEN "paused" ELSE "blocked", s))
  /\ UNCHANGED <<env, report, lock, selected>>

Unsatisfied(ck, s) == DependsOn[s] \ WithStatus(ck, TerminalSuccess)

\* Direct dependencies whose output is no longer the recorded one.
StaleDependencies(ck, s) ==
  {d \in DependsOn[s] \cap WithStatus(ck, {"succeeded"}) : ~StampValid(ck, d)}

\* Mutant of StopOnChangedCommand: the loop goes on waiting for the script.
AwaitCommand(p, s) ==
  /\ pc[p] = "gated"
  /\ IsNext(p, s)
  /\ mem[p].build # build
  /\ Goto(p, "loop")
  /\ UNCHANGED <<env, store, lock, mem, selected>>

\* A command script changed since the execution was started.
StopOnChangedCommand(p, s) ==
  /\ pc[p] = "gated"
  /\ IsNext(p, s)
  /\ mem[p].build # build
  /\ Save(p, StopAt(mem[p], "blocked", s))
  /\ UNCHANGED <<env, report, lock, selected>>

StopOnDependency(p, s) ==
  /\ pc[p] = "gated"
  /\ IsNext(p, s)
  /\ mem[p].build = build
  /\ Unsatisfied(mem[p], s) # {}
  /\ Save(p, StopAt(Put(mem[p], s, BlockedRecord(mem[p].stage[s])), "blocked", s))
  /\ UNCHANGED <<env, report, lock, selected>>

StopOnStaleInput(p, s) ==
  /\ pc[p] = "gated"
  /\ IsNext(p, s)
  /\ mem[p].build = build
  /\ Unsatisfied(mem[p], s) = {}
  /\ StaleDependencies(mem[p], s) # {}
  /\ Save(p, StopAt(mem[p], "blocked", s))
  /\ UNCHANGED <<env, report, lock, selected>>

\* Stage s is recorded as running; its command starts once the report is out.
BeginStage(p, s) ==
  /\ pc[p] = "gated"
  /\ IsNext(p, s)
  /\ mem[p].build = build
  /\ Unsatisfied(mem[p], s) = {}
  /\ StaleDependencies(mem[p], s) = {}
  /\ Save(p, StopAt(Put(mem[p], s, BegunRecord(mem[p].stage[s])), "running", s))
  /\ late' = IF runState = "active" THEN late ELSE late + 1
  /\ UNCHANGED <<files, runState, build, faults, report, lock, selected>>

\* Mutant of FinishRange: the stages after an --until range are forgotten.
FinishEverything(p) ==
  /\ pc[p] = "loop"
  /\ Todo(p) = {}
  /\ Save(p, StopAt(mem[p], "succeeded", NoStage))
  /\ UNCHANGED <<env, report, lock, selected>>

\* No selected stage is pending any more.
FinishRange(p) ==
  /\ pc[p] = "loop"
  /\ Todo(p) = {}
  /\ LET rest == WithStatus(mem[p], Unfinished)
     IN Save(p, StopAt(mem[p], IF rest = {} THEN "succeeded" ELSE "paused", ResumePoint(rest)))
  /\ UNCHANGED <<env, report, lock, selected>>

-----------------------------------------------------------------------------
(* The command of the current stage. *)

RunningStage(p, s) == pc[p] = "running" /\ s = mem[p].resume

Disturb == faults < MaxFaults /\ faults' = faults + 1

\* The command writes its output file, possibly several times.
StageWrites(p, s, c) ==
  /\ RunningStage(p, s)
  /\ s \in Producers
  /\ files' = [files EXCEPT ![s] = c]
  /\ UNCHANGED <<runState, build, faults, late, store, lock, pc, mem, selected>>

\* The command exits with 0 and its output is there.
StageSucceeds(p, s) ==
  /\ RunningStage(p, s)
  /\ s \in Producers => files[s] # Absent
  /\ LET ck == Put(mem[p], s, SucceededRecord(mem[p].stage[s], files[s]))
     IN Save(p, StopAt(ck, ck.status, ResumePoint(WithStatus(ck, Unfinished))))
  /\ UNCHANGED <<env, report, lock, selected>>

\* The command exits with 0 and its output is not there.
StageMissesOutput(p, s) ==
  /\ RunningStage(p, s)
  /\ s \in Producers /\ files[s] = Absent
  /\ Disturb
  /\ Save(p, StopAt(Put(mem[p], s, MissingOutputRecord(mem[p].stage[s])), "blocked", s))
  /\ UNCHANGED <<files, runState, build, late, report, lock, selected>>

\* The direct dependents of s that are still pending are blocked.
WithBlocked(ck, s) ==
  [ck EXCEPT !.stage = [t \in Stage |->
     IF ck.stage[t].status = "pending" /\ s \in DependsOn[t]
     THEN BlockedRecord(ck.stage[t]) ELSE ck.stage[t]]]

\* The command exits with another code: its pending dependents are blocked.
StageFails(p, s, e) ==
  /\ RunningStage(p, s)
  /\ Disturb
  /\ LET ck == Put(mem[p], s, FailedRecord(mem[p].stage[s], e))
     IN Save(p, StopAt(WithBlocked(ck, s), "blocked", s))
  /\ UNCHANGED <<files, runState, build, late, report, lock, selected>>

\* KeyboardInterrupt while the command runs.
StageInterrupted(p, s) ==
  /\ RunningStage(p, s)
  /\ Disturb
  /\ Save(p, StopAt(Put(mem[p], s, InterruptedRecord(mem[p].stage[s])), "paused", s))
  /\ UNCHANGED <<files, runState, build, late, report, lock, selected>>

StageExits(p, s) ==
  \/ StageSucceeds(p, s)
  \/ StageMissesOutput(p, s)
  \/ \E e \in OptionalError : StageFails(p, s, e)
  \/ StageInterrupted(p, s)

-----------------------------------------------------------------------------
(* The end of an invocation. *)

Forget(p) ==
  /\ Goto(p, "idle")
  /\ mem' = [mem EXCEPT ![p] = NoCheckpoint]
  /\ selected' = [selected EXCEPT ![p] = {}]

\* The finally clause removes the lock directory.
Release(p) ==
  /\ pc[p] = "release"
  /\ lock' = FALSE
  /\ Forget(p)
  /\ UNCHANGED <<env, store>>

\* An exception (an unwritable report, an interrupt outside the command, a
\* missing script) leaves the loop; what is on disk stays as it is.
Abort(p) ==
  /\ pc[p] \in Holding \ {"release"}
  /\ Disturb
  /\ Goto(p, "release")
  /\ UNCHANGED <<files, runState, build, late, store, lock, mem, selected>>

\* The process is killed: the lock directory stays behind.
Kill(p) ==
  /\ pc[p] # "idle"
  /\ Disturb
  /\ Forget(p)
  /\ UNCHANGED <<files, runState, build, late, store, lock>>

-----------------------------------------------------------------------------
(* The operator and the rest of the machine. *)

\* gra-run-state --pause / --block, or one of them caught halfway through
\* its non-atomic write.
SetRunState(v) ==
  /\ v # runState
  /\ Disturb
  /\ runState' = v
  /\ UNCHANGED <<files, build, late, store, lock, pc, mem, selected>>

\* The way out of a block or of an unreadable state is a new --pause.
PauseAgain ==
  /\ runState \in {"blocked", "unreadable"}
  /\ runState' = "paused"
  /\ UNCHANGED <<files, build, faults, late, store, lock, pc, mem, selected>>

ClearPause ==
  /\ runState = "paused"
  /\ runState' = "active"
  /\ late' = 0
  /\ UNCHANGED <<files, build, faults, store, lock, pc, mem, selected>>

\* Somebody changes or removes a declared output.
EditFile(s, c) ==
  /\ s \in Producers
  /\ files[s] # c
  /\ Disturb
  /\ files' = [files EXCEPT ![s] = c]
  /\ UNCHANGED <<runState, build, late, store, lock, pc, mem, selected>>

\* Another version of the command scripts is installed.
Upgrade(b) ==
  /\ b # build
  /\ Disturb
  /\ build' = b
  /\ UNCHANGED <<files, runState, late, store, lock, pc, mem, selected>>

Quiet == \A p \in Procs : pc[p] \notin Holding

\* Operator lock recovery: only once the holder is gone.
RecoverLock ==
  /\ lock
  /\ Quiet
  /\ lock' = FALSE
  /\ UNCHANGED <<env, store, pc, mem, selected>>

\* The operator removes what an unfinished stage left behind, so that
\* --resume is not refused.
RemoveLeftover(s) ==
  /\ Quiet
  /\ disk.status # "none"
  /\ disk.stage[s].status \in Unfinished
  /\ files[s] # Absent
  /\ files' = [files EXCEPT ![s] = Absent]
  /\ UNCHANGED <<runState, build, faults, late, store, lock, pc, mem, selected>>

-----------------------------------------------------------------------------
Open(p) ==
  \/ \E from, until \in Stage \cup {NoStage} : OpenFresh(p, from, until)
  \/ OpenResume(p)
  \/ Refuse(p)

Loop(p) ==
  \E s \in Stage :
    \/ GateOpen(p, s)
    \/ GateClosed(p, s)
    \/ StopOnChangedCommand(p, s)
    \/ StopOnDependency(p, s)
    \/ StopOnStaleInput(p, s)
    \/ BeginStage(p, s)

\* Everything an invocation does by itself once it was started.
Step(p) ==
  \/ AcquireLock(p)
  \/ LockBusy(p)
  \/ Open(p)
  \/ WriteReport(p)
  \/ Loop(p)
  \/ FinishRange(p)
  \/ \E s \in Stage : StageExits(p, s)
  \/ Release(p)

Command(p) == \E s \in Stage, c \in Content : StageWrites(p, s, c)

Operator ==
  \/ \E v \in {"paused", "blocked", "unreadable"} : SetRunState(v)
  \/ PauseAgain
  \/ ClearPause
  \/ \E s \in Stage, c \in Content \cup {Absent} : EditFile(s, c)
  \/ \E b \in Build : Upgrade(b)
  \/ RecoverLock
  \/ \E s \in Stage : RemoveLeftover(s)

Next ==
  \/ \E p \in Procs :
       \/ \E mode \in {"fresh", "resume"} : Invoke(p, mode)
       \/ Step(p)
       \/ Command(p)
       \/ Abort(p)
       \/ Kill(p)
  \/ Operator

Spec == Init /\ [][Next]_vars

-----------------------------------------------------------------------------
(* Safety. *)

\* The lock directory keeps invocations apart: at most one is past it, it
\* stays there as long as that one works, and what that one holds in memory
\* is what is on disk, so no checkpoint write is ever lost or overwritten by
\* another invocation (execute_workflow's mkdir, finally rmdir, and kills).
ExclusiveCheckpoint ==
  \A p \in Procs : pc[p] \in Holding =>
    /\ lock
    /\ \A q \in Procs \ {p} : pc[q] \notin Holding
    /\ pc[p] \in Working => mem[p] = disk

\* Whatever sequence of failures, interrupts, kills and resumes led to it,
\* the checkpoint on disk passes the consistency checks _load_checkpoint
\* applies to every stage record (provider error, failure history, recovery,
\* attempts), so --resume never refuses the executor's own records.
RecordsAccepted == AllAccepted(disk)

\* Reopening only looks at stages from the resume stage on.  No interrupted
\* stage is ever before it, so none is left behind in a state the stage loop
\* skips; and without a resume stage nothing is unfinished.
ResumeCovers(ck) ==
  /\ ck.resume # NoStage =>
       /\ ck.resume \in WithStatus(ck, Unfinished)
       /\ \A s \in WithStatus(ck, Interrupted) : s >= ck.resume
  /\ ck.resume = NoStage => WithStatus(ck, Unfinished) = {}
  /\ WithStatus(ck, {"running", "failed"}) \subseteq {ck.resume}

ResumePointCovers == disk.status # "none" => ResumeCovers(disk)

\* A stage that ran, is running or failed ran only after every stage it
\* depends on had succeeded or was outside the range by choice.
DependenciesDone(ck) ==
  \A s \in Stage : ck.stage[s].attempt > 0 => Unsatisfied(ck, s) = {}

DependenciesFirst == DependenciesDone(disk)

\* The execution report never runs ahead of the checkpoint: what it shows as
\* succeeded is succeeded on disk, with the same output.
ReportNeverAhead ==
  \A s \in WithStatus(report, {"succeeded"}) : disk.stage[s] = report.stage[s]

\* A pause or block takes effect between stages: after the operator recorded
\* it, at most one more stage is begun (the one whose gate was passed).
PauseStopsWithinOneStage == late <= 1

\* A succeeded stage is final: no resume, retry or concurrent invocation runs
\* it again or changes its record ("Successful stages are not repeated").
SuccessIsFinal ==
  [][\A s \in WithStatus(disk, {"succeeded"}) : disk'.stage[s] = disk.stage[s]]_disk

\* The failure history of a stage outlives retries, interrupts and resumes:
\* the recorded number of provider failures never goes down.
HistoryIsKept ==
  [][\A s \in Stage : disk'.stage[s].failures >= disk.stage[s].failures]_disk

-----------------------------------------------------------------------------
(* The inductive strengthening of these invariants. *)

\* What a checkpoint looks like between two writes: while it is marked
\* running, the only interrupted stage is the one whose command was started.
Shape(ck) ==
  /\ \A s \in WithStatus(ck, {"running", "failed", "succeeded"}) : ck.stage[s].attempt > 0
  /\ \A s \in WithStatus(ck, {"running"}) : ck.stage[s].failures < ck.stage[s].attempt
  /\ ck.status = "running" => WithStatus(ck, Interrupted) \subseteq WithStatus(ck, {"running"})
  /\ ck.status = "succeeded" => WithStatus(ck, Unfinished) = {}

Sound(ck) == AllAccepted(ck) /\ ResumeCovers(ck) /\ DependenciesDone(ck) /\ Shape(ck)

DiskInv == IF disk.status = "none" THEN disk = NoCheckpoint ELSE Sound(disk)

\* Where an invocation is agrees with the checkpoint on disk.
ControlInv ==
  \A p \in Procs :
    /\ pc[p] \in Working => disk.status # "none"
    /\ pc[p] \in {"loop", "gated", "running"} => disk.status = "running"
    /\ pc[p] \in {"loop", "gated"} => WithStatus(disk, {"running"}) = {}
    /\ pc[p] = "running" => disk.resume \in WithStatus(disk, {"running"})

\* No stage is begun late before the run leaves "active" or a gate is passed.
GateInv ==
  runState = "active" \/ (\E p \in Procs : pc[p] = "gated") => late = 0

IInv ==
  /\ TypeOK
  /\ ExclusiveCheckpoint
  /\ DiskInv
  /\ ControlInv
  /\ GateInv
  /\ PauseStopsWithinOneStage
  /\ ReportNeverAhead

-----------------------------------------------------------------------------
(* Refinement: the checkpoint carries out StagedWorkflow. *)

Staged == INSTANCE StagedWorkflow WITH
  phase <- CASE disk.status = "none" -> "unplanned"
             [] disk.status = "succeeded" -> "closed"
             [] OTHER -> "open",
  scope <- IF disk.status = "none" THEN {}
           ELSE WithStatus(disk, Unfinished \cup {"succeeded"}),
  given <- IF disk.status = "none" THEN {}
           ELSE WithStatus(disk, {"external_prerequisite", "skipped_by_scope"}),
  done <- WithStatus(disk, {"succeeded"})

\* Through pauses, crashes and resumes the checkpoint only ever does what
\* StagedWorkflow allows: a fixed range, each stage succeeding once and after
\* its dependencies, completion only when nothing is left.
ImplementsStaged == Staged!Spec

-----------------------------------------------------------------------------
(* Liveness. *)

\* The operating system runs the process, a command that runs writes its
\* output and exits; the operator clears pauses, recovers a lock left behind
\* (the refusal asks for that) and keeps coming back with --resume.  Nobody is
\* assumed to remove what an unfinished stage left behind.
Fairness ==
  /\ \A p \in Procs :
       /\ WF_vars(Step(p))
       /\ WF_vars(Command(p))
       /\ SF_vars(Invoke(p, "resume"))
  /\ WF_vars(PauseAgain)
  /\ WF_vars(ClearPause)
  /\ WF_vars(RecoverLock)

FairSpec == Spec /\ Fairness

\* An invocation ends: it never stays at the lock, at a gate or in the loop.
EveryInvocationEnds == \A p \in Procs : pc[p] # "idle" ~> pc[p] = "idle"

\* A stage that declares a dependency the range left out: it never runs, and
\* the loop ends at it, whatever comes after it in the plan.
DeadEnd(s) == \E d \in DependsOn[s] : disk.stage[d].status = "out_of_range"

\* What an operator has to put right before --resume can go on: an artifact or
\* a command script is not the recorded one, or an unfinished stage has left
\* an output behind.
NeedsRepair ==
  \/ ~StampsValid(disk)
  \/ disk.build # build
  \/ ~NoLeftovers(WithStatus(disk, Unfinished))

\* An operator who keeps resuming gets everything done before the first dead
\* end: from some point on no stage is unfinished, or the checkpoint names a
\* dead end as the stage to resume from and all before it is done, unless the
\* run waits for a repair nobody makes (workflow_executor.py:524-548, 639-742).
ResumeCompletes ==
  <>[](\/ disk.status = "none"
       \/ WithStatus(disk, Unfinished) = {}
       \/ DeadEnd(disk.resume) /\ disk.resume = First(WithStatus(disk, Unfinished))
       \/ NeedsRepair)

-----------------------------------------------------------------------------
(* What the documentation says and the code does not do. *)

\* README.md: "A run with an existing workflow checkpoint must be continued
\* with --resume".  A checkpoint of an unfinished execution names the stage
\* to resume from once the invocation that wrote it is gone.
UnfinishedNamesResumeStage ==
  Quiet /\ disk.status \in {"running", "paused", "blocked"} => disk.resume \in Stage
=============================================================================
