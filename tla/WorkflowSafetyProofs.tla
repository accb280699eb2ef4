------------------------ MODULE WorkflowSafetyProofs ------------------------
(***************************************************************************)
(* The type invariant of the workflow executor, its inductive invariant and *)
(* the safety properties that follow from it, and its refinement of         *)
(* StagedWorkflow, and what the execution report made from a checkpoint     *)
(* says: for every plan, every set of invocations and every bound on the    *)
(* disturbances.                                                            *)
(***************************************************************************)
EXTENDS WorkflowReport, FiniteSetTheorems, FunctionTheorems, WellFoundedInduction, TLAPS

-----------------------------------------------------------------------------
(* The plan. *)

\* A non-empty set of stages has a first one: among the initial segments of
\* the plan that end in S there is one that contains no other.
LEMMA FirstProperties ==
  ASSUME NEW S \in SUBSET Stage, S # {}
  PROVE  First(S) \in S /\ \A t \in S : First(S) <= t
<1> DEFINE Segments == {1..s : s \in S}
<1>1. S \subseteq Nat \ {0} /\ Stage \subseteq Nat
  BY PlanAssumption DEF Stage
<1>2. \A s \in S : 1..s \in SUBSET Stage /\ IsFiniteSet(1..s)
  <2>1. \A s \in S : 1..s \in SUBSET Stage
    BY <1>1, PlanAssumption DEF Stage
  <2>2. \A s \in S : s \in Int /\ 1 \in Int
    BY <1>1
  <2>3. QED
    BY <2>1, <2>2, FS_Interval
<1>3. Segments \subseteq FiniteSubsetsOf(Stage) /\ Segments # {}
  BY <1>2 DEF FiniteSubsetsOf
<1>4. PICK X \in Segments : \A Y \in Segments : <<Y, X>> \notin StrictSubsetOrdering(Stage)
  BY <1>3, FS_StrictSubsetOrderingWellFounded, WFMin
<1>5. PICK s \in S : X = 1..s
  BY <1>4
<1>6. \A t \in S : s <= t
  <2> SUFFICES ASSUME NEW t \in S, ~(s <= t)
               PROVE  FALSE
    OBVIOUS
  <2>1. t < s
    BY <1>1
  <2>2. 1..t \subseteq 1..s /\ s \in 1..s /\ s \notin 1..t
    BY <2>1, <1>1
  <2>3. <<1..t, X>> \in StrictSubsetOrdering(Stage)
    BY <1>2, <1>5, <2>2 DEF StrictSubsetOrdering
  <2>4. QED
    BY <2>3, <1>4
<1>7. QED
  BY <1>6 DEF First

\* Every valid range selects at least one stage.
LEMMA SelectedNonEmpty ==
  ASSUME NEW from, NEW until, ValidRange(from, until)
  PROVE  Selected(from, until) # {} /\ Selected(from, until) \subseteq Stage
<1>1. Selected(from, until) \subseteq Stage
  BY DEF Selected, Executable
<1>2. CASE until # NoStage
  <2>1. until \in Executable /\ until \in Stage
    BY <1>2 DEF ValidRange, Executable
  <2>2. until \in UntilClosure(until)
    BY <1>2 DEF UntilClosure
  <2>3. until \in FromClosure(from)
    BY <1>2, <2>1 DEF ValidRange, FromClosure
  <2>4. QED
    BY <1>1, <2>1, <2>2, <2>3 DEF Selected
<1>3. CASE until = NoStage /\ from # NoStage
  BY <1>1, <1>3 DEF ValidRange, Selected, FromClosure, UntilClosure, Executable
<1>4. CASE until = NoStage /\ from = NoStage
  BY <1>1, <1>4 DEF ValidRange, Selected, FromClosure, UntilClosure, Executable
<1>5. QED
  BY <1>1, <1>2, <1>3, <1>4

\* The selected stages are the ones a new execution starts as pending, and
\* every stage gets one of four statuses.
LEMMA InitialStatusProperties ==
  ASSUME NEW from, NEW until, NEW s \in Stage
  PROVE  /\ InitialStatus(s, from, until) \in
              {"skipped_by_scope", "external_prerequisite", "pending", "out_of_range"}
         /\ s \in Selected(from, until) => InitialStatus(s, from, until) = "pending"
<1>1. s \in Selected(from, until) => s \notin Skipped
  BY DEF Selected, Executable
<1>2. s \in Selected(from, until) => s \notin Prerequisites(from, until)
  BY DEF Prerequisites
<1>3. QED
  BY <1>1, <1>2 DEF InitialStatus

-----------------------------------------------------------------------------
(* Types of records and checkpoints. *)

LEMMA ResumePointProperties ==
  ASSUME NEW S \in SUBSET Stage
  PROVE  /\ ResumePoint(S) \in Stage \cup {NoStage}
         /\ ResumePoint(S) = NoStage <=> S = {}
         /\ S # {} => ResumePoint(S) \in S /\ \A t \in S : ResumePoint(S) <= t
<1>1. NoStage \notin Stage
  BY PlanAssumption DEF Stage, NoStage
<1>2. CASE S = {}
  BY <1>2 DEF ResumePoint
<1>3. CASE S # {}
  BY <1>1, <1>3, FirstProperties DEF ResumePoint
<1>4. QED
  BY <1>2, <1>3

LEMMA RecordTypes ==
  ASSUME NEW r \in StageRecord
  PROVE  /\ BegunRecord(r) \in StageRecord
         /\ \A out \in Content \cup {Absent} : SucceededRecord(r, out) \in StageRecord
         /\ MissingOutputRecord(r) \in StageRecord
         /\ \A e \in OptionalError : FailedRecord(r, e) \in StageRecord
         /\ InterruptedRecord(r) \in StageRecord
         /\ BlockedRecord(r) \in StageRecord
         /\ ReopenedRecord(r) \in StageRecord
<1> USE DEF StageRecord, StageStatus, TerminalSuccess, Unfinished, Interrupted,
            ErrorCategory, OptionalError
<1>0. r.attempt + 1 \in Nat /\ r.failures + 1 \in Nat /\ (r.failures > 0) \in BOOLEAN
  OBVIOUS
<1>1. BegunRecord(r) \in StageRecord
  BY <1>0 DEF BegunRecord
<1>2. \A out \in Content \cup {Absent} : SucceededRecord(r, out) \in StageRecord
  BY <1>0 DEF SucceededRecord
<1>3. MissingOutputRecord(r) \in StageRecord
  BY DEF MissingOutputRecord
<1>4. \A e \in OptionalError : FailedRecord(r, e) \in StageRecord
  <2> SUFFICES ASSUME NEW e \in OptionalError
               PROVE  FailedRecord(r, e) \in StageRecord
    OBVIOUS
  <2>1. CASE e = "none"
    BY <2>1 DEF FailedRecord
  <2>2. CASE e # "none"
    BY <1>0, <2>2 DEF FailedRecord
  <2>3. QED
    BY <2>1, <2>2
<1>5. InterruptedRecord(r) \in StageRecord
  BY DEF InterruptedRecord
<1>6. BlockedRecord(r) \in StageRecord
  BY DEF BlockedRecord
<1>7. ReopenedRecord(r) \in StageRecord
  BY DEF ReopenedRecord
<1>8. QED
  BY <1>1, <1>2, <1>3, <1>4, <1>5, <1>6, <1>7

LEMMA NewRecordType ==
  \A status \in StageStatus : NewRecord(status) \in StageRecord
BY DEF NewRecord, StageRecord, ErrorCategory, OptionalError

LEMMA PutType ==
  ASSUME NEW ck \in Checkpoint, NEW s \in Stage, NEW r \in StageRecord
  PROVE  /\ Put(ck, s, r) \in Checkpoint
         /\ Put(ck, s, r).status = ck.status
         /\ Put(ck, s, r).resume = ck.resume
         /\ Put(ck, s, r).stage[s] = r
         /\ \A t \in Stage \ {s} : Put(ck, s, r).stage[t] = ck.stage[t]
BY DEF Put, Checkpoint

LEMMA StopAtType ==
  ASSUME NEW ck \in Checkpoint, NEW status \in WorkflowStatus \cup {"none"},
         NEW s \in Stage \cup {NoStage}
  PROVE  /\ StopAt(ck, status, s) \in Checkpoint
         /\ StopAt(ck, status, s).status = status
         /\ StopAt(ck, status, s).resume = s
         /\ StopAt(ck, status, s).stage = ck.stage
BY DEF StopAt, Checkpoint

LEMMA WithBlockedType ==
  ASSUME NEW ck \in Checkpoint, NEW s \in Stage
  PROVE  /\ WithBlocked(ck, s) \in Checkpoint
         /\ WithBlocked(ck, s).stage \in [Stage -> StageRecord]
         /\ \A t \in Stage : WithBlocked(ck, s).stage[t] =
              IF ck.stage[t].status = "pending" /\ s \in DependsOn[t]
              THEN BlockedRecord(ck.stage[t]) ELSE ck.stage[t]
<1>1. \A t \in Stage : BlockedRecord(ck.stage[t]) \in StageRecord
  BY RecordTypes DEF Checkpoint
<1>2. QED
  BY <1>1 DEF WithBlocked, Checkpoint

LEMMA ReopenedType ==
  ASSUME NEW ck \in Checkpoint
  PROVE  /\ Reopened(ck) \in Checkpoint
         /\ Reopened(ck).status = "running"
         /\ Reopened(ck).resume = ck.resume
         /\ \A s \in Stage : Reopened(ck).stage[s] =
              IF s >= ck.resume /\ ck.stage[s].status \in Interrupted
              THEN ReopenedRecord(ck.stage[s]) ELSE ck.stage[s]
<1>1. \A s \in Stage : ReopenedRecord(ck.stage[s]) \in StageRecord
  BY RecordTypes DEF Checkpoint
<1>2. QED
  BY <1>1 DEF Reopened, Checkpoint, WorkflowStatus

LEMMA NewCheckpointType ==
  ASSUME NEW from, NEW until, ValidRange(from, until),
         build \in Build, files \in [Stage -> Content \cup {Absent}]
  PROVE  /\ NewCheckpoint(from, until) \in Checkpoint
         /\ NewCheckpoint(from, until).status = "running"
         /\ NewCheckpoint(from, until).resume = First(Selected(from, until))
         /\ \A s \in Stage : NewCheckpoint(from, until).stage[s]
                               = NewRecord(InitialStatus(s, from, until))
<1>1. First(Selected(from, until)) \in Stage
  BY FirstProperties, SelectedNonEmpty
<1>2. \A s \in Stage : NewRecord(InitialStatus(s, from, until)) \in StageRecord
  BY InitialStatusProperties, NewRecordType
     DEF StageStatus, TerminalSuccess, Unfinished, Interrupted
<1>3. QED
  BY <1>1, <1>2 DEF NewCheckpoint, Checkpoint, WorkflowStatus

LEMMA NoCheckpointType == NoCheckpoint \in Checkpoint
<1>1. \A s \in Stage : NewRecord("pending") \in StageRecord
  BY NewRecordType DEF StageStatus, Unfinished
<1>2. (CHOOSE b \in Build : TRUE) \in Build
  BY ExecutorAssumption
<1>3. QED
  BY <1>1, <1>2 DEF NoCheckpoint, Checkpoint

-----------------------------------------------------------------------------
(* Type correctness. *)

LEMMA SaveType ==
  ASSUME TypeOK, NEW p \in Procs, NEW ck \in Checkpoint, Save(p, ck)
  PROVE  /\ disk' \in Checkpoint
         /\ mem' \in [Procs -> Checkpoint]
         /\ pc' \in [Procs -> PC]
BY DEF TypeOK, Save, Goto, PC

\* The checkpoints the steps of an invocation save are checkpoints.
LEMMA SavedTypes ==
  ASSUME TypeOK, NEW p \in Procs, NEW s \in Stage
  PROVE  /\ \A status \in WorkflowStatus : StopAt(mem[p], status, s) \in Checkpoint
         /\ \A status \in WorkflowStatus, r \in StageRecord :
              StopAt(Put(mem[p], s, r), status, s) \in Checkpoint
         /\ \A status \in WorkflowStatus, r \in StageRecord :
              StopAt(WithBlocked(Put(mem[p], s, r), s), status, s) \in Checkpoint
<1>1. mem[p] \in Checkpoint
  BY DEF TypeOK
<1>2. \A status \in WorkflowStatus : StopAt(mem[p], status, s) \in Checkpoint
  BY <1>1, StopAtType
<1>3. \A r \in StageRecord : Put(mem[p], s, r) \in Checkpoint
  BY <1>1, PutType
<1>4. \A r \in StageRecord : WithBlocked(Put(mem[p], s, r), s) \in Checkpoint
  BY <1>3, WithBlockedType
<1>5. QED
  BY <1>2, <1>3, <1>4, StopAtType

LEMMA RecordOfMem ==
  ASSUME TypeOK, NEW p \in Procs, NEW s \in Stage
  PROVE  mem[p] \in Checkpoint /\ mem[p].stage[s] \in StageRecord
BY DEF TypeOK, Checkpoint

\* The checkpoints that end with the first unfinished stage.
LEMMA AdvancedType ==
  ASSUME NEW ck \in Checkpoint, NEW status \in WorkflowStatus \cup {"none"}
  PROVE  StopAt(ck, status, ResumePoint(WithStatus(ck, Unfinished))) \in Checkpoint
<1>1. WithStatus(ck, Unfinished) \in SUBSET Stage
  BY DEF WithStatus
<1>2. QED
  BY <1>1, ResumePointProperties, StopAtType

LEMMA TypeInit == Init => TypeOK
<1>1. 0 \in 0..MaxFaults /\ 0 \in Nat
  BY ExecutorAssumption
<1>2. QED
  BY <1>1, NoCheckpointType DEF Init, TypeOK, PC

\* The steps of an invocation that save a checkpoint.
LEMMA TypeSave ==
  ASSUME TypeOK, NEW p \in Procs
  PROVE  /\ \A from, until \in Stage \cup {NoStage} : OpenFresh(p, from, until) => TypeOK'
         /\ OpenResume(p) => TypeOK'
         /\ FinishRange(p) => TypeOK'
<1> USE DEF WorkflowStatus
<1>1. ASSUME NEW from \in Stage \cup {NoStage}, NEW until \in Stage \cup {NoStage},
             OpenFresh(p, from, until)
      PROVE  TypeOK'
  <2>1. NewCheckpoint(from, until) \in Checkpoint
    BY <1>1, NewCheckpointType DEF OpenFresh, TypeOK
  <2>2. Selected(from, until) \in SUBSET Stage
    BY DEF Selected, Executable
  <2>3. QED
    BY <1>1, <2>1, <2>2, SaveType DEF OpenFresh, TypeOK, env
<1>2. ASSUME OpenResume(p) PROVE TypeOK'
  <2>1. Reopened(disk) \in Checkpoint
    BY ReopenedType DEF TypeOK
  <2>2. WithStatus(disk, Unfinished) \in SUBSET Stage
    BY DEF WithStatus
  <2>3. QED
    BY <1>2, <2>1, <2>2, SaveType DEF OpenResume, TypeOK, env
<1>3. ASSUME FinishRange(p) PROVE TypeOK'
  <2> DEFINE rest == WithStatus(mem[p], Unfinished)
             status == IF rest = {} THEN "succeeded" ELSE "paused"
             ck == StopAt(mem[p], status, ResumePoint(rest))
  <2>1. status \in WorkflowStatus \cup {"none"}
    OBVIOUS
  <2>2. ck \in Checkpoint
    <3> HIDE DEF status
    <3> QED BY <2>1, AdvancedType DEF TypeOK
  <2>3. Save(p, ck) /\ UNCHANGED <<env, report, lock, selected>>
    BY <1>3 DEF FinishRange
  <2> HIDE DEF ck
  <2>4. QED
    BY <2>2, <2>3, SaveType DEF TypeOK, env
<1>4. QED
  BY <1>1, <1>2, <1>3

LEMMA TypeLoop ==
  ASSUME TypeOK, NEW p \in Procs, NEW s \in Stage
  PROVE  /\ GateOpen(p, s) => TypeOK'
         /\ GateClosed(p, s) => TypeOK'
         /\ StopOnChangedCommand(p, s) => TypeOK'
         /\ StopOnDependency(p, s) => TypeOK'
         /\ StopOnStaleInput(p, s) => TypeOK'
         /\ BeginStage(p, s) => TypeOK'
<1> USE DEF WorkflowStatus
<1>1. ASSUME GateOpen(p, s) PROVE TypeOK'
  BY <1>1 DEF GateOpen, TypeOK, env, store, Goto, PC
<1>2. ASSUME GateClosed(p, s) PROVE TypeOK'
  <2> DEFINE status == IF runState = "paused" THEN "paused" ELSE "blocked"
  <2>1. StopAt(mem[p], status, s) \in Checkpoint
    BY SavedTypes
  <2>2. QED
    BY <1>2, <2>1, SaveType DEF GateClosed, TypeOK, env
<1>3. ASSUME StopOnChangedCommand(p, s) \/ StopOnStaleInput(p, s) PROVE TypeOK'
  <2>1. StopAt(mem[p], "blocked", s) \in Checkpoint
    BY SavedTypes
  <2>2. QED
    BY <1>3, <2>1, SaveType DEF StopOnChangedCommand, StopOnStaleInput, TypeOK, env
<1>4. ASSUME StopOnDependency(p, s) PROVE TypeOK'
  <2> DEFINE ck == StopAt(Put(mem[p], s, BlockedRecord(mem[p].stage[s])), "blocked", s)
  <2>1. ck \in Checkpoint
    BY SavedTypes, RecordOfMem, RecordTypes
  <2>2. Save(p, ck) /\ UNCHANGED <<env, report, lock, selected>>
    BY <1>4 DEF StopOnDependency
  <2> HIDE DEF ck
  <2>3. QED
    BY <2>1, <2>2, SaveType DEF TypeOK, env
<1>5. ASSUME BeginStage(p, s) PROVE TypeOK'
  <2> DEFINE ck == StopAt(Put(mem[p], s, BegunRecord(mem[p].stage[s])), "running", s)
  <2>1. ck \in Checkpoint
    BY SavedTypes, RecordOfMem, RecordTypes
  <2>2. /\ Save(p, ck)
        /\ late' = IF runState = "active" THEN late ELSE late + 1
        /\ UNCHANGED <<files, runState, build, faults, report, lock, selected>>
    BY <1>5 DEF BeginStage
  <2> HIDE DEF ck
  <2>3. QED
    BY <2>1, <2>2, SaveType DEF TypeOK
<1>6. QED
  BY <1>1, <1>2, <1>3, <1>4, <1>5

LEMMA TypeExit ==
  ASSUME TypeOK, NEW p \in Procs, NEW s \in Stage, StageExits(p, s)
  PROVE  TypeOK'
<1> USE DEF WorkflowStatus
<1>1. CASE StageSucceeds(p, s)
  <2> DEFINE ck == Put(mem[p], s, SucceededRecord(mem[p].stage[s], files[s]))
             ck2 == StopAt(ck, ck.status, ResumePoint(WithStatus(ck, Unfinished)))
  <2>1. ck \in Checkpoint
    BY RecordOfMem, RecordTypes, PutType DEF TypeOK
  <2>2. Save(p, ck2) /\ UNCHANGED <<env, report, lock, selected>>
    BY <1>1 DEF StageSucceeds
  <2> HIDE DEF ck
  <2>3. ck.status \in WorkflowStatus \cup {"none"}
    BY <2>1 DEF Checkpoint
  <2>4. ck2 \in Checkpoint
    BY <2>1, <2>3, AdvancedType
  <2> HIDE DEF ck2
  <2>5. QED
    BY <2>2, <2>4, SaveType DEF TypeOK, env
<1>2. CASE StageMissesOutput(p, s)
  <2> DEFINE ck == StopAt(Put(mem[p], s, MissingOutputRecord(mem[p].stage[s])), "blocked", s)
  <2>1. ck \in Checkpoint
    BY SavedTypes, RecordOfMem, RecordTypes
  <2>2. /\ Save(p, ck) /\ Disturb
        /\ UNCHANGED <<files, runState, build, late, report, lock, selected>>
    BY <1>2 DEF StageMissesOutput
  <2> HIDE DEF ck
  <2>3. QED
    BY <2>1, <2>2, SaveType, ExecutorAssumption DEF TypeOK, Disturb
<1>3. ASSUME NEW e \in OptionalError, StageFails(p, s, e) PROVE TypeOK'
  <2> DEFINE ck == StopAt(WithBlocked(Put(mem[p], s, FailedRecord(mem[p].stage[s], e)), s), "blocked", s)
  <2>1. FailedRecord(mem[p].stage[s], e) \in StageRecord
    BY RecordOfMem, RecordTypes
  <2>2. ck \in Checkpoint
    BY <2>1, SavedTypes
  <2>3. /\ Save(p, ck) /\ Disturb
        /\ UNCHANGED <<files, runState, build, late, report, lock, selected>>
    BY <1>3 DEF StageFails
  <2> HIDE DEF ck
  <2>4. QED
    BY <2>2, <2>3, SaveType, ExecutorAssumption DEF TypeOK, Disturb
<1>4. CASE StageInterrupted(p, s)
  <2> DEFINE ck == StopAt(Put(mem[p], s, InterruptedRecord(mem[p].stage[s])), "paused", s)
  <2>1. ck \in Checkpoint
    BY SavedTypes, RecordOfMem, RecordTypes
  <2>2. /\ Save(p, ck) /\ Disturb
        /\ UNCHANGED <<files, runState, build, late, report, lock, selected>>
    BY <1>4 DEF StageInterrupted
  <2> HIDE DEF ck
  <2>3. QED
    BY <2>1, <2>2, SaveType, ExecutorAssumption DEF TypeOK, Disturb
<1>5. QED
  BY <1>1, <1>2, <1>3, <1>4 DEF StageExits

\* The steps of an invocation that save nothing.
LEMMA TypeOther ==
  ASSUME TypeOK, NEW p \in Procs
  PROVE  /\ \A mode \in {"fresh", "resume"} : Invoke(p, mode) => TypeOK'
         /\ AcquireLock(p) \/ LockBusy(p) \/ Refuse(p) => TypeOK'
         /\ WriteReport(p) => TypeOK'
         /\ Release(p) => TypeOK'
         /\ Abort(p) => TypeOK'
         /\ Kill(p) => TypeOK'
         /\ \A s \in Stage, c \in Content : StageWrites(p, s, c) => TypeOK'
<1> USE DEF TypeOK, env, store, Goto, PC
<1>1. \A mode \in {"fresh", "resume"} : Invoke(p, mode) => TypeOK'
  BY DEF Invoke
<1>2. AcquireLock(p) \/ LockBusy(p) \/ Refuse(p) => TypeOK'
  BY DEF AcquireLock, LockBusy, Refuse
<1>3. WriteReport(p) => TypeOK'
  BY DEF WriteReport
<1>4. Release(p) => TypeOK'
  <2> SUFFICES ASSUME Release(p) PROVE TypeOK'
    OBVIOUS
  <2>1. pc' \in [Procs -> PC] /\ mem' \in [Procs -> Checkpoint]
        /\ selected' \in [Procs -> SUBSET Stage] /\ lock' \in BOOLEAN
    BY NoCheckpointType DEF Release, Forget
  <2>2. UNCHANGED << env, store >>
    BY DEF Release
  <2> QED BY <2>1, <2>2
<1>5. Abort(p) => TypeOK'
  BY ExecutorAssumption DEF Abort, Disturb
<1>6. Kill(p) => TypeOK'
  BY NoCheckpointType, ExecutorAssumption DEF Kill, Forget, Disturb
<1>7. \A s \in Stage, c \in Content : StageWrites(p, s, c) => TypeOK'
  BY DEF StageWrites
<1>8. QED
  BY <1>1, <1>2, <1>3, <1>4, <1>5, <1>6, <1>7

LEMMA TypeOperator ==
  ASSUME TypeOK, Operator
  PROVE  TypeOK'
<1> USE ExecutorAssumption DEF TypeOK, env, store, Disturb
<1>1. ASSUME NEW v \in {"paused", "blocked", "unreadable"}, SetRunState(v) PROVE TypeOK'
  BY <1>1 DEF SetRunState
<1>2. CASE PauseAgain \/ ClearPause \/ RecoverLock
  <2>1. CASE PauseAgain
    BY <2>1 DEF PauseAgain
  <2>2. CASE ClearPause
    BY <2>2 DEF ClearPause
  <2>3. CASE RecoverLock
    BY <2>3 DEF RecoverLock
  <2>4. QED
    BY <1>2, <2>1, <2>2, <2>3
<1>3. ASSUME NEW s \in Stage, NEW c \in Content \cup {Absent}, EditFile(s, c) PROVE TypeOK'
  BY <1>3 DEF EditFile
<1>4. ASSUME NEW b \in Build, Upgrade(b) PROVE TypeOK'
  BY <1>4 DEF Upgrade
<1>5. ASSUME NEW s \in Stage, RemoveLeftover(s) PROVE TypeOK'
  BY <1>5 DEF RemoveLeftover
<1>6. QED
  BY <1>1, <1>2, <1>3, <1>4, <1>5 DEF Operator

LEMMA TypeStep == TypeOK /\ [Next]_vars => TypeOK'
<1> SUFFICES ASSUME TypeOK, [Next]_vars PROVE TypeOK'
  OBVIOUS
<1>1. CASE UNCHANGED vars
  BY <1>1 DEF TypeOK, vars
<1>2. ASSUME NEW p \in Procs, Step(p) PROVE TypeOK'
  BY <1>2, TypeSave, TypeLoop, TypeExit, TypeOther DEF Step, Open, Loop
<1>3. ASSUME NEW p \in Procs, Command(p) PROVE TypeOK'
  BY <1>3, TypeOther DEF Command
<1>4. QED
  BY <1>1, <1>2, <1>3, TypeOther, TypeOperator DEF Next

\* Every variable of the executor always has its type, whatever the plan, the
\* number of overlapping invocations and the number of disturbances.
THEOREM TypeCorrect == Spec => []TypeOK
<1>1. Init => TypeOK
  BY TypeInit
<1>2. TypeOK /\ [Next]_vars => TypeOK'
  BY TypeStep
<1>3. QED
  BY <1>1, <1>2, PTL DEF Spec

-----------------------------------------------------------------------------
(* Checkpoint operations keep a checkpoint sound.                          *)

\* What every later checkpoint keeps of an earlier one.
Keeps(ck, ck2) ==
  \A s \in Stage :
    /\ ck.stage[s].status = "succeeded" => ck2.stage[s] = ck.stage[s]
    /\ ck2.stage[s].failures >= ck.stage[s].failures

\* What becomes of the range between two writes of a checkpoint: finished
\* stages are left alone, at most one unfinished stage succeeds, with its
\* dependencies done, and a completed checkpoint is not written again.
Carries(ck, ck2) ==
  /\ ck2.status # "none"
  /\ ck.status = "succeeded" => ck2 = ck
  /\ \A s \in Stage :
       /\ ck.stage[s].status \notin Unfinished => ck2.stage[s] = ck.stage[s]
       /\ ck.stage[s].status \in Unfinished =>
            \/ ck2.stage[s].status \in Unfinished
            \/ /\ ck2.stage[s].status = "succeeded" /\ ck2.status # "succeeded"
               /\ Unsatisfied(ck, s) = {}
  /\ \A s, t \in WithStatus(ck, Unfinished) \cap WithStatus(ck2, {"succeeded"}) : s = t

\* What a first checkpoint starts with.
Opens(ck2) ==
  /\ ck2.status = "running"
  /\ WithStatus(ck2, Unfinished) # {}
  /\ WithStatus(ck2, {"succeeded"}) = {}

Progress(ck, ck2) ==
  /\ Keeps(ck, ck2)
  /\ ck.status = "none" => ck2 = ck \/ Opens(ck2)
  /\ ck.status # "none" => Carries(ck, ck2)

LEMMA StatusMember ==
  ASSUME NEW ck \in Checkpoint, NEW S, NEW s \in Stage
  PROVE  s \in WithStatus(ck, S) <=> ck.stage[s].status \in S
BY DEF WithStatus

LEMMA RecordFields ==
  ASSUME NEW ck \in Checkpoint, NEW s \in Stage
  PROVE  /\ ck.stage[s] \in StageRecord
         /\ ck.stage[s].attempt \in Nat /\ ck.stage[s].failures \in Nat
         /\ ck.stage[s].recovered \in BOOLEAN
BY DEF Checkpoint, StageRecord

LEMMA NewRecordFields ==
  ASSUME NEW status
  PROVE  /\ NewRecord(status).status = status
         /\ NewRecord(status).attempt = 0 /\ NewRecord(status).failures = 0
         /\ NewRecord(status).error = "none" /\ NewRecord(status).provider = "none"
BY DEF NewRecord

LEMMA ReopenedFields ==
  ASSUME NEW r \in StageRecord
  PROVE  /\ ReopenedRecord(r).status = "pending"
         /\ ReopenedRecord(r).attempt = r.attempt
         /\ ReopenedRecord(r).failures = r.failures
         /\ ReopenedRecord(r).error = "none" /\ ReopenedRecord(r).provider = "none"
         /\ ReopenedRecord(r).recovered = FALSE
BY DEF ReopenedRecord, StageRecord

LEMMA NewCheckpointSound ==
  ASSUME NEW from, NEW until, ValidRange(from, until),
         build \in Build, files \in [Stage -> Content \cup {Absent}]
  PROVE  Sound(NewCheckpoint(from, until))
<1> DEFINE ck == NewCheckpoint(from, until)
<1>1. /\ ck \in Checkpoint /\ ck.status = "running"
      /\ ck.resume = First(Selected(from, until))
      /\ \A s \in Stage : ck.stage[s] = NewRecord(InitialStatus(s, from, until))
  BY NewCheckpointType
<1>2. \A s \in Stage :
        /\ ck.stage[s].status \in {"skipped_by_scope", "external_prerequisite", "pending", "out_of_range"}
        /\ s \in Selected(from, until) => ck.stage[s].status = "pending"
        /\ ck.stage[s].attempt = 0 /\ ck.stage[s].failures = 0
        /\ ck.stage[s].error = "none" /\ ck.stage[s].provider = "none"
  <2>1. \A s \in Stage : ck.stage[s] = NewRecord(InitialStatus(s, from, until))
    BY <1>1
  <2> HIDE DEF ck
  <2>2. QED
    BY <2>1, InitialStatusProperties, NewRecordFields
<1>3. ck.resume \in Stage /\ ck.resume \in Selected(from, until) /\ ck.resume # NoStage
  BY <1>1, FirstProperties, SelectedNonEmpty, PlanAssumption DEF Stage, NoStage
<1> HIDE DEF ck
<1>4. AllAccepted(ck)
  BY <1>2 DEF AllAccepted, RecordAccepted
<1>5. WithStatus(ck, Interrupted) = {} /\ WithStatus(ck, {"running", "failed", "succeeded"}) = {}
  BY <1>2 DEF WithStatus, Interrupted
<1>6. ResumeCovers(ck)
  BY <1>2, <1>3, <1>5 DEF ResumeCovers, WithStatus, Unfinished
<1>7. DependenciesDone(ck)
  BY <1>2 DEF DependenciesDone
<1>8. Shape(ck)
  BY <1>1, <1>5 DEF Shape, WithStatus
<1>9. QED
  BY <1>4, <1>6, <1>7, <1>8 DEF Sound, ck

LEMMA NewCheckpointProgress ==
  ASSUME NEW from, NEW until, ValidRange(from, until),
         build \in Build, files \in [Stage -> Content \cup {Absent}]
  PROVE  Progress(NoCheckpoint, NewCheckpoint(from, until))
<1> DEFINE ck == NewCheckpoint(from, until)
<1>1. /\ ck \in Checkpoint /\ ck.status = "running"
      /\ \A s \in Stage : ck.stage[s] = NewRecord(InitialStatus(s, from, until))
  BY NewCheckpointType
<1>2. PICK s \in Stage : s \in Selected(from, until)
  BY SelectedNonEmpty
<1> HIDE DEF ck
<1>3. \A t \in Stage : ck.stage[t].status = InitialStatus(t, from, until)
  BY <1>1, NewRecordFields
<1>4. Opens(ck)
  BY <1>1, <1>2, <1>3, InitialStatusProperties DEF Opens, WithStatus, Unfinished
<1>5. Keeps(NoCheckpoint, ck)
  BY <1>1, RecordFields DEF Keeps, NoCheckpoint, NewRecord
<1>6. NoCheckpoint.status = "none"
  BY DEF NoCheckpoint
<1>7. QED
  BY <1>4, <1>5, <1>6 DEF Progress, ck

\* Only the sets of finished stages matter for the dependencies.
LEMMA DependenciesKept ==
  ASSUME NEW ck, NEW ck2,
         WithStatus(ck, TerminalSuccess) \subseteq WithStatus(ck2, TerminalSuccess),
         NEW s \in Stage, Unsatisfied(ck, s) = {}
  PROVE  Unsatisfied(ck2, s) = {}
BY DEF Unsatisfied

LEMMA ReopenedSound ==
  ASSUME NEW ck \in Checkpoint, Sound(ck), ck.resume \in Stage,
         ck.status \notin {"none", "succeeded"}
  PROVE  Sound(Reopened(ck)) /\ Progress(ck, Reopened(ck))
         /\ WithStatus(Reopened(ck), Interrupted) = {}
<1> DEFINE new == Reopened(ck)
<1>1. /\ new \in Checkpoint /\ new.status = "running" /\ new.resume = ck.resume
      /\ \A s \in Stage : new.stage[s] =
           IF s >= ck.resume /\ ck.stage[s].status \in Interrupted
           THEN ReopenedRecord(ck.stage[s]) ELSE ck.stage[s]
  BY ReopenedType
<1> HIDE DEF new
<1>2. \A s \in Stage : ck.stage[s].status \in Interrupted => s >= ck.resume
  BY StatusMember, PlanAssumption DEF Sound, ResumeCovers, Stage, NoStage
<1>3. \A s \in Stage : new.stage[s] =
        IF ck.stage[s].status \in Interrupted THEN ReopenedRecord(ck.stage[s]) ELSE ck.stage[s]
  BY <1>1, <1>2
<1>4. \A s \in Stage :
        /\ ck.stage[s].status \in Interrupted => new.stage[s].status = "pending"
        /\ ck.stage[s].status \notin Interrupted => new.stage[s] = ck.stage[s]
        /\ new.stage[s].attempt = ck.stage[s].attempt
        /\ new.stage[s].failures = ck.stage[s].failures
  <2> SUFFICES ASSUME NEW s \in Stage
               PROVE  /\ ck.stage[s].status \in Interrupted => new.stage[s].status = "pending"
                      /\ ck.stage[s].status \notin Interrupted => new.stage[s] = ck.stage[s]
                      /\ new.stage[s].attempt = ck.stage[s].attempt
                      /\ new.stage[s].failures = ck.stage[s].failures
    OBVIOUS
  <2>1. CASE ck.stage[s].status \in Interrupted
    <3>1. new.stage[s] = ReopenedRecord(ck.stage[s]) /\ ck.stage[s] \in StageRecord
      BY <1>3, <2>1, RecordFields
    <3>2. QED
      BY <2>1, <3>1, ReopenedFields
  <2>2. CASE ck.stage[s].status \notin Interrupted
    BY <1>3, <2>2
  <2>3. QED
    BY <2>1, <2>2
<1>5. WithStatus(new, Interrupted) = {}
  BY <1>4 DEF WithStatus, Interrupted
<1>6. /\ WithStatus(new, TerminalSuccess) = WithStatus(ck, TerminalSuccess)
      /\ WithStatus(new, Unfinished) = WithStatus(ck, Unfinished)
      /\ WithStatus(new, {"succeeded"}) = WithStatus(ck, {"succeeded"})
  BY <1>4 DEF WithStatus, Interrupted, Unfinished, TerminalSuccess
<1>7. AllAccepted(new)
  <2> SUFFICES ASSUME NEW s \in Stage PROVE RecordAccepted(new.stage[s])
    BY DEF AllAccepted
  <2>1. RecordAccepted(ck.stage[s])
    BY DEF Sound, AllAccepted
  <2>2. CASE ck.stage[s].status \in Interrupted
    <3> DEFINE r == ck.stage[s]
    <3>1. new.stage[s] = ReopenedRecord(r) /\ r \in StageRecord
      BY <1>3, <2>2, RecordFields
    <3> HIDE DEF r
    <3>2. /\ ReopenedRecord(r).error = "none" /\ ReopenedRecord(r).provider = "none"
          /\ ReopenedRecord(r).status = "pending" /\ ReopenedRecord(r).recovered = FALSE
          /\ r.failures > 0 => ReopenedRecord(r).failures <= ReopenedRecord(r).attempt
      BY <2>1, <3>1, ReopenedFields DEF RecordAccepted, r
    <3>3. QED
      BY <3>1, <3>2, ReopenedFields DEF RecordAccepted
  <2>3. CASE ck.stage[s].status \notin Interrupted
    BY <1>4, <2>1, <2>3
  <2>4. QED
    BY <2>2, <2>3
<1>8. ResumeCovers(new)
  BY <1>1, <1>5, <1>6, PlanAssumption
     DEF Sound, ResumeCovers, Stage, NoStage, WithStatus, Interrupted
<1>9. DependenciesDone(new)
  BY <1>4, <1>6 DEF Sound, DependenciesDone, Unsatisfied
<1>10. Shape(new)
  BY <1>1, <1>4, <1>5, <1>6 DEF Sound, Shape, WithStatus, Interrupted
<1>11. Progress(ck, new)
  <2>1. Keeps(ck, new)
    BY <1>4, RecordFields DEF Keeps, Interrupted
  <2>2. Carries(ck, new)
    BY <1>1, <1>4 DEF Carries, WithStatus, Unfinished, Interrupted
  <2>3. QED
    BY <2>1, <2>2 DEF Progress
<1>12. QED
  BY <1>5, <1>7, <1>8, <1>9, <1>10, <1>11 DEF Sound, new

-----------------------------------------------------------------------------
(* Every record a step writes is one _load_checkpoint accepts. *)

LEMMA BegunAccepted ==
  ASSUME NEW r \in StageRecord, RecordAccepted(r)
  PROVE  /\ RecordAccepted(BegunRecord(r))
         /\ BegunRecord(r).status = "running" /\ BegunRecord(r).attempt > 0
         /\ BegunRecord(r).failures = r.failures
         /\ BegunRecord(r).failures < BegunRecord(r).attempt
<1>1. /\ BegunRecord(r).status = "running" /\ BegunRecord(r).attempt = r.attempt + 1
      /\ BegunRecord(r).failures = r.failures /\ BegunRecord(r).recovered = FALSE
      /\ BegunRecord(r).error = "none" /\ BegunRecord(r).provider = "none"
  BY DEF BegunRecord, StageRecord
<1>2. r.attempt \in Nat /\ r.failures \in Nat
  BY DEF StageRecord
<1>3. r.failures > 0 => r.failures <= r.attempt
  BY DEF RecordAccepted
<1>4. r.failures < r.attempt + 1
  BY <1>2, <1>3
<1>5. QED
  BY <1>1, <1>2, <1>4 DEF RecordAccepted

LEMMA SucceededAccepted ==
  ASSUME NEW r \in StageRecord, RecordAccepted(r), NEW out
  PROVE  /\ RecordAccepted(SucceededRecord(r, out))
         /\ SucceededRecord(r, out).status = "succeeded"
         /\ SucceededRecord(r, out).attempt = r.attempt
         /\ SucceededRecord(r, out).failures = r.failures
<1>1. /\ SucceededRecord(r, out).status = "succeeded"
      /\ SucceededRecord(r, out).attempt = r.attempt
      /\ SucceededRecord(r, out).failures = r.failures
      /\ SucceededRecord(r, out).recovered = (r.failures > 0)
      /\ SucceededRecord(r, out).error = "none" /\ SucceededRecord(r, out).provider = "none"
  BY DEF SucceededRecord, StageRecord
<1>2. QED
  BY <1>1 DEF RecordAccepted

\* A stage that is not succeeded has no recovered failure history.
LEMMA NotRecovered ==
  ASSUME NEW r \in StageRecord, RecordAccepted(r), r.status # "succeeded", r.failures > 0
  PROVE  r.recovered = FALSE
BY DEF RecordAccepted, StageRecord

LEMMA MissingOutputAccepted ==
  ASSUME NEW r \in StageRecord, RecordAccepted(r), r.status # "succeeded"
  PROVE  /\ RecordAccepted(MissingOutputRecord(r))
         /\ MissingOutputRecord(r).status = "failed"
         /\ MissingOutputRecord(r).attempt = r.attempt
         /\ MissingOutputRecord(r).failures = r.failures
<1>1. /\ MissingOutputRecord(r).status = "failed"
      /\ MissingOutputRecord(r).attempt = r.attempt
      /\ MissingOutputRecord(r).failures = r.failures
      /\ MissingOutputRecord(r).recovered = r.recovered
      /\ MissingOutputRecord(r).error = "missing_or_unsafe_output"
      /\ MissingOutputRecord(r).provider = "none"
  BY DEF MissingOutputRecord, StageRecord
<1>2. QED
  BY <1>1, NotRecovered DEF RecordAccepted

LEMMA FailedAccepted ==
  ASSUME NEW r \in StageRecord, RecordAccepted(r), r.status # "succeeded",
         r.failures < r.attempt, NEW e \in OptionalError
  PROVE  /\ RecordAccepted(FailedRecord(r, e))
         /\ FailedRecord(r, e).status = "failed"
         /\ FailedRecord(r, e).attempt = r.attempt
         /\ FailedRecord(r, e).failures >= r.failures
<1>1. r.attempt \in Nat /\ r.failures \in Nat
  BY DEF StageRecord
<1>2. CASE e = "none"
  <2>1. /\ FailedRecord(r, e).status = "failed"
        /\ FailedRecord(r, e).attempt = r.attempt
        /\ FailedRecord(r, e).failures = r.failures
        /\ FailedRecord(r, e).recovered = r.recovered
        /\ FailedRecord(r, e).error = "stage_exit"
        /\ FailedRecord(r, e).provider = "none"
    BY <1>2 DEF FailedRecord, StageRecord
  <2>2. QED
    BY <1>1, <2>1, NotRecovered DEF RecordAccepted
<1>3. CASE e # "none"
  <2>1. /\ FailedRecord(r, e).status = "failed"
        /\ FailedRecord(r, e).attempt = r.attempt
        /\ FailedRecord(r, e).failures = r.failures + 1
        /\ FailedRecord(r, e).recovered = FALSE
        /\ FailedRecord(r, e).lastError = e
        /\ FailedRecord(r, e).error = "provider_error"
        /\ FailedRecord(r, e).provider = e
    BY <1>3 DEF FailedRecord, StageRecord
  <2>2. r.failures + 1 > 0 /\ r.failures + 1 <= r.attempt
    BY <1>1
  <2>3. QED
    BY <1>1, <1>3, <2>1, <2>2 DEF RecordAccepted
<1>4. QED
  BY <1>2, <1>3

LEMMA InterruptedAccepted ==
  ASSUME NEW r \in StageRecord, RecordAccepted(r), r.status # "succeeded"
  PROVE  /\ RecordAccepted(InterruptedRecord(r))
         /\ InterruptedRecord(r).status = "pending"
         /\ InterruptedRecord(r).attempt = r.attempt
         /\ InterruptedRecord(r).failures = r.failures
<1>1. /\ InterruptedRecord(r).status = "pending"
      /\ InterruptedRecord(r).attempt = r.attempt
      /\ InterruptedRecord(r).failures = r.failures
      /\ InterruptedRecord(r).recovered = r.recovered
      /\ InterruptedRecord(r).error = "interrupted"
      /\ InterruptedRecord(r).provider = "none"
  BY DEF InterruptedRecord, StageRecord
<1>2. QED
  BY <1>1, NotRecovered DEF RecordAccepted

LEMMA BlockedAccepted ==
  ASSUME NEW r \in StageRecord, RecordAccepted(r), r.status = "pending"
  PROVE  /\ RecordAccepted(BlockedRecord(r))
         /\ BlockedRecord(r).status = "blocked_dependency"
         /\ BlockedRecord(r).attempt = r.attempt
         /\ BlockedRecord(r).failures = r.failures
<1>1. /\ BlockedRecord(r).status = "blocked_dependency"
      /\ BlockedRecord(r).attempt = r.attempt
      /\ BlockedRecord(r).failures = r.failures
      /\ BlockedRecord(r).recovered = r.recovered
      /\ BlockedRecord(r).lastError = r.lastError
      /\ BlockedRecord(r).error = r.error
      /\ BlockedRecord(r).provider = r.provider
  BY DEF BlockedRecord, StageRecord
<1>2. r.provider = "none"
  BY DEF RecordAccepted
<1>3. QED
  BY <1>1, <1>2, NotRecovered DEF RecordAccepted

-----------------------------------------------------------------------------
(* Every checkpoint a step saves is sound and keeps what was achieved. *)

\* The execution stops at, or goes on with, stage s; later pending stages may
\* become blocked.
LEMMA StopSound ==
  ASSUME NEW ck \in Checkpoint, NEW new \in Checkpoint, NEW s \in Stage,
         Sound(ck), ck.status = "running", s \in WithStatus(ck, Unfinished),
         WithStatus(ck, Interrupted) \subseteq {s},
         new.status \in WorkflowStatus \ {"succeeded"}, new.resume = s,
         new.stage[s].status \in Unfinished, RecordAccepted(new.stage[s]),
         new.stage[s].failures >= ck.stage[s].failures,
         new.stage[s].attempt > 0 => Unsatisfied(ck, s) = {},
         new.stage[s].status \in {"running", "failed"} => new.stage[s].attempt > 0,
         new.stage[s].status = "running" => new.stage[s].failures < new.stage[s].attempt,
         \A t \in Stage \ {s} :
           \/ new.stage[t] = ck.stage[t]
           \/ /\ new.status # "running" /\ t >= s /\ ck.stage[t].status = "pending"
              /\ new.stage[t] = BlockedRecord(ck.stage[t]),
         new.status = "running" => new.stage[s].status = "running"
  PROVE  Sound(new) /\ Progress(ck, new)
<1>0. s # NoStage /\ s \in Nat
  BY PlanAssumption DEF Stage, NoStage
<1>1. \A t \in Stage : RecordAccepted(ck.stage[t]) /\ ck.stage[t] \in StageRecord
  BY RecordFields DEF Sound, AllAccepted
<1>2. \A t \in Stage \ {s} :
        \/ new.stage[t] = ck.stage[t]
        \/ /\ new.status # "running" /\ t >= s
           /\ ck.stage[t].status = "pending" /\ new.stage[t].status = "blocked_dependency"
           /\ new.stage[t].attempt = ck.stage[t].attempt
           /\ new.stage[t].failures = ck.stage[t].failures
           /\ RecordAccepted(new.stage[t])
  BY <1>1, BlockedAccepted
<1>3. AllAccepted(new)
  BY <1>1, <1>2 DEF AllAccepted
<1>4. \A t \in Stage \ {s} : ck.stage[t].status \notin Interrupted
  BY StatusMember
<1>5. ck.stage[s].status \in Unfinished
  BY StatusMember
<1>6. \A t \in Stage : new.stage[t].status \in Interrupted => t >= s
  BY <1>0, <1>2, <1>4
<1>7. \A t \in Stage \ {s} : new.stage[t].status \notin {"running", "failed"}
  BY <1>2, <1>4 DEF Interrupted
<1>8. ResumeCovers(new)
  BY <1>0, <1>6, <1>7 DEF ResumeCovers, WithStatus
<1>9. WithStatus(ck, TerminalSuccess) \subseteq WithStatus(new, TerminalSuccess)
  BY <1>2, <1>5 DEF WithStatus, TerminalSuccess, Unfinished, Interrupted
<1>10. DependenciesDone(new)
  <2> SUFFICES ASSUME NEW t \in Stage, new.stage[t].attempt > 0
               PROVE  Unsatisfied(ck, t) = {}
    BY <1>9, DependenciesKept DEF DependenciesDone
  <2>1. QED
    BY <1>2 DEF Sound, DependenciesDone
<1>11. \A t \in Stage : new.stage[t].status \in {"running", "failed", "succeeded"}
                            => new.stage[t].attempt > 0
  <2>1. \A t \in Stage : ck.stage[t].status \in {"running", "failed", "succeeded"}
                            => ck.stage[t].attempt > 0
    BY DEF Sound, Shape, WithStatus
  <2>2. QED
    BY <1>2, <2>1 DEF Unfinished, Interrupted
<1>12. \A t \in Stage : new.stage[t].status = "running"
                            => new.stage[t].failures < new.stage[t].attempt
  BY <1>7
<1>13. new.status = "running" => \A t \in Stage : new.stage[t].status \in Interrupted
                                                 => new.stage[t].status = "running"
  BY <1>2, <1>4
<1>14. Shape(new)
  BY <1>11, <1>12, <1>13 DEF Shape, WithStatus
<1>15. Progress(ck, new)
  <2>1. Keeps(ck, new)
    BY <1>2, <1>5, RecordFields DEF Keeps, Unfinished, Interrupted
  <2>2. new.status # "none"
    BY DEF WorkflowStatus
  <2>3. \A t \in Stage : /\ ck.stage[t].status \notin Unfinished => new.stage[t] = ck.stage[t]
                         /\ ck.stage[t].status \in Unfinished => new.stage[t].status \in Unfinished
    BY <1>2, <1>5 DEF Unfinished, Interrupted
  <2>4. "succeeded" \notin Unfinished
    BY DEF Unfinished, Interrupted
  <2>5. Carries(ck, new)
    BY <2>2, <2>3, <2>4 DEF Carries, WithStatus
  <2>6. QED
    BY <2>1, <2>5 DEF Progress
<1>16. QED
  BY <1>3, <1>8, <1>10, <1>14, <1>15 DEF Sound

\* No stage is interrupted; the next one, if there is one, is resumed.
LEMMA AdvanceSound ==
  ASSUME NEW ck \in Checkpoint, NEW new \in Checkpoint, NEW s \in Stage,
         Sound(ck), ck.status = "running", new.status # "none",
         WithStatus(new, Interrupted) = {},
         new.resume = ResumePoint(WithStatus(new, Unfinished)),
         new.status = "succeeded" => WithStatus(new, Unfinished) = {},
         \A t \in Stage \ {s} : new.stage[t] = ck.stage[t],
         \/ new.stage[s] = ck.stage[s]
         \/ /\ ck.stage[s].status = "running" /\ new.stage[s].status = "succeeded"
            /\ new.stage[s].attempt = ck.stage[s].attempt
            /\ new.stage[s].failures = ck.stage[s].failures
            /\ RecordAccepted(new.stage[s])
            /\ Unsatisfied(ck, s) = {} /\ new.status # "succeeded"
  PROVE  Sound(new) /\ Progress(ck, new)
<1>1. AllAccepted(new)
  BY DEF Sound, AllAccepted
<1>2. \A t \in Stage : new.stage[t].status \notin Interrupted
  BY StatusMember
<1>3. WithStatus(new, Unfinished) \in SUBSET Stage /\ NoStage \notin Stage
  BY PlanAssumption DEF WithStatus, Stage, NoStage
<1>4. ResumeCovers(new)
  BY <1>2, <1>3, ResumePointProperties DEF ResumeCovers, WithStatus, Interrupted
<1>5. WithStatus(ck, TerminalSuccess) \subseteq WithStatus(new, TerminalSuccess)
  BY DEF WithStatus, TerminalSuccess
<1>6. DependenciesDone(new)
  <2> SUFFICES ASSUME NEW t \in Stage, new.stage[t].attempt > 0
               PROVE  Unsatisfied(ck, t) = {}
    BY <1>5, DependenciesKept DEF DependenciesDone
  <2>1. QED
    BY DEF Sound, DependenciesDone
<1>7. \A t \in Stage : ck.stage[t].status \in {"running", "failed", "succeeded"}
                            => ck.stage[t].attempt > 0
  BY DEF Sound, Shape, WithStatus
<1>8. \A t \in Stage : new.stage[t].status \in {"running", "failed", "succeeded"}
                            => new.stage[t].attempt > 0
  BY <1>7
<1>9. Shape(new)
  BY <1>2, <1>8 DEF Shape, WithStatus, Interrupted
<1>10. Progress(ck, new)
  <2>1. Keeps(ck, new)
    BY RecordFields DEF Keeps
  <2>2. "succeeded" \notin Unfinished /\ "running" \in Unfinished
    BY DEF Unfinished, Interrupted
  <2>3. Carries(ck, new)
    BY <2>2 DEF Carries, WithStatus
  <2>4. QED
    BY <2>1, <2>3 DEF Progress
<1>11. QED
  BY <1>1, <1>4, <1>6, <1>9, <1>10 DEF Sound

-----------------------------------------------------------------------------
(* The steps preserve the invariant. *)

CoreInv == ExclusiveCheckpoint /\ DiskInv /\ ControlInv /\ ReportNeverAhead

\* What every step establishes.
CoreStep == CoreInv' /\ Progress(disk, disk')

LEMMA ProgressReflexive ==
  ASSUME NEW ck \in Checkpoint PROVE Progress(ck, ck)
<1>1. "succeeded" \notin Unfinished
  BY DEF Unfinished, Interrupted
<1>2. QED
  BY <1>1, RecordFields DEF Progress, Keeps, Carries, WithStatus

\* An invocation that holds the lock saves a sound checkpoint.
LEMMA SaveStep ==
  ASSUME TypeOK, TypeOK', CoreInv, NEW p \in Procs, pc[p] \in Holding,
         NEW ck \in Checkpoint, Save(p, ck), UNCHANGED <<report, lock>>,
         ck.status # "none", Sound(ck), Progress(disk, ck)
  PROVE  CoreStep
<1> USE DEF CoreInv
<1>1. /\ disk' = ck /\ mem'[p] = ck /\ pc'[p] = "report"
      /\ \A q \in Procs \ {p} : mem'[q] = mem[q] /\ pc'[q] = pc[q] /\ pc[q] \notin Holding
  BY DEF Save, Goto, TypeOK, ExclusiveCheckpoint
<1>2. lock
  BY DEF ExclusiveCheckpoint
<1>3. \A q \in Procs \ {p} : pc'[q] \notin {"report", "loop", "gated", "running"}
  BY <1>1 DEF Holding, PC, TypeOK
<1>4. ExclusiveCheckpoint'
  BY <1>1, <1>2, <1>3 DEF ExclusiveCheckpoint, Working
<1>5. DiskInv'
  BY <1>1 DEF DiskInv
<1>6. ControlInv'
  BY <1>1, <1>3 DEF ControlInv, Working
<1>7. ReportNeverAhead'
  <2> SUFFICES ASSUME NEW s \in Stage, report.stage[s].status = "succeeded"
               PROVE  ck.stage[s] = report.stage[s]
    BY <1>1 DEF ReportNeverAhead, WithStatus
  <2>1. disk.stage[s] = report.stage[s]
    BY DEF ReportNeverAhead, WithStatus
  <2>2. QED
    BY <2>1 DEF Progress, Keeps
<1>8. QED
  BY <1>1, <1>4, <1>5, <1>6, <1>7 DEF CoreStep

\* At the head of the loop no stage is interrupted.
LEMMA LoopState ==
  ASSUME TypeOK, CoreInv, NEW p \in Procs, pc[p] \in {"loop", "gated"}
  PROVE  /\ pc[p] \in Holding /\ mem[p] = disk /\ disk \in Checkpoint
         /\ disk.status = "running" /\ Sound(disk)
         /\ WithStatus(disk, Interrupted) = {}
<1>1. pc[p] \in Holding /\ pc[p] \in Working
  BY DEF Holding, PC, Working
<1>2. mem[p] = disk /\ disk \in Checkpoint /\ disk.status = "running"
  BY <1>1 DEF CoreInv, ExclusiveCheckpoint, ControlInv, TypeOK
<1>3. Sound(disk)
  BY <1>2 DEF CoreInv, DiskInv
<1>4. WithStatus(disk, {"running"}) = {}
  BY DEF CoreInv, ControlInv
<1>5. WithStatus(disk, Interrupted) = {}
  BY <1>2, <1>3, <1>4 DEF Sound, Shape
<1>6. QED
  BY <1>1, <1>2, <1>3, <1>5

\* While a command runs, its stage is the only interrupted one.
LEMMA CommandState ==
  ASSUME TypeOK, CoreInv, NEW p \in Procs, NEW s \in Stage, RunningStage(p, s)
  PROVE  /\ pc[p] \in Holding /\ mem[p] = disk /\ disk \in Checkpoint
         /\ disk.status = "running" /\ Sound(disk) /\ disk.resume = s
         /\ WithStatus(disk, Interrupted) = {s}
         /\ disk.stage[s] \in StageRecord /\ RecordAccepted(disk.stage[s])
         /\ disk.stage[s].status = "running"
         /\ disk.stage[s].attempt > 0 /\ disk.stage[s].failures < disk.stage[s].attempt
         /\ Unsatisfied(disk, s) = {}
<1>1. pc[p] \in Holding /\ pc[p] \in Working
  BY DEF RunningStage, Holding, PC, Working
<1>2. mem[p] = disk /\ disk \in Checkpoint /\ disk.status = "running" /\ disk.resume = s
      /\ s \in WithStatus(disk, {"running"})
  BY <1>1 DEF RunningStage, CoreInv, ExclusiveCheckpoint, ControlInv, TypeOK
<1>3. Sound(disk)
  BY <1>2 DEF CoreInv, DiskInv
<1>4. WithStatus(disk, Interrupted) = {s}
  BY <1>2, <1>3 DEF Sound, Shape, ResumeCovers, WithStatus, Interrupted
<1>5. /\ disk.stage[s].status = "running"
      /\ disk.stage[s].attempt > 0 /\ disk.stage[s].failures < disk.stage[s].attempt
  BY <1>2, <1>3 DEF Sound, Shape, WithStatus
<1>6. RecordAccepted(disk.stage[s]) /\ Unsatisfied(disk, s) = {}
  BY <1>3, <1>5 DEF Sound, AllAccepted, DependenciesDone
<1>7. QED
  BY <1>1, <1>2, <1>3, <1>4, <1>5, <1>6, RecordFields

\* The next stage of the loop is pending.
LEMMA NextPending ==
  ASSUME NEW p \in Procs, NEW s \in Stage, IsNext(p, s)
  PROVE  mem[p].stage[s].status = "pending" /\ s \in WithStatus(mem[p], Unfinished)
BY DEF IsNext, Todo, WithStatus, Unfinished

LEMMA StoppedPut ==
  ASSUME NEW ck \in Checkpoint, NEW s \in Stage, NEW r \in StageRecord,
         NEW status \in WorkflowStatus
  PROVE  LET new == StopAt(Put(ck, s, r), status, s) IN
         /\ new \in Checkpoint /\ new.status = status /\ new.resume = s
         /\ new.stage[s] = r
         /\ \A t \in Stage \ {s} : new.stage[t] = ck.stage[t]
<1> DEFINE mid == Put(ck, s, r)
<1>1. /\ mid \in Checkpoint /\ mid.stage[s] = r
      /\ \A t \in Stage \ {s} : mid.stage[t] = ck.stage[t]
  BY PutType
<1> HIDE DEF mid
<1>2. /\ StopAt(mid, status, s) \in Checkpoint /\ StopAt(mid, status, s).status = status
      /\ StopAt(mid, status, s).resume = s /\ StopAt(mid, status, s).stage = mid.stage
  BY <1>1, StopAtType
<1>3. QED
  BY <1>1, <1>2 DEF mid

\* Stopping at the next stage without touching any record.
LEMMA StopCore ==
  ASSUME TypeOK, TypeOK', CoreInv, NEW p \in Procs, NEW s \in Stage,
         pc[p] \in {"loop", "gated"}, IsNext(p, s),
         NEW status \in {"paused", "blocked"},
         Save(p, StopAt(mem[p], status, s)), UNCHANGED <<report, lock>>
  PROVE  CoreStep
<1> DEFINE new == StopAt(mem[p], status, s)
<1>1. /\ pc[p] \in Holding /\ mem[p] = disk /\ disk \in Checkpoint /\ Sound(disk)
      /\ disk.status = "running" /\ WithStatus(disk, Interrupted) = {}
  BY LoopState
<1>2. disk.stage[s].status = "pending" /\ s \in WithStatus(disk, Unfinished)
  BY <1>1, NextPending
<1>3. /\ new \in Checkpoint /\ new.status = status /\ new.resume = s
      /\ new.stage = disk.stage
  <2>1. status \in WorkflowStatus \cup {"none"}
    BY DEF WorkflowStatus
  <2>2. QED
    BY <1>1, <2>1, StopAtType
<1> HIDE DEF new
<1>4. RecordAccepted(disk.stage[s]) /\ disk.stage[s].failures \in Nat
      /\ (disk.stage[s].attempt > 0 => Unsatisfied(disk, s) = {})
  BY <1>1, RecordFields DEF Sound, AllAccepted, DependenciesDone
<1>5. new.stage[s].failures >= disk.stage[s].failures
  BY <1>3, <1>4
<1>6. new.stage[s].status \in Unfinished
  BY <1>2, <1>3 DEF Unfinished
<1>7. Sound(new) /\ Progress(disk, new)
  <2>1. new.status \in WorkflowStatus \ {"succeeded"} /\ new.status # "running"
    BY <1>3 DEF WorkflowStatus
  <2>2. RecordAccepted(new.stage[s]) /\ new.stage[s].status = "pending"
        /\ (new.stage[s].attempt > 0 => Unsatisfied(disk, s) = {})
    BY <1>2, <1>3, <1>4
  <2>3. \A t \in Stage \ {s} : new.stage[t] = disk.stage[t]
    BY <1>3
  <2>4. QED
    BY <1>1, <1>2, <1>3, <1>5, <1>6, <2>1, <2>2, <2>3, StopSound
<1>8. Save(p, new)
  BY DEF new
<1>9. new.status # "none"
  BY <1>3
<1>10. QED
  BY <1>1, <1>3, <1>7, <1>8, <1>9, SaveStep

LEMMA LoopStep ==
  ASSUME TypeOK, TypeOK', CoreInv, NEW p \in Procs, NEW s \in Stage
  PROVE  /\ GateOpen(p, s) => CoreStep
         /\ GateClosed(p, s) => CoreStep
         /\ StopOnChangedCommand(p, s) => CoreStep
         /\ StopOnDependency(p, s) => CoreStep
         /\ StopOnStaleInput(p, s) => CoreStep
         /\ BeginStage(p, s) => CoreStep
<1>1. ASSUME GateOpen(p, s) PROVE CoreStep
  <2>1. /\ pc'[p] = "gated" /\ \A q \in Procs \ {p} : pc'[q] = pc[q]
        /\ UNCHANGED <<disk, report, lock, mem>>
    BY <1>1 DEF GateOpen, Goto, TypeOK, store
  <2>2. pc[p] = "loop"
    BY <1>1 DEF GateOpen
  <2>3. Progress(disk, disk')
    BY <2>1, ProgressReflexive DEF TypeOK
  <2>4. DiskInv' /\ ReportNeverAhead'
    BY <2>1 DEF CoreInv, DiskInv, ReportNeverAhead, WithStatus
  <2>5. ControlInv'
    BY <2>1, <2>2 DEF CoreInv, ControlInv, WithStatus, Working
  <2>6. ExclusiveCheckpoint'
    BY <2>1, <2>2 DEF CoreInv, ExclusiveCheckpoint, Holding, PC, Working
  <2>7. QED
    BY <2>3, <2>4, <2>5, <2>6 DEF CoreStep, CoreInv
<1>2. ASSUME GateClosed(p, s) PROVE CoreStep
  <2> DEFINE status == IF runState = "paused" THEN "paused" ELSE "blocked"
  <2>1. status \in {"paused", "blocked"}
    OBVIOUS
  <2>2. /\ pc[p] = "loop" /\ IsNext(p, s) /\ UNCHANGED <<report, lock>>
        /\ Save(p, StopAt(mem[p], status, s))
    BY <1>2 DEF GateClosed
  <2> HIDE DEF status
  <2>3. QED
    BY <2>1, <2>2, StopCore
<1>3. ASSUME StopOnChangedCommand(p, s) \/ StopOnStaleInput(p, s) PROVE CoreStep
  BY <1>3, StopCore DEF StopOnChangedCommand, StopOnStaleInput
<1>4. ASSUME NEW r \in StageRecord, NEW status \in {"blocked", "running"},
             pc[p] = "gated", IsNext(p, s), UNCHANGED <<report, lock>>,
             Save(p, StopAt(Put(mem[p], s, r), status, s)),
             RecordAccepted(r), r.status \in Unfinished,
             r.failures = mem[p].stage[s].failures,
             r.attempt > 0 => Unsatisfied(mem[p], s) = {},
             r.status \in {"running", "failed"} => r.attempt > 0,
             r.status = "running" => r.failures < r.attempt,
             status = "running" => r.status = "running"
      PROVE  CoreStep
  <2> DEFINE new == StopAt(Put(mem[p], s, r), status, s)
  <2>1. /\ pc[p] \in Holding /\ mem[p] = disk /\ disk \in Checkpoint /\ Sound(disk)
        /\ disk.status = "running" /\ WithStatus(disk, Interrupted) = {}
    BY <1>4, LoopState
  <2>2. disk.stage[s].status = "pending" /\ s \in WithStatus(disk, Unfinished)
    BY <1>4, <2>1, NextPending
  <2>3. /\ new \in Checkpoint /\ new.status = status /\ new.resume = s
        /\ new.stage[s] = r
        /\ \A t \in Stage \ {s} : new.stage[t] = disk.stage[t]
    <3>1. status \in WorkflowStatus
      BY DEF WorkflowStatus
    <3>2. QED
      BY <1>4, <2>1, <3>1, StoppedPut
  <2> HIDE DEF new
  <2>4. disk.stage[s].failures \in Nat
    BY <2>1, RecordFields
  <2>5. new.stage[s].failures >= disk.stage[s].failures
    BY <1>4, <2>1, <2>3, <2>4
  <2>6. Sound(new) /\ Progress(disk, new)
    BY <1>4, <2>1, <2>2, <2>3, <2>5, StopSound DEF WorkflowStatus
  <2>7. Save(p, new)
    BY <1>4 DEF new
  <2>8. new.status # "none"
    BY <2>3
  <2>9. QED
    BY <1>4, <2>1, <2>3, <2>6, <2>7, <2>8, SaveStep
<1>5. ASSUME pc[p] = "gated", IsNext(p, s)
      PROVE  /\ mem[p].stage[s] \in StageRecord /\ RecordAccepted(mem[p].stage[s])
             /\ mem[p].stage[s].status = "pending"
             /\ mem[p].stage[s].attempt > 0 => Unsatisfied(mem[p], s) = {}
  BY <1>5, LoopState, NextPending, RecordFields DEF Sound, AllAccepted, DependenciesDone
<1>6. ASSUME StopOnDependency(p, s) PROVE CoreStep
  <2> DEFINE r == BlockedRecord(mem[p].stage[s])
  <2>1. /\ pc[p] = "gated" /\ IsNext(p, s) /\ UNCHANGED <<report, lock>>
        /\ Save(p, StopAt(Put(mem[p], s, r), "blocked", s))
    BY <1>6 DEF StopOnDependency
  <2>2. /\ r \in StageRecord /\ RecordAccepted(r) /\ r.status = "blocked_dependency"
        /\ r.failures = mem[p].stage[s].failures
        /\ r.attempt > 0 => Unsatisfied(mem[p], s) = {}
    BY <1>5, <2>1, RecordTypes, BlockedAccepted
  <2> HIDE DEF r
  <2>3. r.status \in Unfinished
    BY <2>2 DEF Unfinished, Interrupted
  <2>4. QED
    BY <1>4, <2>1, <2>2, <2>3
<1>7. ASSUME BeginStage(p, s) PROVE CoreStep
  <2> DEFINE r == BegunRecord(mem[p].stage[s])
  <2>1. /\ pc[p] = "gated" /\ IsNext(p, s) /\ UNCHANGED <<report, lock>>
        /\ Save(p, StopAt(Put(mem[p], s, r), "running", s))
        /\ Unsatisfied(mem[p], s) = {}
    BY <1>7 DEF BeginStage
  <2>2. /\ r \in StageRecord /\ RecordAccepted(r) /\ r.status = "running"
        /\ r.failures = mem[p].stage[s].failures /\ r.attempt > 0
        /\ r.failures < r.attempt
    BY <1>5, <2>1, RecordTypes, BegunAccepted
  <2> HIDE DEF r
  <2>3. r.status \in Unfinished
    BY <2>2 DEF Unfinished, Interrupted
  <2>4. QED
    BY <1>4, <2>1, <2>2, <2>3
<1>8. QED
  BY <1>1, <1>2, <1>3, <1>6, <1>7

\* The command of the current stage ends without success.
LEMMA UnsuccessfulExit ==
  ASSUME TypeOK, TypeOK', CoreInv, NEW p \in Procs, NEW s \in Stage, RunningStage(p, s),
         NEW new \in Checkpoint, Save(p, new), UNCHANGED <<report, lock>>,
         new.status \in {"paused", "blocked"}, new.resume = s,
         RecordAccepted(new.stage[s]), new.stage[s].status \in {"pending", "failed"},
         new.stage[s].attempt = disk.stage[s].attempt,
         new.stage[s].failures >= disk.stage[s].failures,
         \A t \in Stage \ {s} :
           \/ new.stage[t] = disk.stage[t]
           \/ /\ t >= s /\ disk.stage[t].status = "pending"
              /\ new.stage[t] = BlockedRecord(disk.stage[t])
  PROVE  CoreStep
<1>1. /\ pc[p] \in Holding /\ disk \in Checkpoint /\ Sound(disk)
      /\ disk.status = "running"
      /\ WithStatus(disk, Interrupted) = {s} /\ disk.stage[s].status = "running"
      /\ disk.stage[s].attempt > 0 /\ Unsatisfied(disk, s) = {}
  BY CommandState
<1>2. s \in WithStatus(disk, Unfinished) /\ WithStatus(disk, Interrupted) \subseteq {s}
  BY <1>1 DEF WithStatus, Unfinished, Interrupted
<1>3. /\ new.status \in WorkflowStatus \ {"succeeded"} /\ new.status # "running"
      /\ new.status # "none" /\ new.stage[s].status \in Unfinished
      /\ new.stage[s].status # "running" /\ new.stage[s].attempt > 0
  BY <1>1 DEF WorkflowStatus, Unfinished, Interrupted
<1>4. Sound(new) /\ Progress(disk, new)
  BY <1>1, <1>2, <1>3, StopSound
<1>5. QED
  BY <1>1, <1>3, <1>4, SaveStep

LEMMA ExitStep ==
  ASSUME TypeOK, TypeOK', CoreInv, NEW p \in Procs, NEW s \in Stage, StageExits(p, s)
  PROVE  CoreStep
<1> DEFINE r == disk.stage[s]
<1>1. RunningStage(p, s)
  BY DEF StageExits, StageSucceeds, StageMissesOutput, StageFails, StageInterrupted
<1>2. /\ pc[p] \in Holding /\ mem[p] = disk /\ disk \in Checkpoint
      /\ Sound(disk) /\ WithStatus(disk, Interrupted) = {s}
      /\ disk.status = "running"
      /\ r \in StageRecord /\ RecordAccepted(r) /\ r.status = "running"
      /\ r.failures < r.attempt /\ r.failures \in Nat
      /\ Unsatisfied(disk, s) = {}
  BY <1>1, CommandState, RecordFields
<1>3. CASE StageSucceeds(p, s)
  <2> DEFINE out == files[s]
             ck == Put(disk, s, SucceededRecord(r, out))
             new == StopAt(ck, ck.status, ResumePoint(WithStatus(ck, Unfinished)))
  <2>1. Save(p, new) /\ UNCHANGED <<report, lock>>
    BY <1>2, <1>3 DEF StageSucceeds
  <2>2. SucceededRecord(r, out) \in StageRecord
    BY <1>2, RecordTypes DEF TypeOK
  <2>3. /\ RecordAccepted(SucceededRecord(r, out))
        /\ SucceededRecord(r, out).status = "succeeded"
        /\ SucceededRecord(r, out).attempt = r.attempt
        /\ SucceededRecord(r, out).failures = r.failures
    BY <1>2, SucceededAccepted
  <2>4. /\ ck \in Checkpoint /\ ck.status = "running"
        /\ ck.stage[s] = SucceededRecord(r, out)
        /\ \A t \in Stage \ {s} : ck.stage[t] = disk.stage[t]
    BY <1>2, <2>2, PutType
  <2> HIDE DEF ck
  <2>5. WithStatus(ck, Unfinished) \in SUBSET Stage
    BY DEF WithStatus
  <2>6. ResumePoint(WithStatus(ck, Unfinished)) \in Stage \cup {NoStage}
    BY <2>5, ResumePointProperties
  <2>7. /\ new \in Checkpoint /\ new.status = "running" /\ new.stage = ck.stage
        /\ new.resume = ResumePoint(WithStatus(ck, Unfinished))
    <3>1. ck.status \in WorkflowStatus \cup {"none"}
      BY <2>4 DEF WorkflowStatus
    <3>2. QED
      BY <2>4, <2>6, <3>1, StopAtType
  <2> HIDE DEF new
  <2>8. WithStatus(new, Unfinished) = WithStatus(ck, Unfinished)
    BY <2>7 DEF WithStatus
  <2>9. WithStatus(new, Interrupted) = {}
    BY <1>2, <2>3, <2>4, <2>7 DEF WithStatus, Interrupted
  <2>10. Sound(new) /\ Progress(disk, new)
    <3> HIDE DEF r
    <3>1. /\ new.resume = ResumePoint(WithStatus(new, Unfinished))
          /\ new.status # "succeeded"
          /\ \A t \in Stage \ {s} : new.stage[t] = disk.stage[t]
      BY <2>4, <2>7, <2>8
    <3>2. /\ disk.stage[s].status = "running" /\ new.stage[s].status = "succeeded"
          /\ new.stage[s].attempt = disk.stage[s].attempt
          /\ new.stage[s].failures = disk.stage[s].failures
          /\ RecordAccepted(new.stage[s])
          /\ Unsatisfied(disk, s) = {} /\ new.status # "succeeded" /\ new.status # "none"
      BY <1>2, <2>3, <2>4, <2>7 DEF r
    <3>3. QED
      BY <1>2, <2>7, <2>9, <3>1, <3>2, AdvanceSound
  <2>11. QED
    BY <1>2, <2>1, <2>7, <2>10, SaveStep
<1>4. ASSUME NEW r2 \in StageRecord, NEW status \in {"paused", "blocked"},
             Save(p, StopAt(Put(mem[p], s, r2), status, s)), UNCHANGED <<report, lock>>,
             RecordAccepted(r2), r2.status \in {"pending", "failed"},
             r2.attempt = r.attempt, r2.failures = r.failures
      PROVE  CoreStep
  <2> DEFINE new == StopAt(Put(disk, s, r2), status, s)
  <2>1. /\ new \in Checkpoint /\ new.status = status /\ new.resume = s
        /\ new.stage[s] = r2
        /\ \A t \in Stage \ {s} : new.stage[t] = disk.stage[t]
    <3>1. status \in WorkflowStatus
      BY DEF WorkflowStatus
    <3>2. QED
      BY <1>2, <3>1, StoppedPut
  <2>2. Save(p, new)
    BY <1>2, <1>4
  <2> HIDE DEF new
  <2>3. new.stage[s].failures >= disk.stage[s].failures
    BY <1>2, <1>4, <2>1
  <2>4. QED
    BY <1>1, <1>4, <2>1, <2>2, <2>3, UnsuccessfulExit
<1>5. CASE StageMissesOutput(p, s)
  <2> DEFINE r2 == MissingOutputRecord(r)
  <2>1. /\ r2 \in StageRecord /\ RecordAccepted(r2) /\ r2.status = "failed"
        /\ r2.attempt = r.attempt /\ r2.failures = r.failures
    BY <1>2, RecordTypes, MissingOutputAccepted
  <2>2. Save(p, StopAt(Put(mem[p], s, r2), "blocked", s)) /\ UNCHANGED <<report, lock>>
    BY <1>2, <1>5 DEF StageMissesOutput
  <2> HIDE DEF r2
  <2>3. QED
    BY <1>4, <2>1, <2>2
<1>6. CASE StageInterrupted(p, s)
  <2> DEFINE r2 == InterruptedRecord(r)
  <2>1. /\ r2 \in StageRecord /\ RecordAccepted(r2) /\ r2.status = "pending"
        /\ r2.attempt = r.attempt /\ r2.failures = r.failures
    BY <1>2, RecordTypes, InterruptedAccepted
  <2>2. Save(p, StopAt(Put(mem[p], s, r2), "paused", s)) /\ UNCHANGED <<report, lock>>
    BY <1>2, <1>6 DEF StageInterrupted
  <2> HIDE DEF r2
  <2>3. QED
    BY <1>4, <2>1, <2>2
<1>7. ASSUME NEW e \in OptionalError, StageFails(p, s, e) PROVE CoreStep
  <2> DEFINE r2 == FailedRecord(r, e)
             mid == Put(disk, s, r2)
             new == StopAt(WithBlocked(mid, s), "blocked", s)
  <2>1. Save(p, new) /\ UNCHANGED <<report, lock>>
    BY <1>2, <1>7 DEF StageFails
  <2>2. /\ r2 \in StageRecord /\ RecordAccepted(r2) /\ r2.status = "failed"
        /\ r2.attempt = r.attempt /\ r2.failures >= r.failures
    BY <1>2, RecordTypes, FailedAccepted
  <2> HIDE DEF r2
  <2>3. /\ mid \in Checkpoint /\ mid.stage[s] = r2
        /\ \A t \in Stage \ {s} : mid.stage[t] = disk.stage[t]
    BY <1>2, <2>2, PutType
  <2> HIDE DEF mid
  <2>4. /\ WithBlocked(mid, s) \in Checkpoint
        /\ \A t \in Stage : WithBlocked(mid, s).stage[t] =
             IF mid.stage[t].status = "pending" /\ s \in DependsOn[t]
             THEN BlockedRecord(mid.stage[t]) ELSE mid.stage[t]
    BY <2>3, WithBlockedType
  <2>5. /\ new \in Checkpoint /\ new.status = "blocked" /\ new.resume = s
        /\ new.stage = WithBlocked(mid, s).stage
    BY <2>4, StopAtType DEF WorkflowStatus
  <2> HIDE DEF new
  <2>6. \A t \in Stage : s \in DependsOn[t] => t >= s
    BY PlanAssumption DEF Stage
  <2>7. new.stage[s] = r2
    BY <2>2, <2>3, <2>4, <2>5
  <2>8. \A t \in Stage \ {s} :
          \/ new.stage[t] = disk.stage[t]
          \/ /\ t >= s /\ disk.stage[t].status = "pending"
             /\ new.stage[t] = BlockedRecord(disk.stage[t])
    BY <2>3, <2>4, <2>5, <2>6
  <2>9. QED
    BY <1>1, <2>1, <2>2, <2>5, <2>7, <2>8, UnsuccessfulExit
<1>8. QED
  BY <1>3, <1>5, <1>6, <1>7 DEF StageExits

LEMMA OpenStep ==
  ASSUME TypeOK, TypeOK', CoreInv, NEW p \in Procs
  PROVE  /\ \A from, until \in Stage \cup {NoStage} : OpenFresh(p, from, until) => CoreStep
         /\ OpenResume(p) => CoreStep
         /\ FinishRange(p) => CoreStep
<1>1. ASSUME NEW from \in Stage \cup {NoStage}, NEW until \in Stage \cup {NoStage},
             OpenFresh(p, from, until)
      PROVE  CoreStep
  <2> DEFINE new == NewCheckpoint(from, until)
  <2>1. /\ pc[p] = "openFresh" /\ disk.status = "none" /\ ValidRange(from, until)
        /\ Save(p, new) /\ UNCHANGED <<report, lock>>
    BY <1>1 DEF OpenFresh
  <2>2. new \in Checkpoint /\ new.status = "running" /\ Sound(new)
    BY <2>1, NewCheckpointType, NewCheckpointSound DEF TypeOK
  <2> HIDE DEF new
  <2>3. Progress(disk, new)
    BY <2>1, NewCheckpointProgress DEF CoreInv, DiskInv, TypeOK, new
  <2>4. pc[p] \in Holding
    BY <2>1 DEF Holding, PC
  <2>5. QED
    BY <2>1, <2>2, <2>3, <2>4, SaveStep
<1>2. ASSUME OpenResume(p) PROVE CoreStep
  <2> DEFINE new == Reopened(disk)
  <2>1. /\ pc[p] = "openResume" /\ disk.status \notin {"none", "succeeded"} /\ disk.resume \in Stage
        /\ Save(p, new) /\ UNCHANGED <<report, lock>> /\ disk \in Checkpoint
    BY <1>2 DEF OpenResume, Resumable, CheckpointAccepted, TypeOK
  <2>2. Sound(disk)
    BY <2>1 DEF CoreInv, DiskInv
  <2>3. new \in Checkpoint /\ new.status = "running" /\ Sound(new) /\ Progress(disk, new)
    BY <2>1, <2>2, ReopenedType, ReopenedSound
  <2> HIDE DEF new
  <2>4. pc[p] \in Holding
    BY <2>1 DEF Holding, PC
  <2>5. QED
    BY <2>1, <2>3, <2>4, SaveStep
<1>3. ASSUME FinishRange(p) PROVE CoreStep
  <2> DEFINE rest == WithStatus(disk, Unfinished)
             status == IF rest = {} THEN "succeeded" ELSE "paused"
             new == StopAt(disk, status, ResumePoint(rest))
  <2>1. pc[p] = "loop"
    BY <1>3 DEF FinishRange
  <2>2. /\ pc[p] \in Holding /\ mem[p] = disk /\ disk \in Checkpoint /\ Sound(disk)
        /\ disk.status = "running" /\ WithStatus(disk, Interrupted) = {}
    BY <2>1, LoopState
  <2>3. Save(p, new) /\ UNCHANGED <<report, lock>>
    BY <1>3, <2>2 DEF FinishRange
  <2>4. rest \in SUBSET Stage
    BY DEF WithStatus
  <2>5. status \in WorkflowStatus \cup {"none"} /\ status # "none"
        /\ (status = "succeeded" => rest = {})
    BY DEF WorkflowStatus
  <2> HIDE DEF rest, status
  <2>6. ResumePoint(rest) \in Stage \cup {NoStage}
    BY <2>4, ResumePointProperties
  <2>7. /\ new \in Checkpoint /\ new.status = status /\ new.resume = ResumePoint(rest)
        /\ new.stage = disk.stage
    BY <2>2, <2>5, <2>6, StopAtType
  <2> HIDE DEF new
  <2>8. WithStatus(new, Unfinished) = rest /\ WithStatus(new, Interrupted) = {}
    BY <2>2, <2>7 DEF WithStatus, rest
  <2>9. PICK s \in Stage : TRUE
    BY PlanAssumption DEF Stage
  <2>10. \A t \in Stage : new.stage[t] = disk.stage[t]
    BY <2>7
  <2>11. /\ new.resume = ResumePoint(WithStatus(new, Unfinished))
         /\ new.status = "succeeded" => WithStatus(new, Unfinished) = {}
    BY <2>5, <2>7, <2>8
  <2>12. Sound(new) /\ Progress(disk, new)
    <3>1. new.status # "none" /\ new.stage[s] = disk.stage[s]
      BY <2>5, <2>7, <2>9
    <3>2. \A t \in Stage \ {s} : new.stage[t] = disk.stage[t]
      BY <2>10
    <3>3. QED
      BY <2>2, <2>7, <2>8, <2>9, <2>11, <3>1, <3>2, AdvanceSound
  <2>13. QED
    BY <2>2, <2>3, <2>5, <2>7, <2>12, SaveStep
<1>4. QED
  BY <1>1, <1>2, <1>3

\* Steps that leave the checkpoint alone keep what was achieved.
LEMMA Unsaved ==
  ASSUME TypeOK, CoreInv, UNCHANGED <<disk, report>>, ExclusiveCheckpoint', ControlInv'
  PROVE  CoreStep
<1>1. Progress(disk, disk')
  BY ProgressReflexive DEF TypeOK
<1>2. DiskInv' /\ ReportNeverAhead'
  BY DEF CoreInv, DiskInv, ReportNeverAhead, WithStatus
<1>3. QED
  BY <1>1, <1>2 DEF CoreStep, CoreInv

\* An invocation that goes to a place where it holds no checkpoint.
LEMMA MovedOut ==
  ASSUME TypeOK, CoreInv, NEW p \in Procs, UNCHANGED <<disk, report>>,
         \A q \in Procs \ {p} : pc'[q] = pc[q] /\ mem'[q] = mem[q],
         pc'[p] \notin Working,
         pc'[p] \in Holding => lock' /\ \A q \in Procs \ {p} : pc[q] \notin Holding,
         \A q \in Procs \ {p} : pc[q] \in Holding => lock'
  PROVE  CoreStep
<1>1. ExclusiveCheckpoint'
  BY DEF CoreInv, ExclusiveCheckpoint
<1>2. ControlInv'
  <2> SUFFICES ASSUME NEW q \in Procs
               PROVE /\ pc'[q] \in Working => disk.status # "none"
                     /\ pc'[q] \in {"loop", "gated", "running"} => disk.status = "running"
                     /\ pc'[q] \in {"loop", "gated"} => WithStatus(disk, {"running"}) = {}
                     /\ pc'[q] = "running" => disk.resume \in WithStatus(disk, {"running"})
    BY DEF ControlInv, WithStatus
  <2>1. CASE q = p
    BY <2>1 DEF Working
  <2>2. CASE q # p
    BY <2>2 DEF CoreInv, ControlInv
  <2>3. QED
    BY <2>1, <2>2
<1>3. QED
  BY <1>1, <1>2, Unsaved

LEMMA OtherStep ==
  ASSUME TypeOK, CoreInv, NEW p \in Procs
  PROVE  /\ \A mode \in {"fresh", "resume"} : Invoke(p, mode) => CoreStep
         /\ AcquireLock(p) \/ LockBusy(p) \/ Refuse(p) => CoreStep
         /\ WriteReport(p) => CoreStep
         /\ Release(p) => CoreStep
         /\ Abort(p) => CoreStep
         /\ Kill(p) => CoreStep
         /\ \A s \in Stage, c \in Content : StageWrites(p, s, c) => CoreStep
<1> USE DEF Goto, Forget, store, env
<1>1. ASSUME NEW mode \in {"fresh", "resume"}, Invoke(p, mode) PROVE CoreStep
  <2>1. /\ pc'[p] \in {"fresh", "resume"} /\ UNCHANGED <<disk, report, lock>>
        /\ \A q \in Procs \ {p} : pc'[q] = pc[q] /\ mem'[q] = mem[q]
    BY <1>1 DEF Invoke, TypeOK
  <2>2. pc'[p] \notin Working /\ pc'[p] \notin Holding
    BY <2>1 DEF Working, Holding
  <2>3. \A q \in Procs \ {p} : pc[q] \in Holding => lock'
    BY <2>1 DEF CoreInv, ExclusiveCheckpoint
  <2>4. QED
    BY <2>1, <2>2, <2>3, MovedOut
<1>2. ASSUME AcquireLock(p) PROVE CoreStep
  <2>1. /\ pc'[p] \in {"openFresh", "openResume"} /\ UNCHANGED <<disk, report>>
        /\ \A q \in Procs \ {p} : pc'[q] = pc[q] /\ mem'[q] = mem[q]
        /\ ~lock /\ lock'
    BY <1>2 DEF AcquireLock, TypeOK
  <2>2. pc'[p] \notin Working
    BY <2>1 DEF Working
  <2>3. \A q \in Procs : pc[q] \notin Holding
    BY <2>1 DEF CoreInv, ExclusiveCheckpoint
  <2>4. QED
    BY <2>1, <2>2, <2>3, MovedOut
<1>3. ASSUME LockBusy(p) PROVE CoreStep
  <2>1. /\ pc'[p] = "idle" /\ UNCHANGED <<disk, report, lock>> /\ lock
        /\ \A q \in Procs \ {p} : pc'[q] = pc[q] /\ mem'[q] = mem[q]
    BY <1>3 DEF LockBusy, TypeOK
  <2>2. pc'[p] \notin Working /\ pc'[p] \notin Holding
    BY <2>1 DEF Working, Holding
  <2>3. QED
    BY <2>1, <2>2, MovedOut
<1>4. ASSUME Refuse(p) \/ Abort(p) PROVE CoreStep
  <2>1. /\ pc'[p] = "release" /\ UNCHANGED <<disk, report, lock>>
        /\ \A q \in Procs \ {p} : pc'[q] = pc[q] /\ mem'[q] = mem[q]
    BY <1>4 DEF Refuse, Abort, TypeOK
  <2>2. pc[p] \in Holding
    BY <1>4 DEF Refuse, Abort, Holding, PC
  <2>3. pc'[p] \notin Working
    BY <2>1 DEF Working
  <2>4. lock /\ \A q \in Procs \ {p} : pc[q] \notin Holding
    BY <2>2 DEF CoreInv, ExclusiveCheckpoint
  <2>5. QED
    BY <2>1, <2>3, <2>4, MovedOut
<1>5. ASSUME Release(p) PROVE CoreStep
  <2>1. /\ pc'[p] = "idle" /\ UNCHANGED <<disk, report>>
        /\ \A q \in Procs \ {p} : pc'[q] = pc[q] /\ mem'[q] = mem[q]
    BY <1>5 DEF Release, TypeOK
  <2>2. pc[p] \in Holding
    BY <1>5 DEF Release, Holding, PC
  <2>3. pc'[p] \notin Working /\ pc'[p] \notin Holding
    BY <2>1 DEF Working, Holding
  <2>4. \A q \in Procs \ {p} : pc[q] \notin Holding
    BY <2>2 DEF CoreInv, ExclusiveCheckpoint
  <2>5. QED
    BY <2>1, <2>3, <2>4, MovedOut
<1>6. ASSUME Kill(p) PROVE CoreStep
  <2>1. /\ pc'[p] = "idle" /\ UNCHANGED <<disk, report, lock>>
        /\ \A q \in Procs \ {p} : pc'[q] = pc[q] /\ mem'[q] = mem[q]
    BY <1>6 DEF Kill, TypeOK
  <2>2. pc'[p] \notin Working /\ pc'[p] \notin Holding
    BY <2>1 DEF Working, Holding
  <2>3. \A q \in Procs \ {p} : pc[q] \in Holding => lock'
    BY <2>1 DEF CoreInv, ExclusiveCheckpoint
  <2>4. QED
    BY <2>1, <2>2, <2>3, MovedOut
<1>7. ASSUME WriteReport(p) PROVE CoreStep
  <2>1. pc[p] = "report" /\ pc[p] \in Holding /\ pc[p] \in Working
    BY <1>7 DEF WriteReport, Holding, PC, Working
  <2>2. /\ mem[p] = disk /\ lock /\ disk.status # "none"
        /\ \A q \in Procs \ {p} : pc[q] \notin Holding
    BY <2>1 DEF CoreInv, ExclusiveCheckpoint, ControlInv
  <2>3. Sound(disk)
    BY <2>2 DEF CoreInv, DiskInv
  <2>4. /\ report' = disk /\ UNCHANGED <<disk, lock, mem>>
        /\ pc'[p] = IF disk.status # "running" THEN "release"
                    ELSE IF WithStatus(disk, {"running"}) # {} THEN "running" ELSE "loop"
        /\ \A q \in Procs \ {p} : pc'[q] = pc[q]
    BY <1>7, <2>2 DEF WriteReport, TypeOK
  <2>5. \A q \in Procs \ {p} : pc'[q] \notin Holding /\ pc'[q] \notin Working
    BY <2>2, <2>4 DEF Holding, Working, PC
  <2>6. ExclusiveCheckpoint'
    BY <2>2, <2>4, <2>5 DEF ExclusiveCheckpoint
  <2>7. WithStatus(disk, {"running"}) # {} => disk.resume \in WithStatus(disk, {"running"})
    BY <2>3 DEF Sound, ResumeCovers, WithStatus
  <2>8. ControlInv'
    <3> SUFFICES ASSUME NEW q \in Procs
                 PROVE /\ pc'[q] \in Working => disk.status # "none"
                       /\ pc'[q] \in {"loop", "gated", "running"} => disk.status = "running"
                       /\ pc'[q] \in {"loop", "gated"} => WithStatus(disk, {"running"}) = {}
                       /\ pc'[q] = "running" => disk.resume \in WithStatus(disk, {"running"})
      BY <2>4 DEF ControlInv, WithStatus
    <3>1. CASE q # p
      BY <2>5, <3>1 DEF Working
    <3>2. CASE q = p
      BY <2>2, <2>4, <2>7, <3>2
    <3>3. QED
      BY <3>1, <3>2
  <2>9. DiskInv' /\ ReportNeverAhead'
    BY <2>4 DEF CoreInv, DiskInv, ReportNeverAhead, WithStatus
  <2>10. Progress(disk, disk')
    BY <2>4, ProgressReflexive DEF TypeOK
  <2>11. QED
    BY <2>6, <2>8, <2>9, <2>10 DEF CoreStep, CoreInv
<1>8. ASSUME NEW s \in Stage, NEW c \in Content, StageWrites(p, s, c) PROVE CoreStep
  <2>1. UNCHANGED <<disk, report, lock, pc, mem>>
    BY <1>8 DEF StageWrites
  <2>2. ExclusiveCheckpoint' /\ ControlInv'
    BY <2>1 DEF CoreInv, ExclusiveCheckpoint, ControlInv, WithStatus
  <2>3. QED
    BY <2>1, <2>2, Unsaved
<1>9. QED
  BY <1>1, <1>2, <1>3, <1>4, <1>5, <1>6, <1>7, <1>8

LEMMA OperatorStep ==
  ASSUME TypeOK, CoreInv, Operator
  PROVE  CoreStep
<1>1. UNCHANGED <<disk, report, pc, mem>>
  BY DEF Operator, SetRunState, PauseAgain, ClearPause, EditFile, Upgrade, RecoverLock,
         RemoveLeftover, store
<1>2. UNCHANGED lock \/ Quiet
  BY DEF Operator, SetRunState, PauseAgain, ClearPause, EditFile, Upgrade, RecoverLock,
         RemoveLeftover
<1>3. ExclusiveCheckpoint' /\ ControlInv'
  BY <1>1, <1>2 DEF CoreInv, ExclusiveCheckpoint, ControlInv, WithStatus, Quiet
<1>4. QED
  BY <1>1, <1>3, Unsaved

LEMMA CoreNext ==
  ASSUME TypeOK, CoreInv, [Next]_vars
  PROVE  CoreStep
<1>1. TypeOK'
  BY TypeStep
<1>2. CASE UNCHANGED vars
  <2>1. UNCHANGED <<disk, report, lock, pc, mem>>
    BY <1>2 DEF vars
  <2>2. ExclusiveCheckpoint' /\ ControlInv'
    BY <2>1 DEF CoreInv, ExclusiveCheckpoint, ControlInv, WithStatus
  <2>3. QED
    BY <2>1, <2>2, Unsaved
<1>3. ASSUME NEW p \in Procs, Step(p) PROVE CoreStep
  BY <1>1, <1>3, OpenStep, LoopStep, ExitStep, OtherStep DEF Step, Open, Loop
<1>4. ASSUME NEW p \in Procs, Command(p) PROVE CoreStep
  BY <1>4, OtherStep DEF Command
<1>5. QED
  BY <1>2, <1>3, <1>4, OtherStep, OperatorStep DEF Next

\* The count of late stages: a gate is passed only while the run is active,
\* and only one invocation at a time is past its gate.
LEMMA GateStep ==
  ASSUME TypeOK, CoreInv, GateInv, PauseStopsWithinOneStage, [Next]_vars
  PROVE  GateInv' /\ PauseStopsWithinOneStage'
<1> USE DEF GateInv, PauseStopsWithinOneStage
<1> DEFINE SomeGated == \E p \in Procs : pc[p] = "gated"
<1>1. CASE UNCHANGED <<runState, late>> /\ (SomeGated' => SomeGated)
  BY <1>1
<1>2. ASSUME NEW p \in Procs, NEW label \in PC, label # "gated", Goto(p, label)
      PROVE  SomeGated' => SomeGated
  BY <1>2 DEF Goto, TypeOK
<1>3. ASSUME NEW p \in Procs, Step(p) PROVE GateInv' /\ PauseStopsWithinOneStage'
  <2> USE DEF PC
  <2>1. CASE AcquireLock(p)
    <3>1. Goto(p, "openFresh") \/ Goto(p, "openResume")
      BY <2>1 DEF AcquireLock, Goto
    <3>2. QED
      BY <1>1, <1>2, <2>1, <3>1 DEF AcquireLock, env
  <2>2. CASE LockBusy(p) \/ Refuse(p) \/ Release(p)
    BY <1>1, <1>2, <2>2 DEF LockBusy, Refuse, Release, Forget, env
  <2>3. CASE WriteReport(p)
    <3>1. Goto(p, "release") \/ Goto(p, "running") \/ Goto(p, "loop")
      BY <2>3 DEF WriteReport, Goto
    <3>2. QED
      BY <1>1, <1>2, <2>3, <3>1 DEF WriteReport, env
  <2>4. ASSUME NEW from \in Stage \cup {NoStage}, NEW until \in Stage \cup {NoStage},
               OpenFresh(p, from, until)
        PROVE  GateInv' /\ PauseStopsWithinOneStage'
    BY <1>1, <1>2, <2>4 DEF OpenFresh, Save, env
  <2>5. CASE OpenResume(p) \/ FinishRange(p)
    BY <1>1, <1>2, <2>5 DEF OpenResume, FinishRange, Save, env
  <2>6. ASSUME NEW s \in Stage, GateOpen(p, s) PROVE GateInv' /\ PauseStopsWithinOneStage'
    <3>1. runState = "active" /\ late' = late
      BY <2>6 DEF GateOpen, env
    <3>2. QED
      BY <3>1
  <2>7. ASSUME NEW s \in Stage,
               GateClosed(p, s) \/ StopOnChangedCommand(p, s) \/ StopOnDependency(p, s)
                 \/ StopOnStaleInput(p, s)
        PROVE  GateInv' /\ PauseStopsWithinOneStage'
    BY <1>1, <1>2, <2>7
       DEF GateClosed, StopOnChangedCommand, StopOnDependency, StopOnStaleInput, Save, env
  <2>8. ASSUME NEW s \in Stage, BeginStage(p, s) PROVE GateInv' /\ PauseStopsWithinOneStage'
    <3>1. /\ pc[p] = "gated" /\ Goto(p, "report") /\ runState' = runState
          /\ late' = IF runState = "active" THEN late ELSE late + 1
      BY <2>8 DEF BeginStage, Save
    <3>2. late = 0
      BY <3>1
    <3>3. pc[p] \in Holding
      BY <3>1 DEF Holding
    <3>4. \A q \in Procs : pc'[q] # "gated"
      BY <3>1, <3>3 DEF CoreInv, ExclusiveCheckpoint, Holding, Goto, TypeOK
    <3>5. late' <= 1 /\ (runState = "active" => late' = 0)
      BY <3>1, <3>2
    <3>6. QED
      BY <3>1, <3>4, <3>5
  <2>9. ASSUME NEW s \in Stage, StageExits(p, s) PROVE GateInv' /\ PauseStopsWithinOneStage'
    <3>1. Goto(p, "report") /\ UNCHANGED <<runState, late>>
      BY <2>9 DEF StageExits, StageSucceeds, StageMissesOutput, StageFails, StageInterrupted,
                  Save, env
    <3>2. QED
      BY <1>1, <1>2, <3>1
  <2>10. QED
    BY <1>3, <2>1, <2>2, <2>3, <2>4, <2>5, <2>6, <2>7, <2>8, <2>9 DEF Step, Open, Loop
<1>4. ASSUME NEW p \in Procs, NEW mode \in {"fresh", "resume"}, Invoke(p, mode)
      PROVE  GateInv' /\ PauseStopsWithinOneStage'
  <2>1. mode \in PC /\ mode # "gated"
    BY DEF PC
  <2>2. QED
    BY <1>1, <1>2, <1>4, <2>1 DEF Invoke, env
<1>5. ASSUME NEW p \in Procs, Command(p) \/ Abort(p) \/ Kill(p)
      PROVE  GateInv' /\ PauseStopsWithinOneStage'
  BY <1>1, <1>2, <1>5 DEF Command, StageWrites, Abort, Kill, Forget, PC
<1>6. ASSUME Operator PROVE GateInv' /\ PauseStopsWithinOneStage'
  <2>1. ASSUME NEW v \in {"paused", "blocked", "unreadable"}, SetRunState(v)
        PROVE  GateInv' /\ PauseStopsWithinOneStage'
    BY <2>1 DEF SetRunState
  <2>2. CASE PauseAgain
    BY <2>2 DEF PauseAgain
  <2>3. CASE ClearPause
    BY <2>3 DEF ClearPause
  <2>4. CASE UNCHANGED <<runState, late, pc>>
    BY <2>4
  <2>5. QED
    BY <1>6, <2>1, <2>2, <2>3, <2>4
       DEF Operator, EditFile, Upgrade, RecoverLock, RemoveLeftover, env
<1>7. CASE UNCHANGED vars
  BY <1>7 DEF vars
<1>8. QED
  BY <1>3, <1>4, <1>5, <1>6, <1>7 DEF Next

-----------------------------------------------------------------------------
(* The theorems. *)

LEMMA InvariantInit == Init => IInv
<1> SUFFICES ASSUME Init PROVE IInv
  OBVIOUS
<1>1. TypeOK
  BY TypeInit
<1>2. disk = NoCheckpoint /\ report = NoCheckpoint /\ NoCheckpoint.status = "none"
      /\ \A s \in Stage : NoCheckpoint.stage[s].status = "pending"
  BY NewRecordFields DEF Init, NoCheckpoint
<1>3. DiskInv /\ ReportNeverAhead
  BY <1>2 DEF DiskInv, ReportNeverAhead, WithStatus
<1>4. \A p \in Procs : pc[p] = "idle"
  BY DEF Init
<1>5. ExclusiveCheckpoint /\ ControlInv
  BY <1>4 DEF ExclusiveCheckpoint, ControlInv, Holding, Working
<1>6. GateInv /\ PauseStopsWithinOneStage
  BY DEF Init, GateInv, PauseStopsWithinOneStage
<1>7. QED
  BY <1>1, <1>3, <1>5, <1>6 DEF IInv

LEMMA InvariantStep == IInv /\ [Next]_vars => IInv'
<1> SUFFICES ASSUME IInv, [Next]_vars PROVE IInv'
  OBVIOUS
<1>1. TypeOK /\ CoreInv /\ GateInv /\ PauseStopsWithinOneStage
  BY DEF IInv, CoreInv
<1>2. TypeOK' /\ CoreInv' /\ GateInv' /\ PauseStopsWithinOneStage'
  BY <1>1, TypeStep, CoreNext, GateStep DEF CoreStep
<1>3. QED
  BY <1>2 DEF IInv, CoreInv

\* The inductive invariant of the executor.
THEOREM Invariance == Spec => []IInv
<1>1. Init => IInv
  BY InvariantInit
<1>2. IInv /\ [Next]_vars => IInv'
  BY InvariantStep
<1>3. QED
  BY <1>1, <1>2, PTL DEF Spec

\* At most one invocation works on the checkpoint, whoever is killed when,
\* and what it holds in memory is what is on disk.
THEOREM Exclusion == Spec => []ExclusiveCheckpoint
<1>1. IInv => ExclusiveCheckpoint
  BY DEF IInv
<1>2. QED
  BY <1>1, Invariance, PTL

\* _load_checkpoint never rejects a record the executor wrote.
THEOREM Acceptance == Spec => []RecordsAccepted
<1>1. IInv => RecordsAccepted
  <2>1. ASSUME disk = NoCheckpoint PROVE AllAccepted(disk)
    BY <2>1, NewRecordFields DEF NoCheckpoint, AllAccepted, RecordAccepted
  <2>2. QED
    BY <2>1 DEF IInv, DiskInv, Sound, RecordsAccepted
<1>2. QED
  BY <1>1, Invariance, PTL

\* --resume reopens every interrupted stage: none lies before resume_stage.
THEOREM ResumeCoverage == Spec => []ResumePointCovers
<1>1. IInv => ResumePointCovers
  BY DEF IInv, DiskInv, Sound, ResumePointCovers
<1>2. QED
  BY <1>1, Invariance, PTL

\* A stage is begun only after everything it depends on is done.
THEOREM DependencyOrder == Spec => []DependenciesFirst
<1>1. IInv => DependenciesFirst
  <2>1. ASSUME disk = NoCheckpoint PROVE DependenciesDone(disk)
    BY <2>1, NewRecordFields DEF NoCheckpoint, DependenciesDone
  <2>2. QED
    BY <2>1 DEF IInv, DiskInv, Sound, DependenciesFirst
<1>2. QED
  BY <1>1, Invariance, PTL

\* The execution report never shows a success the checkpoint does not have.
THEOREM ReportBehind == Spec => []ReportNeverAhead
<1>1. IInv => ReportNeverAhead
  BY DEF IInv
<1>2. QED
  BY <1>1, Invariance, PTL

\* After a pause or a block at most one more stage is begun.
THEOREM PauseIsPrompt == Spec => []PauseStopsWithinOneStage
<1>1. IInv => PauseStopsWithinOneStage
  BY DEF IInv
<1>2. QED
  BY <1>1, Invariance, PTL

\* No step of anybody takes back or rewrites the success of a stage.
THEOREM SuccessFinality == Spec => SuccessIsFinal
<1>1. IInv /\ [Next]_vars =>
        [\A s \in WithStatus(disk, {"succeeded"}) : disk'.stage[s] = disk.stage[s]]_disk
  BY CoreNext DEF IInv, CoreInv, CoreStep, Progress, Keeps, WithStatus
<1>2. QED
  BY <1>1, Invariance, PTL DEF Spec, SuccessIsFinal

\* No retry, interruption or resume loses a recorded provider failure.
THEOREM HistoryRetention == Spec => HistoryIsKept
<1>1. IInv /\ [Next]_vars =>
        [\A s \in Stage : disk'.stage[s].failures >= disk.stage[s].failures]_disk
  BY CoreNext DEF IInv, CoreInv, CoreStep, Progress, Keeps
<1>2. QED
  BY <1>1, Invariance, PTL DEF Spec, HistoryIsKept

-----------------------------------------------------------------------------
(* The checkpoint of the workflow executor implements StagedWorkflow.       *)

\* The refinement mapping, as a function of a checkpoint.
PhaseOf(ck) ==
  CASE ck.status = "none" -> "unplanned"
    [] ck.status = "succeeded" -> "closed"
    [] OTHER -> "open"

ScopeOf(ck) ==
  IF ck.status = "none" THEN {} ELSE WithStatus(ck, Unfinished \cup {"succeeded"})

GivenOf(ck) ==
  IF ck.status = "none" THEN {}
  ELSE WithStatus(ck, {"external_prerequisite", "skipped_by_scope"})

DoneOf(ck) == WithStatus(ck, {"succeeded"})

LEMMA PhaseCases ==
  ASSUME NEW ck
  PROVE  /\ ck.status = "none" => PhaseOf(ck) = "unplanned"
         /\ ck.status = "succeeded" => PhaseOf(ck) = "closed"
         /\ ck.status \notin {"none", "succeeded"} => PhaseOf(ck) = "open"
BY DEF PhaseOf

LEMMA MappingInit == Init => Staged!Init
<1> SUFFICES ASSUME Init PROVE Staged!Init
  OBVIOUS
<1>1. disk.status = "none" /\ \A s \in Stage : disk.stage[s].status = "pending"
  BY NewRecordFields DEF Init, NoCheckpoint
<1>2. PhaseOf(disk) = "unplanned" /\ ScopeOf(disk) = {} /\ GivenOf(disk) = {} /\ DoneOf(disk) = {}
  BY <1>1, PhaseCases DEF ScopeOf, GivenOf, DoneOf, WithStatus
<1>3. QED
  BY <1>2 DEF Staged!Init, PhaseOf, ScopeOf, GivenOf, DoneOf

\* The first checkpoint opens the workflow.
LEMMA MappingOpen ==
  ASSUME disk.status = "none", DoneOf(disk) = {}, Opens(disk')
  PROVE  Staged!Next
<1> DEFINE S == WithStatus(disk', Unfinished \cup {"succeeded"})
           G == WithStatus(disk', {"external_prerequisite", "skipped_by_scope"})
<1>1. S \in SUBSET Stage /\ G \in SUBSET Stage
  BY DEF WithStatus
<1>2. S # {} /\ S \cap G = {}
  BY DEF Opens, WithStatus, Unfinished, Interrupted
<1>3. /\ PhaseOf(disk) = "unplanned" /\ PhaseOf(disk') = "open"
      /\ ScopeOf(disk') = S /\ GivenOf(disk') = G /\ DoneOf(disk') = DoneOf(disk)
  BY PhaseCases DEF Opens, ScopeOf, GivenOf, DoneOf
<1> HIDE DEF S, G
<1>4. Staged!Open(S, G)
  BY <1>2, <1>3 DEF Staged!Open, PhaseOf, ScopeOf, GivenOf, DoneOf
<1>5. QED
  BY <1>1, <1>4 DEF Staged!Next

\* A write of an open checkpoint completes a stage, closes the workflow or
\* leaves it as it was.
LEMMA MappingCarry ==
  ASSUME disk.status \notin {"none", "succeeded"}, Carries(disk, disk'), Shape(disk')
  PROVE  [Staged!Next]_(Staged!vars)
<1>1. "succeeded" \notin Unfinished /\ {"external_prerequisite", "skipped_by_scope"} \cap Unfinished = {}
  BY DEF Unfinished, Interrupted
<1>2. disk'.status # "none" /\ PhaseOf(disk) = "open"
  BY PhaseCases DEF Carries
<1>3. ScopeOf(disk') = ScopeOf(disk) /\ GivenOf(disk') = GivenOf(disk)
  BY <1>1, <1>2 DEF Carries, ScopeOf, GivenOf, WithStatus
<1>4. CASE \E s \in Stage : disk.stage[s].status \in Unfinished /\ disk'.stage[s].status = "succeeded"
  <2>1. PICK s \in Stage : disk.stage[s].status \in Unfinished /\ disk'.stage[s].status = "succeeded"
    BY <1>4
  <2>2. disk'.status # "succeeded" /\ Unsatisfied(disk, s) = {}
    BY <1>1, <2>1 DEF Carries
  <2>3. PhaseOf(disk') = "open"
    BY <1>2, <2>2, PhaseCases
  <2>4. DoneOf(disk') = DoneOf(disk) \cup {s}
    BY <1>1, <2>1 DEF Carries, DoneOf, WithStatus
  <2>5. s \in ScopeOf(disk) \ DoneOf(disk)
    BY <1>1, <2>1 DEF ScopeOf, DoneOf, WithStatus
  <2>6. DependsOn[s] \subseteq DoneOf(disk) \cup GivenOf(disk)
    BY <2>2 DEF Unsatisfied, DoneOf, GivenOf, WithStatus, TerminalSuccess
  <2>7. Staged!Complete(s)
    BY <1>2, <1>3, <2>3, <2>4, <2>5, <2>6
       DEF Staged!Complete, PhaseOf, ScopeOf, GivenOf, DoneOf
  <2>8. QED
    BY <2>7 DEF Staged!Next
<1>5. CASE ~ \E s \in Stage : disk.stage[s].status \in Unfinished /\ disk'.stage[s].status = "succeeded"
  <2>1. DoneOf(disk') = DoneOf(disk)
    BY <1>1, <1>5 DEF Carries, DoneOf, WithStatus
  <2>2. CASE disk'.status = "succeeded"
    <3>1. PhaseOf(disk') = "closed"
      BY <2>2, PhaseCases
    <3>2. ScopeOf(disk') = DoneOf(disk')
      BY <1>2, <2>2 DEF Shape, ScopeOf, DoneOf, WithStatus
    <3>3. Staged!Close
      BY <1>2, <1>3, <2>1, <3>1, <3>2 DEF Staged!Close, PhaseOf, ScopeOf, GivenOf, DoneOf
    <3>4. QED
      BY <3>3 DEF Staged!Next
  <2>3. CASE disk'.status # "succeeded"
    <3>1. PhaseOf(disk') = PhaseOf(disk)
      BY <1>2, <2>3, PhaseCases
    <3>2. QED
      BY <1>3, <2>1, <3>1 DEF Staged!vars, PhaseOf, ScopeOf, GivenOf, DoneOf
  <2>4. QED
    BY <2>2, <2>3
<1>6. QED
  BY <1>4, <1>5

LEMMA MappingSame ==
  ASSUME disk' = disk PROVE UNCHANGED Staged!vars
BY DEF Staged!vars, WithStatus

LEMMA MappingStep == IInv /\ [Next]_vars => [Staged!Next]_(Staged!vars)
<1> SUFFICES ASSUME IInv, [Next]_vars PROVE [Staged!Next]_(Staged!vars)
  OBVIOUS
<1>1. DiskInv /\ DiskInv' /\ Progress(disk, disk')
  BY CoreNext DEF IInv, CoreInv, CoreStep
<1>2. CASE disk' = disk
  BY <1>2, MappingSame
<1>3. CASE disk' # disk /\ disk.status = "none"
  <2>1. Opens(disk')
    BY <1>1, <1>3 DEF Progress
  <2>2. DoneOf(disk) = {}
    <3>1. disk = NoCheckpoint
      BY <1>1, <1>3 DEF DiskInv
    <3>2. QED
      BY <3>1, NewRecordFields DEF NoCheckpoint, DoneOf, WithStatus
  <2>3. QED
    BY <1>3, <2>1, <2>2, MappingOpen
<1>4. CASE disk' # disk /\ disk.status # "none"
  <2>1. Carries(disk, disk') /\ disk.status # "succeeded"
    BY <1>1, <1>4 DEF Progress, Carries
  <2>2. Shape(disk')
    BY <1>1, <2>1 DEF Carries, DiskInv, Sound
  <2>3. QED
    BY <1>4, <2>1, <2>2, MappingCarry
<1>5. QED
  BY <1>2, <1>3, <1>4

\* Through every pause, failure, kill and resume the checkpoint carries out
\* one staged workflow: a fixed range, every stage of it succeeding at most
\* once and after its dependencies, completion only when nothing is left.
THEOREM Refinement == Spec => ImplementsStaged
<1>1. Init => Staged!Init
  BY MappingInit
<1>2. IInv /\ [Next]_vars => [Staged!Next]_(Staged!vars)
  BY MappingStep
<1>3. QED
  BY <1>1, <1>2, Invariance, PTL DEF Spec, ImplementsStaged, Staged!Spec

-----------------------------------------------------------------------------
(* The execution report: counting stages. *)

LEMMA StagesAreFinite ==
  IsFiniteSet(Stage) /\ Cardinality(Stage) = N
BY FS_Interval, PlanAssumption DEF Stage

\* Counting the stages key by key counts each stage with one of the keys once.
LEMMA CountedOnce ==
  ASSUME NEW f, NEW Keys
  PROVE  Total(CountBy(f, Keys)) = Cardinality({s \in Stage : f[s] \in Keys})
<1> DEFINE S        == {s \in Stage : f[s] \in Keys}
           Fiber(k) == {s \in Stage : f[s] = k}
           counts   == CountBy(f, Keys)
           IsRank(b, k) == b \in Bijection(1..counts[k], Fiber(k))
           rank     == [k \in Keys |-> CHOOSE b : IsRank(b, k)]
           g        == [u \in Units(counts) |-> rank[u[1]][u[2]]]
<1>1. DOMAIN counts = Keys /\ \A k \in Keys : counts[k] = Cardinality(Fiber(k))
  BY DEF CountBy
<1>2. \A k \in Keys : ExistsBijection(1..counts[k], Fiber(k))
  <2>1. \A k \in Keys : Fiber(k) \in SUBSET Stage
    OBVIOUS
  <2>2. \A k \in Keys : IsFiniteSet(Fiber(k))
    BY <2>1, StagesAreFinite, FS_Subset
  <2> HIDE DEF counts, Fiber
  <2>3. QED
    BY <1>1, <2>2, FS_CardinalityType
<1>3. \A u : u \in Units(counts) <=> \E k \in Keys : \E i \in 1..counts[k] : u = <<k, i>>
  <2> HIDE DEF counts
  <2>1. QED
    BY <1>1 DEF Units
<1> HIDE DEF counts
<1>4. \A k \in Keys : IsRank(rank[k], k)
  <2> SUFFICES ASSUME NEW k \in Keys PROVE IsRank(rank[k], k)
    OBVIOUS
  <2>1. \E b : IsRank(b, k)
    BY <1>2 DEF ExistsBijection
  <2>2. rank[k] = CHOOSE b : IsRank(b, k)
    OBVIOUS
  <2> HIDE DEF IsRank, rank
  <2>3. QED
    BY <2>1, <2>2
<1>5. \A k \in Keys :
        /\ \A i \in 1..counts[k] : rank[k][i] \in Stage /\ f[rank[k][i]] = k
        /\ \A i, j \in 1..counts[k] : rank[k][i] = rank[k][j] => i = j
        /\ \A s \in Stage : f[s] = k => \E i \in 1..counts[k] : rank[k][i] = s
  <2> HIDE DEF rank
  <2> SUFFICES ASSUME NEW k \in Keys
               PROVE  /\ \A i \in 1..counts[k] : rank[k][i] \in Stage /\ f[rank[k][i]] = k
                      /\ \A i, j \in 1..counts[k] : rank[k][i] = rank[k][j] => i = j
                      /\ \A s \in Stage : f[s] = k => \E i \in 1..counts[k] : rank[k][i] = s
    OBVIOUS
  <2>1. /\ rank[k] \in [1..counts[k] -> Fiber(k)] /\ IsInjective(rank[k])
        /\ \A s \in Fiber(k) : \E i \in 1..counts[k] : rank[k][i] = s
    BY <1>4 DEF Bijection, Injection, Surjection
  <2>2. QED
    BY <2>1 DEF IsInjective
<1> HIDE DEF rank
<1>6. \A k \in Keys : \A i \in 1..counts[k] : <<k, i>> \in Units(counts) /\ g[<<k, i>>] = rank[k][i]
  BY <1>3
<1>7. DOMAIN g = Units(counts) /\ g = [u \in Units(counts) |-> g[u]]
  OBVIOUS
<1> HIDE DEF g
<1>8. g \in [Units(counts) -> S]
  <2>1. ASSUME NEW u \in Units(counts) PROVE g[u] \in S
    <3>1. PICK k \in Keys : \E i \in 1..counts[k] : u = <<k, i>>
      BY <1>3
    <3>2. PICK i \in 1..counts[k] : u = <<k, i>>
      BY <3>1
    <3>3. QED
      BY <3>2, <1>5, <1>6
  <2>2. QED
    BY <1>7, <2>1
<1>9. \A u, v \in Units(counts) : g[u] = g[v] => u = v
  <2> SUFFICES ASSUME NEW u \in Units(counts), NEW v \in Units(counts), g[u] = g[v]
               PROVE  u = v
    OBVIOUS
  <2>1. PICK k \in Keys : \E i \in 1..counts[k] : u = <<k, i>>
    BY <1>3
  <2>2. PICK i \in 1..counts[k] : u = <<k, i>>
    BY <2>1
  <2>3. PICK l \in Keys : \E j \in 1..counts[l] : v = <<l, j>>
    BY <1>3
  <2>4. PICK j \in 1..counts[l] : v = <<l, j>>
    BY <2>3
  <2>5. g[u] = rank[k][i] /\ g[v] = rank[l][j]
    BY <2>2, <2>4, <1>6
  <2>6. f[rank[k][i]] = k /\ f[rank[l][j]] = l /\ rank[k][i] = rank[l][j]
    BY <2>5, <1>5
  <2>7. k = l
    BY <2>6
  <2>8. i = j
    <3>1. j \in 1..counts[k] /\ rank[k][i] = rank[k][j]
      BY <2>6, <2>7
    <3>2. QED
      BY <3>1, <1>5
  <2>9. QED
    BY <2>2, <2>4, <2>7, <2>8
<1>10. ASSUME NEW s \in S PROVE \E u \in Units(counts) : g[u] = s
  <2>1. f[s] \in Keys /\ s \in Stage
    OBVIOUS
  <2>2. PICK i \in 1..counts[f[s]] : rank[f[s]][i] = s
    BY <2>1, <1>5
  <2>3. <<f[s], i>> \in Units(counts) /\ g[<<f[s], i>>] = s
    BY <2>1, <2>2, <1>6
  <2>4. QED
    BY <2>3
<1>11. g \in Bijection(Units(counts), S)
  <2> HIDE DEF S
  <2>1. g \in Injection(Units(counts), S)
    BY <1>8, <1>9 DEF Injection, IsInjective
  <2>2. g \in Surjection(Units(counts), S)
    BY <1>8, <1>10 DEF Surjection
  <2>3. QED
    BY <2>1, <2>2 DEF Bijection
<1>12. ExistsBijection(S, Units(counts))
  BY <1>11, Fun_ExistsBijSymmetric DEF ExistsBijection
<1>13. IsFiniteSet(S)
  <2>1. S \in SUBSET Stage
    OBVIOUS
  <2> HIDE DEF S
  <2>2. QED
    BY <2>1, StagesAreFinite, FS_Subset
<1>14. QED
  BY <1>12, <1>13, FS_Bijection DEF Total, counts

\* What a sum of counts is at least.
LEMMA TotalBound ==
  ASSUME NEW K, IsFiniteSet(K), NEW counts \in [K -> Nat \ {0}]
  PROVE  Total(counts) \in Nat /\ Cardinality(K) <= Total(counts)
<1> DEFINE block == [k \in K |-> {k} \X (1..counts[k])]
           Blocks == {block[k] : k \in K}
<1>1. IsFiniteSet(Blocks)
  <2>1. block \in Surjection(K, Blocks)
    BY DEF Surjection
  <2> HIDE DEF block, Blocks
  <2>2. QED
    BY <2>1, FS_Surjection
<1>2. \A k \in K : IsFiniteSet(block[k])
  <2> SUFFICES ASSUME NEW k \in K PROVE IsFiniteSet(block[k])
    OBVIOUS
  <2>1. IsFiniteSet({k})
    BY FS_Singleton
  <2>2. IsFiniteSet(1..counts[k])
    BY FS_Interval
  <2>3. IsFiniteSet({k} \X (1..counts[k]))
    BY <2>1, <2>2, FS_Product
  <2>4. QED
    BY <2>3
<1>3. Units(counts) = UNION Blocks
  BY DEF Units
<1>4. \A B \in Blocks : IsFiniteSet(B)
  BY <1>2
<1> HIDE DEF Blocks
<1>5. IsFiniteSet(Units(counts))
  BY <1>1, <1>3, <1>4, FS_UNION
<1> DEFINE first == [k \in K |-> <<k, 1>>]
<1>6. \A k \in K : <<k, 1>> \in Units(counts)
  BY DEF Units
<1>7. first \in Injection(K, Units(counts))
  BY <1>6 DEF Injection, IsInjective
<1> HIDE DEF first
<1>8. QED
  BY <1>5, <1>7, FS_Injection, FS_CardinalityType DEF Total
-----------------------------------------------------------------------------
(* The report of a sound checkpoint. *)

LEMMA SatisfiedMeansDone ==
  ASSUME NEW ck \in Checkpoint, NEW s \in Stage
  PROVE  BlockedBy(ck, s) = Unsatisfied(ck, s) /\ BlockedBy(ck, s) \subseteq DependsOn[s]
BY PlanAssumption DEF BlockedBy, Unsatisfied, Satisfying, TerminalSuccess, WithStatus

\* A stage has run, or the report says why it has not.
LEMMA AbsenceStated ==
  ASSUME NEW ck \in Checkpoint, ck.status # "none", Sound(ck), Explained(ck),
         NEW ranged \in BOOLEAN, NEW s \in Stage
  PROVE  /\ AbsenceReason(ck, ranged, s) \in AbsenceReasons \cup {None}
         /\ (AbsenceReason(ck, ranged, s) = None) <=>
              (ck.stage[s].status \in {"succeeded", "failed", "running"})
         /\ AbsenceReason(ck, ranged, s) = "blocked_by_dependency" =>
              BlockedBy(ck, s) # {} /\ ck.stage[s].status \in Unfinished
<1> DEFINE status == ck.stage[s].status
           reason == AbsenceReason(ck, ranged, s)
<1>1. status \in {"succeeded", "external_prerequisite", "skipped_by_scope", "pending",
                   "failed", "blocked_dependency", "running", "out_of_range"}
  BY RecordFields DEF StageRecord, StageStatus, TerminalSuccess, Unfinished, Interrupted
<1>2. ck.stage[s].error = "interrupted" => status \in {"pending", "blocked_dependency"}
  BY DEF Explained
<1>3. status = "blocked_dependency" => BlockedBy(ck, s) # {}
  BY SatisfiedMeansDone DEF Explained
<1>4. status \in {"succeeded", "failed", "running"} => BlockedBy(ck, s) = {}
  <2>1. status \in {"succeeded", "failed", "running"} => ck.stage[s].attempt > 0
    BY DEF Sound, Shape, WithStatus
  <2>2. QED
    BY <2>1, SatisfiedMeansDone DEF Sound, DependenciesDone
<1>5. CASE ck.stage[s].error = "interrupted"
  <2>1. reason = "interrupted"
    BY <1>5 DEF AbsenceReason
  <2>2. QED
    BY <1>2, <1>5, <2>1 DEF AbsenceReasons, None
<1>6. CASE ck.stage[s].error # "interrupted" /\
           status \in {"skipped_by_scope", "external_prerequisite", "out_of_range"}
  <2>1. reason \in {"operator_scoped_skip", "external_prerequisite", "outside_selected_range"}
    BY <1>6 DEF AbsenceReason
  <2>2. QED
    BY <1>6, <2>1 DEF AbsenceReasons, None
<1>7. CASE ck.stage[s].error # "interrupted" /\ status \in {"succeeded", "failed", "running"}
  <2>1. reason = None
    BY <1>4, <1>7 DEF AbsenceReason
  <2>2. QED
    BY <1>7, <2>1 DEF None
<1>8. CASE ck.stage[s].error # "interrupted" /\ status = "blocked_dependency"
  <2>1. reason = "blocked_by_dependency"
    BY <1>8 DEF AbsenceReason
  <2>2. QED
    BY <1>3, <1>8, <2>1 DEF AbsenceReasons, None, Unfinished, Interrupted
<1>9. CASE ck.stage[s].error # "interrupted" /\ status = "pending"
  <2>1. CASE BlockedBy(ck, s) # {}
    <3>1. reason = "blocked_by_dependency"
      BY <1>9, <2>1 DEF AbsenceReason
    <3>2. QED
      BY <1>9, <2>1, <3>1 DEF AbsenceReasons, None, Unfinished
  <2>2. CASE BlockedBy(ck, s) = {}
    <3>1. reason \in {"range_continuation", "workflow_paused", "workflow_blocked", "not_started"}
      BY <1>9, <2>2 DEF AbsenceReason
    <3>2. QED
      BY <1>9, <3>1 DEF AbsenceReasons, None
  <2>3. QED
    BY <2>1, <2>2
<1>10. QED
  BY <1>1, <1>5, <1>6, <1>7, <1>8, <1>9

LEMMA BuiltFields ==
  ASSUME NEW ck \in Checkpoint, NEW ranged \in BOOLEAN
  PROVE  LET rep == Built(ck, ranged) IN
         /\ rep.status = ck.status /\ rep.resume = ck.resume
         /\ rep.available <=> ck.resume # NoStage
         /\ \A s \in Stage : rep.stage[s] = StageEntry(ck, ranged, s)
         /\ rep.summary = StageSummary(rep)
<1> DEFINE stage == [s \in Stage |-> StageEntry(ck, ranged, s)]
           bare == [status |-> ck.status, resume |-> ck.resume,
                    available |-> ck.resume # NoStage, stage |-> stage]
<1>0. \A s \in Stage : stage[s] = StageEntry(ck, ranged, s)
  OBVIOUS
<1>1. Built(ck, ranged) =
        [status |-> ck.status, resume |-> ck.resume, available |-> ck.resume # NoStage,
         stage |-> stage, summary |-> StageSummary(bare)]
  BY DEF Built
<1> HIDE DEF stage
<1>2. Built(ck, ranged).stage = bare.stage
  BY <1>1
<1>3. StageSummary(Built(ck, ranged)) = StageSummary(bare)
  BY <1>2 DEF StageSummary, ByStatus, ByAbsence, Entries, FailureCount, WithHistory, Active,
              Recovered
<1>4. Built(ck, ranged).stage = stage
  BY <1>2
<1>5. /\ Built(ck, ranged).status = ck.status /\ Built(ck, ranged).resume = ck.resume
      /\ Built(ck, ranged).available = (ck.resume # NoStage)
      /\ Built(ck, ranged).summary = StageSummary(bare)
  BY <1>1
<1>6. QED
  BY <1>0, <1>3, <1>4, <1>5

LEMMA EntryFields ==
  ASSUME NEW ck \in Checkpoint, NEW ranged \in BOOLEAN, NEW s \in Stage
  PROVE  LET e == StageEntry(ck, ranged, s) IN
         /\ e.status = ck.stage[s].status /\ e.attempt = ck.stage[s].attempt
         /\ e.error = ck.stage[s].error /\ e.provider = ck.stage[s].provider
         /\ e.failures = ck.stage[s].failures /\ e.lastError = ck.stage[s].lastError
         /\ e.recovered = ck.stage[s].recovered
         /\ e.absence = AbsenceReason(ck, ranged, s) /\ e.blockedBy = BlockedBy(ck, s)
BY DEF StageEntry

\* Every count of a report is the number of stages it is a count of.
LEMMA CountsAddUp ==
  ASSUME NEW rep, \A s \in Stage : rep.stage[s].status \in StageStatus,
         \A s \in Stage : rep.stage[s].absence \in AbsenceReasons \cup {None}
  PROVE  /\ Total(ByStatus(rep)) = N
         /\ Total(ByAbsence(rep)) = Cardinality({s \in Stage : rep.stage[s].absence # None})
         /\ \A k \in StageStatus : ByStatus(rep)[k] = Cardinality(Entries(rep, {k}))
<1> DEFINE status  == [s \in Stage |-> rep.stage[s].status]
           absence == [s \in Stage |-> rep.stage[s].absence]
<1>1. Total(ByStatus(rep)) = N
  <2>1. Total(CountBy(status, StageStatus)) = Cardinality({s \in Stage : status[s] \in StageStatus})
    <3> HIDE DEF status
    <3> QED BY CountedOnce
  <2>2. {s \in Stage : status[s] \in StageStatus} = Stage
    OBVIOUS
  <2>3. QED
    BY <2>1, <2>2, StagesAreFinite DEF ByStatus
<1>2. Total(ByAbsence(rep)) = Cardinality({s \in Stage : rep.stage[s].absence # None})
  <2>1. Total(CountBy(absence, AbsenceReasons))
          = Cardinality({s \in Stage : absence[s] \in AbsenceReasons})
    <3> HIDE DEF absence
    <3> QED BY CountedOnce
  <2>2. {s \in Stage : absence[s] \in AbsenceReasons}
          = {s \in Stage : rep.stage[s].absence # None}
    BY DEF AbsenceReasons, None
  <2>3. QED
    BY <2>1, <2>2 DEF ByAbsence
<1>3. ASSUME NEW k \in StageStatus
      PROVE  ByStatus(rep)[k] = Cardinality(Entries(rep, {k}))
  <2>1. ByStatus(rep)[k] = Cardinality({s \in Stage : status[s] = k})
    BY DEF ByStatus, CountBy
  <2>2. {s \in Stage : status[s] = k} = Entries(rep, {k})
    BY DEF Entries
  <2>3. QED
    BY <2>1, <2>2
<1>4. QED
  BY <1>1, <1>2, <1>3

\* The provider failure numbers of a report keep the rules of its summary.
LEMMA FailuresAddUp ==
  ASSUME NEW rep, \A s \in Stage : rep.stage[s].failures \in Nat
  PROVE  /\ Cardinality(WithHistory(rep)) <= FailureCount(rep)
         /\ Cardinality(Active(rep)) <= Cardinality(WithHistory(rep))
         /\ Cardinality(Active(rep)) <= FailureCount(rep)
         /\ Cardinality(Recovered(rep)) <= FailureCount(rep)
         /\ Recovered(rep) \subseteq WithHistory(rep)
<1> DEFINE W == WithHistory(rep)
           counts == [s \in W |-> rep.stage[s].failures]
<1>1. W \subseteq Stage /\ Active(rep) \subseteq W /\ Recovered(rep) \subseteq W
  BY DEF WithHistory, Active, Recovered
<1>2. counts \in [W -> Nat \ {0}]
  BY DEF WithHistory
<1>3. IsFiniteSet(W)
  BY <1>1, StagesAreFinite, FS_Subset
<1> HIDE DEF counts, W
<1>4. Total(counts) \in Nat /\ Cardinality(W) <= Total(counts)
  BY <1>2, <1>3, TotalBound
<1>5. Cardinality(Active(rep)) <= Cardinality(W) /\ Cardinality(Recovered(rep)) <= Cardinality(W)
  BY <1>1, <1>3, FS_Subset
<1>6. /\ Cardinality(Active(rep)) \in Nat /\ Cardinality(Recovered(rep)) \in Nat
      /\ Cardinality(W) \in Nat
  BY <1>1, <1>3, FS_Subset, FS_CardinalityType
<1>7. FailureCount(rep) = Total(counts)
  BY DEF FailureCount, counts, W
<1>8. QED
  BY <1>1, <1>4, <1>5, <1>6, <1>7 DEF W

LEMMA SoundReport ==
  ASSUME NEW ck \in Checkpoint, ck.status # "none", Sound(ck), Explained(ck),
         NEW ranged \in BOOLEAN
  PROVE  LET rep == Built(ck, ranged) IN
         /\ ReportAccepted(rep) /\ AccountedFor(rep)
         /\ SummaryContract(SummarizeWorkflowExecution(rep))
<1> DEFINE rep == Built(ck, ranged)
<1>1. /\ rep.status = ck.status /\ rep.resume = ck.resume
      /\ rep.available <=> ck.resume # NoStage
      /\ \A s \in Stage : rep.stage[s] = StageEntry(ck, ranged, s)
      /\ rep.summary = StageSummary(rep)
  BY BuiltFields
<1> HIDE DEF rep
<1>2. \A s \in Stage :
        /\ rep.stage[s].status = ck.stage[s].status /\ rep.stage[s].attempt = ck.stage[s].attempt
        /\ rep.stage[s].error = ck.stage[s].error /\ rep.stage[s].provider = ck.stage[s].provider
        /\ rep.stage[s].failures = ck.stage[s].failures
        /\ rep.stage[s].lastError = ck.stage[s].lastError
        /\ rep.stage[s].recovered = ck.stage[s].recovered
        /\ rep.stage[s].absence = AbsenceReason(ck, ranged, s)
        /\ rep.stage[s].blockedBy = BlockedBy(ck, s)
  BY <1>1, EntryFields
<1>3. AccountedFor(rep)
  BY <1>2, AbsenceStated DEF AccountedFor
<1>4. \A s \in Stage : EntryAccepted(rep, s)
  <2> SUFFICES ASSUME NEW s \in Stage PROVE EntryAccepted(rep, s)
    OBVIOUS
  <2>1. ck.stage[s].status \in StageStatus
    BY RecordFields DEF StageRecord
  <2>2. RecordAccepted(ck.stage[s])
    BY DEF Sound, AllAccepted
  <2>3. ProviderEntryAccepted(rep.stage[s])
    BY <1>2, <2>2 DEF RecordAccepted, ProviderEntryAccepted, None
  <2>4. QED
    BY <1>2, <2>1, <2>3, AbsenceStated, SatisfiedMeansDone DEF EntryAccepted
<1>5. /\ Total(ByStatus(rep)) = N
      /\ Total(ByAbsence(rep)) = Cardinality({s \in Stage : rep.stage[s].absence # None})
      /\ \A k \in StageStatus : ByStatus(rep)[k] = Cardinality(Entries(rep, {k}))
  BY <1>4, CountsAddUp DEF EntryAccepted
<1>6. \A k \in {"failed", "skipped_by_scope", "blocked_dependency"} :
        ByStatus(rep)[k] = Cardinality(Entries(rep, {k}))
  BY <1>5 DEF StageStatus, TerminalSuccess, Unfinished, Interrupted
<1>7. rep.status \in WorkflowStatus /\ (rep.available <=> rep.resume # NoStage)
      /\ (rep.available => rep.resume \in Stage)
  BY <1>1 DEF Checkpoint
<1>8. ReportAccepted(rep)
  BY <1>1, <1>4, <1>5, <1>6, <1>7 DEF ReportAccepted, StageSummary
<1>9. FailuresContract([failureStages |-> WithHistory(rep), failures |-> FailureCount(rep),
                        active |-> Cardinality(Active(rep)), recovered |-> Recovered(rep)])
  <2>1. \A s \in Stage : rep.stage[s].failures \in Nat
    BY <1>2, RecordFields
  <2>2. QED
    BY <2>1, FailuresAddUp DEF FailuresContract
<1>10. SummaryContract(SummarizeWorkflowExecution(rep))
  <2> DEFINE sum == SummarizeWorkflowExecution(rep)
  <2>1. /\ sum.status = rep.status /\ sum.stages = N /\ sum.byStatus = ByStatus(rep)
        /\ sum.failed = Entries(rep, {"failed"}) /\ sum.skipped = Entries(rep, {"skipped_by_scope"})
        /\ sum.blocked = Entries(rep, {"blocked_dependency"})
        /\ sum.absent = Total(ByAbsence(rep)) /\ sum.byAbsence = ByAbsence(rep)
        /\ sum.available = rep.available /\ sum.resume = rep.resume
        /\ sum.failures = FailureCount(rep) /\ sum.active = Cardinality(Active(rep))
        /\ sum.failureStages = WithHistory(rep) /\ sum.recovered = Recovered(rep)
    BY <1>1 DEF SummarizeWorkflowExecution
  <2> HIDE DEF sum
  <2>2. FailuresContract(sum)
    BY <1>9, <2>1 DEF FailuresContract
  <2>3. QED
    BY <1>5, <1>6, <1>7, <2>1, <2>2 DEF SummaryContract, sum
<1>11. QED
  BY <1>3, <1>8, <1>10 DEF rep

\* Without a report there is a summary all the same.
LEMMA NoReport ==
  ASSUME NEW ranged \in BOOLEAN
  PROVE  SummaryContract(SummarizeWorkflowExecution(Built(NoCheckpoint, ranged)))
<1>1. SummarizeWorkflowExecution(Built(NoCheckpoint, ranged)) = NoSummary
  BY DEF SummarizeWorkflowExecution, Built, NoCheckpoint
<1>2. Total([k \in StageStatus |-> 0]) = 0
  <2> DEFINE zero == [k \in StageStatus |-> 0]
  <2>1. Units(zero) = {}
    BY DEF Units
  <2>2. QED
    BY <2>1, FS_EmptySet DEF Total
<1>3. Cardinality({}) = 0
  BY FS_EmptySet
<1>4. /\ NoSummary.byStatus["failed"] = 0 /\ NoSummary.byStatus["skipped_by_scope"] = 0
      /\ NoSummary.byStatus["blocked_dependency"] = 0
  BY DEF NoSummary, StageStatus, TerminalSuccess, Unfinished, Interrupted
<1>5. FailuresContract(NoSummary)
  BY <1>3 DEF FailuresContract, NoSummary
<1>6. /\ NoSummary.status = "not-recorded" /\ NoSummary.stages = 0
      /\ NoSummary.byStatus = [k \in StageStatus |-> 0]
      /\ NoSummary.failed = {} /\ NoSummary.skipped = {} /\ NoSummary.blocked = {}
      /\ ~NoSummary.present /\ ~NoSummary.available /\ NoSummary.resume = NoStage
  BY DEF NoSummary
<1>7. QED
  BY <1>1, <1>2, <1>3, <1>4, <1>5, <1>6 DEF SummaryContract
-----------------------------------------------------------------------------
(* The report of every checkpoint a step saves can be explained. *)

LEMMA StopExplained ==
  ASSUME NEW ck \in Checkpoint, Explained(ck), NEW status, NEW s
  PROVE  Explained(StopAt(ck, status, s))
<1>1. StopAt(ck, status, s).stage = ck.stage
  BY DEF StopAt, Checkpoint
<1>2. QED
  BY <1>1 DEF Explained, Unsatisfied, WithStatus

\* The record of the stage the loop is at is replaced.
LEMMA PutExplained ==
  ASSUME NEW ck \in Checkpoint, NEW s \in Stage, NEW r \in StageRecord, Explained(ck),
         WithStatus(ck, Interrupted) \subseteq {s},
         r.error = "interrupted" => r.status \in {"pending", "blocked_dependency"},
         r.status = "blocked_dependency" => Unsatisfied(ck, s) # {}
  PROVE  Explained(Put(ck, s, r))
<1> DEFINE new == Put(ck, s, r)
<1>1. new.stage[s] = r /\ \A t \in Stage \ {s} : new.stage[t] = ck.stage[t]
  BY PutType
<1> HIDE DEF new
<1>2. \A t \in Stage \ {s} : new.stage[t].status # "blocked_dependency"
  BY <1>1 DEF WithStatus, Interrupted
<1>3. r.status = "blocked_dependency" => Unsatisfied(new, s) # {}
  <2> SUFFICES ASSUME r.status = "blocked_dependency" PROVE Unsatisfied(new, s) # {}
    OBVIOUS
  <2>1. WithStatus(new, TerminalSuccess) \subseteq WithStatus(ck, TerminalSuccess)
    BY <1>1 DEF WithStatus, TerminalSuccess
  <2>2. QED
    BY <2>1 DEF Unsatisfied
<1>4. QED
  BY <1>1, <1>2, <1>3 DEF Explained, new

\* A failed stage blocks the pending stages that depend on it.
LEMMA WithBlockedExplained ==
  ASSUME NEW ck \in Checkpoint, NEW s \in Stage, Explained(ck), ck.stage[s].status = "failed"
  PROVE  Explained(WithBlocked(ck, s))
<1> DEFINE new == WithBlocked(ck, s)
<1>1. \A t \in Stage : new.stage[t] =
        IF ck.stage[t].status = "pending" /\ s \in DependsOn[t]
        THEN BlockedRecord(ck.stage[t]) ELSE ck.stage[t]
  BY WithBlockedType
<1> HIDE DEF new
<1>2. \A t \in Stage : BlockedRecord(ck.stage[t]).status = "blocked_dependency"
                      /\ BlockedRecord(ck.stage[t]).error = ck.stage[t].error
  BY RecordFields DEF BlockedRecord, StageRecord
<1>3. WithStatus(new, TerminalSuccess) \subseteq WithStatus(ck, TerminalSuccess)
  BY <1>1, <1>2 DEF WithStatus, TerminalSuccess
<1>4. s \notin WithStatus(ck, TerminalSuccess)
  BY DEF WithStatus, TerminalSuccess
<1>5. ASSUME NEW t \in Stage
      PROVE  /\ new.stage[t].error = "interrupted" =>
                   new.stage[t].status \in {"pending", "blocked_dependency"}
             /\ new.stage[t].status = "blocked_dependency" => Unsatisfied(new, t) # {}
  <2>1. CASE ck.stage[t].status = "pending" /\ s \in DependsOn[t]
    <3>1. s \in Unsatisfied(new, t)
      BY <1>3, <1>4, <2>1 DEF Unsatisfied
    <3>2. QED
      BY <1>1, <1>2, <2>1, <3>1
  <2>2. CASE ~(ck.stage[t].status = "pending" /\ s \in DependsOn[t])
    <3>1. Unsatisfied(ck, t) \subseteq Unsatisfied(new, t)
      BY <1>3 DEF Unsatisfied
    <3>2. new.stage[t] = ck.stage[t]
      BY <1>1, <2>2
    <3>3. QED
      BY <3>1, <3>2 DEF Explained
  <2>3. QED
    BY <2>1, <2>2
<1>6. QED
  BY <1>5 DEF Explained, new

LEMMA OpenedExplained ==
  /\ \A from, until \in Stage \cup {NoStage} :
       ValidRange(from, until) /\ TypeOK => Explained(NewCheckpoint(from, until))
  /\ \A ck \in Checkpoint :
       Explained(ck) /\ Sound(ck) /\ ck.resume \in Stage /\ ck.status \notin {"none", "succeeded"}
         => Explained(Reopened(ck))
<1>1. ASSUME NEW from, NEW until, ValidRange(from, until), TypeOK
      PROVE  Explained(NewCheckpoint(from, until))
  <2> DEFINE new == NewCheckpoint(from, until)
  <2>1. \A s \in Stage : new.stage[s] = NewRecord(InitialStatus(s, from, until))
    BY <1>1, NewCheckpointType DEF TypeOK
  <2> HIDE DEF new
  <2>2. \A s \in Stage : new.stage[s].error = "none" /\ new.stage[s].status # "blocked_dependency"
    BY <2>1, NewRecordFields, InitialStatusProperties
  <2>3. QED
    BY <2>2 DEF Explained, new
<1>2. ASSUME NEW ck \in Checkpoint, Explained(ck), Sound(ck), ck.resume \in Stage,
             ck.status \notin {"none", "succeeded"}
      PROVE  Explained(Reopened(ck))
  <2> DEFINE new == Reopened(ck)
  <2>1. WithStatus(new, Interrupted) = {}
    BY <1>2, ReopenedSound
  <2>2. \A s \in Stage : \/ new.stage[s] = ck.stage[s]
                        \/ new.stage[s] = ReopenedRecord(ck.stage[s])
    BY ReopenedType
  <2> HIDE DEF new
  <2>3. \A s \in Stage : new.stage[s].status # "blocked_dependency"
    BY <2>1 DEF WithStatus, Interrupted
  <2>4. \A s \in Stage : ReopenedRecord(ck.stage[s]).error = "none"
    BY RecordFields, ReopenedFields
  <2>5. QED
    BY <1>2, <2>2, <2>3, <2>4 DEF Explained, new
<1>3. QED
  BY <1>1, <1>2

LEMMA ExplainedLoop ==
  ASSUME TypeOK, CoreInv, Explained(disk), NEW p \in Procs, NEW s \in Stage
  PROVE  /\ GateClosed(p, s) \/ StopOnChangedCommand(p, s) \/ StopOnStaleInput(p, s)
              => Explained(disk')
         /\ StopOnDependency(p, s) => Explained(disk')
         /\ BeginStage(p, s) => Explained(disk')
<1> DEFINE r == disk.stage[s]
<1>1. ASSUME GateClosed(p, s) \/ StopOnChangedCommand(p, s) \/ StopOnStaleInput(p, s)
      PROVE  Explained(disk')
  <2>1. mem[p] = disk /\ disk \in Checkpoint
    BY <1>1, LoopState DEF GateClosed, StopOnChangedCommand, StopOnStaleInput
  <2>2. \E status : disk' = StopAt(disk, status, s)
    BY <1>1, <2>1 DEF GateClosed, StopOnChangedCommand, StopOnStaleInput, Save
  <2>3. QED
    BY <2>1, <2>2, StopExplained
<1>2. ASSUME StopOnDependency(p, s) \/ BeginStage(p, s)
      PROVE  mem[p] = disk /\ disk \in Checkpoint /\ r \in StageRecord
             /\ WithStatus(disk, Interrupted) = {}
  BY <1>2, LoopState, RecordFields DEF StopOnDependency, BeginStage
<1>3. ASSUME StopOnDependency(p, s) PROVE Explained(disk')
  <2> DEFINE new == BlockedRecord(r)
             ck  == Put(disk, s, new)
  <2>1. new \in StageRecord /\ new.status = "blocked_dependency"
    BY <1>2, <1>3, RecordTypes DEF BlockedRecord, StageRecord
  <2>2. disk' = StopAt(ck, "blocked", s) /\ Unsatisfied(disk, s) # {}
    BY <1>2, <1>3 DEF StopOnDependency, Save
  <2> HIDE DEF new
  <2>3. ck \in Checkpoint
    BY <1>2, <1>3, <2>1, PutType
  <2>4. Explained(ck)
    BY <1>2, <1>3, <2>1, <2>2, PutExplained
  <2> HIDE DEF ck
  <2>5. QED
    BY <2>2, <2>3, <2>4, StopExplained
<1>4. ASSUME BeginStage(p, s) PROVE Explained(disk')
  <2> DEFINE new == BegunRecord(r)
             ck  == Put(disk, s, new)
  <2>1. new \in StageRecord /\ new.status = "running" /\ new.error = "none"
    BY <1>2, <1>4, RecordTypes DEF BegunRecord, StageRecord
  <2>2. disk' = StopAt(ck, "running", s)
    BY <1>2, <1>4 DEF BeginStage, Save
  <2> HIDE DEF new
  <2>3. ck \in Checkpoint
    BY <1>2, <1>4, <2>1, PutType
  <2>4. Explained(ck)
    BY <1>2, <1>4, <2>1, PutExplained
  <2> HIDE DEF ck
  <2>5. QED
    BY <2>2, <2>3, <2>4, StopExplained
<1>5. QED
  BY <1>1, <1>3, <1>4

LEMMA ExplainedExit ==
  ASSUME TypeOK, CoreInv, Explained(disk), NEW p \in Procs, NEW s \in Stage, StageExits(p, s)
  PROVE  Explained(disk')
<1> DEFINE r == disk.stage[s]
<1>1. RunningStage(p, s)
  BY DEF StageExits, StageSucceeds, StageMissesOutput, StageFails, StageInterrupted
<1>2. /\ mem[p] = disk /\ disk \in Checkpoint /\ r \in StageRecord
      /\ WithStatus(disk, Interrupted) = {s}
  BY <1>1, CommandState
<1>3. \A new \in StageRecord :
        /\ new.error = "interrupted" => new.status = "pending"
        /\ new.status # "blocked_dependency"
        => Put(disk, s, new) \in Checkpoint /\ Explained(Put(disk, s, new))
  BY <1>2, PutType, PutExplained
<1>4. CASE StageSucceeds(p, s)
  <2> DEFINE new == SucceededRecord(r, files[s])
             ck  == Put(disk, s, new)
  <2>1. new \in StageRecord /\ new.status = "succeeded" /\ new.error = "none"
    <3>1. files[s] \in Content \cup {Absent}
      BY DEF TypeOK
    <3>2. new \in StageRecord
      <4> HIDE DEF r
      <4> QED BY <1>2, <3>1, RecordTypes
    <3> HIDE DEF r
    <3>3. new.status = "succeeded" /\ new.error = "none"
      BY <1>2 DEF SucceededRecord, StageRecord
    <3> QED BY <3>2, <3>3
  <2>2. \E status, t : disk' = StopAt(ck, status, t)
    BY <1>2, <1>4 DEF StageSucceeds, Save
  <2> HIDE DEF new
  <2>3. ck \in Checkpoint /\ Explained(ck)
    BY <1>3, <2>1
  <2> HIDE DEF ck
  <2>4. QED
    BY <2>2, <2>3, StopExplained
<1>5. CASE StageMissesOutput(p, s)
  <2> DEFINE new == MissingOutputRecord(r)
             ck  == Put(disk, s, new)
  <2>1. new \in StageRecord /\ new.status = "failed" /\ new.error # "interrupted"
    BY <1>2, RecordTypes DEF MissingOutputRecord, StageRecord
  <2>2. disk' = StopAt(ck, "blocked", s)
    BY <1>2, <1>5 DEF StageMissesOutput, Save
  <2> HIDE DEF new
  <2>3. ck \in Checkpoint /\ Explained(ck)
    BY <1>3, <2>1
  <2> HIDE DEF ck
  <2>4. QED
    BY <2>2, <2>3, StopExplained
<1>6. CASE StageInterrupted(p, s)
  <2> DEFINE new == InterruptedRecord(r)
             ck  == Put(disk, s, new)
  <2>1. new \in StageRecord /\ new.status = "pending"
    BY <1>2, RecordTypes DEF InterruptedRecord, StageRecord
  <2>2. disk' = StopAt(ck, "paused", s)
    BY <1>2, <1>6 DEF StageInterrupted, Save
  <2> HIDE DEF new
  <2>3. ck \in Checkpoint /\ Explained(ck)
    BY <1>3, <2>1
  <2> HIDE DEF ck
  <2>4. QED
    BY <2>2, <2>3, StopExplained
<1>7. ASSUME NEW e \in OptionalError, StageFails(p, s, e) PROVE Explained(disk')
  <2> DEFINE new == FailedRecord(r, e)
             ck  == Put(disk, s, new)
             all == WithBlocked(ck, s)
  <2>1. new \in StageRecord /\ new.status = "failed" /\ new.error # "interrupted"
    <3>1. new \in StageRecord
      BY <1>2, RecordTypes
    <3>2. CASE e = "none"
      BY <1>2, <3>1, <3>2 DEF FailedRecord, StageRecord
    <3>3. CASE e # "none"
      BY <1>2, <3>1, <3>3 DEF FailedRecord, StageRecord
    <3>4. QED
      BY <3>1, <3>2, <3>3
  <2>2. disk' = StopAt(all, "blocked", s)
    BY <1>2, <1>7 DEF StageFails, Save
  <2> HIDE DEF new
  <2>3. ck \in Checkpoint /\ Explained(ck) /\ ck.stage[s].status = "failed"
    BY <1>2, <1>3, <2>1, PutType
  <2> HIDE DEF ck
  <2>4. all \in Checkpoint /\ Explained(all)
    BY <2>3, WithBlockedType, WithBlockedExplained
  <2> HIDE DEF all
  <2>5. QED
    BY <2>2, <2>4, StopExplained
<1>8. QED
  BY <1>4, <1>5, <1>6, <1>7 DEF StageExits

LEMMA ExplainedStep ==
  ASSUME TypeOK, CoreInv, disk.status # "none" => Explained(disk), [Next]_vars,
         disk'.status # "none"
  PROVE  Explained(disk')
<1>1. CASE UNCHANGED disk
  BY <1>1 DEF Explained, Unsatisfied, WithStatus
<1>2. ASSUME NEW p \in Procs, NEW from \in Stage \cup {NoStage},
             NEW until \in Stage \cup {NoStage}, OpenFresh(p, from, until)
      PROVE  Explained(disk')
  BY <1>2, OpenedExplained DEF OpenFresh, Save
<1>3. ASSUME NEW p \in Procs, OpenResume(p) PROVE Explained(disk')
  <2>1. /\ disk' = Reopened(disk) /\ disk.status \notin {"none", "succeeded"}
        /\ disk.resume \in Stage /\ disk \in Checkpoint
    BY <1>3 DEF OpenResume, Resumable, CheckpointAccepted, Save, TypeOK
  <2>2. Sound(disk) /\ Explained(disk)
    BY <2>1 DEF CoreInv, DiskInv
  <2>3. QED
    BY <2>1, <2>2, OpenedExplained
<1>4. ASSUME NEW p \in Procs, FinishRange(p) PROVE Explained(disk')
  <2>1. mem[p] = disk /\ disk \in Checkpoint /\ disk.status = "running"
    BY <1>4, LoopState DEF FinishRange
  <2>2. \E status, s : disk' = StopAt(disk, status, s)
    BY <1>4, <2>1 DEF FinishRange, Save
  <2>3. QED
    BY <2>1, <2>2, StopExplained
<1>5. ASSUME NEW p \in Procs, Loop(p) PROVE Explained(disk')
  <2>1. PICK s \in Stage :
          \/ GateOpen(p, s)
          \/ GateClosed(p, s) \/ StopOnChangedCommand(p, s) \/ StopOnStaleInput(p, s)
          \/ StopOnDependency(p, s)
          \/ BeginStage(p, s)
    BY <1>5 DEF Loop
  <2>2. CASE GateOpen(p, s)
    BY <1>1, <2>2 DEF GateOpen, store
  <2>3. CASE ~GateOpen(p, s)
    <3>1. pc[p] \in {"loop", "gated"}
      BY <2>1, <2>3 DEF GateClosed, StopOnChangedCommand, StopOnStaleInput, StopOnDependency,
                        BeginStage
    <3>2. Explained(disk)
      BY <3>1, LoopState
    <3>3. QED
      BY <2>1, <2>3, <3>2, ExplainedLoop
  <2>4. QED
    BY <2>2, <2>3
<1>6. ASSUME NEW p \in Procs, NEW s \in Stage, StageExits(p, s) PROVE Explained(disk')
  <2>1. RunningStage(p, s)
    BY <1>6 DEF StageExits, StageSucceeds, StageMissesOutput, StageFails, StageInterrupted
  <2>2. Explained(disk)
    BY <2>1, CommandState
  <2>3. QED
    BY <1>6, <2>2, ExplainedExit
<1>7. ASSUME NEW p \in Procs, Step(p) PROVE Explained(disk')
  <2>1. UNCHANGED disk
        \/ (\E from, until \in Stage \cup {NoStage} : OpenFresh(p, from, until))
        \/ OpenResume(p) \/ Loop(p) \/ FinishRange(p) \/ \E s \in Stage : StageExits(p, s)
    BY <1>7 DEF Step, Open, AcquireLock, LockBusy, Refuse, WriteReport, Release, store
  <2>2. QED
    BY <1>1, <1>2, <1>3, <1>4, <1>5, <1>6, <2>1
<1>8. ASSUME NEW p \in Procs,
             \/ \E mode \in {"fresh", "resume"} : Invoke(p, mode)
             \/ Command(p) \/ Abort(p) \/ Kill(p)
      PROVE  UNCHANGED disk
  BY <1>8 DEF Invoke, Command, StageWrites, Abort, Kill, store
<1>9. Operator => UNCHANGED disk
  BY DEF Operator, SetRunState, PauseAgain, ClearPause, EditFile, Upgrade, RecoverLock,
         RemoveLeftover, store
<1>10. UNCHANGED vars => UNCHANGED disk
  BY DEF vars
<1>11. QED
  BY <1>1, <1>7, <1>8, <1>9, <1>10 DEF Next

LEMMA ReportStep ==
  ASSUME TypeOK, CoreInv, [Next]_vars
  PROVE  UNCHANGED report \/ (report' = disk /\ disk.status # "none" /\ Sound(disk))
<1>1. ASSUME NEW p \in Procs, WriteReport(p)
      PROVE  report' = disk /\ disk.status # "none" /\ Sound(disk)
  <2>1. pc[p] = "report" /\ pc[p] \in Holding /\ pc[p] \in Working
    BY <1>1 DEF WriteReport, Holding, PC, Working
  <2>2. mem[p] = disk /\ disk.status # "none"
    BY <2>1 DEF CoreInv, ExclusiveCheckpoint, ControlInv
  <2>3. QED
    BY <1>1, <2>2 DEF WriteReport, CoreInv, DiskInv
<1>2. ASSUME NEW p \in Procs, Step(p)
      PROVE  UNCHANGED report \/ WriteReport(p)
  BY <1>2 DEF Step, Open, AcquireLock, LockBusy, OpenFresh, OpenResume, Refuse, Loop, GateOpen,
              GateClosed, StopOnChangedCommand, StopOnDependency, StopOnStaleInput, BeginStage,
              FinishRange, StageExits, StageSucceeds, StageMissesOutput, StageFails,
              StageInterrupted, Release, store
<1>3. ASSUME NEW p \in Procs,
             \/ \E mode \in {"fresh", "resume"} : Invoke(p, mode)
             \/ Command(p) \/ Abort(p) \/ Kill(p)
      PROVE  UNCHANGED report
  BY <1>3 DEF Invoke, Command, StageWrites, Abort, Kill, store
<1>4. Operator => UNCHANGED report
  BY DEF Operator, SetRunState, PauseAgain, ClearPause, EditFile, Upgrade, RecoverLock,
         RemoveLeftover, store
<1>5. UNCHANGED vars => UNCHANGED report
  BY DEF vars
<1>6. QED
  BY <1>1, <1>2, <1>3, <1>4, <1>5 DEF Next

\* Wherever an execution stops, its report on disk is accepted, accounts for
\* every stage once, and its summary keeps the contract of the reports that
\* embed it (build_workflow_execution against validate_workflow_execution).
THEOREM ReportsAddUp == Spec => []ReportAddsUp
<1>1. Init => ReportInv
  BY DEF Init, ReportInv, NoCheckpoint
<1>2. IInv /\ ReportInv /\ [Next]_vars => ReportInv'
  <2> SUFFICES ASSUME IInv, ReportInv, [Next]_vars PROVE ReportInv'
    OBVIOUS
  <2>1. TypeOK /\ CoreInv
    BY DEF IInv, CoreInv
  <2>2. disk'.status # "none" => Explained(disk')
    BY <2>1, ExplainedStep DEF ReportInv
  <2>3. report' # NoCheckpoint =>
          report'.status # "none" /\ Sound(report') /\ Explained(report')
    BY <2>1, ReportStep DEF ReportInv
  <2>4. QED
    BY <2>2, <2>3 DEF ReportInv
<1>3. IInv /\ ReportInv => ReportAddsUp
  <2> SUFFICES ASSUME IInv, ReportInv, NEW ranged \in BOOLEAN
               PROVE  LET rep == Built(report, ranged) IN
                      /\ report # NoCheckpoint => ReportAccepted(rep) /\ AccountedFor(rep)
                      /\ SummaryContract(SummarizeWorkflowExecution(rep))
    BY DEF ReportAddsUp
  <2>1. report \in Checkpoint
    BY DEF IInv, TypeOK
  <2>2. CASE report = NoCheckpoint
    BY <2>2, NoReport
  <2>3. CASE report # NoCheckpoint
    BY <2>1, <2>3, SoundReport DEF ReportInv
  <2>4. QED
    BY <2>2, <2>3
<1>4. QED
  BY <1>1, <1>2, <1>3, Invariance, PTL DEF Spec
=============================================================================
