----------------------------- MODULE CommandEvents -----------------------------
(* The command-event log of a run and its readers: lib/run_events.py, the       *)
(* producers in bin/ that write one completion event each, and the part of      *)
(* lib/workflow_executor.py that attributes a provider failure to a stage from  *)
(* the events that appeared while the stage's command ran.                      *)
(*                                                                              *)
(* An event is written in two pieces ("head" and "tail", the tail ending with   *)
(* the newline), as os.write may write less than it was given: a process that   *)
(* dies or gets an error in between leaves a torn line.                         *)
EXTENDS Naturals, Sequences, FiniteSets, ProviderFailures

CONSTANTS
  Attempts,      \* command processes of the stage, one per attempt
  Others,        \* commands started beside the executor
  Texts,         \* what a failed worker may leave in its stderr file
  Preflights,    \* the kinds of preflight_command_event each process may make
  MaxEvents,     \* MAX_PROVIDER_EVENT_COUNT
  MaxNew,        \* MAX_NEW_PROVIDER_EVENTS
  NoProc

Procs == Attempts \cup Others

ASSUME ProcessesDiffer == Attempts \cap Others = {} /\ NoProc \notin Attempts \cup Others
ASSUME PreflightKinds == Preflights \in [Procs -> SUBSET {"none", "reserve", "release"}]
ASSUME ReaderBounds == MaxEvents \in Nat /\ MaxNew \in Nat

VARIABLES
  file,       \* [exists, log]: command-events.jsonl
  lock,       \* who made the lock directory .command-events.jsonl.lock
  pc,         \* where each command process is
  kind,       \* [same, preflight]: runs the stage's command? which preflight?
  exit,       \* exit code of each command so far
  error,      \* provider error its event carries
  existed,    \* existed_before of its preflight
  written,    \* its record was written to the end
  xpc,        \* the executor's place in an attempt
  current,    \* the process of the attempt that runs
  snapshot,   \* provider_event_ids
  stage       \* [status, provider, history]: the stage's record

writers == << file, lock, pc, kind, exit, error, existed, written >>
executor == << xpc, current, snapshot, stage >>
vars == << writers, executor >>

NoFile == [exists |-> FALSE, log |-> << >>]
Piece == [id : Procs, part : {"head", "tail"}]

Waiting == {"wait_check", "wait_append"}
Inside == {"check", "checked", "open", "half", "unlock_check", "unlock_append"}
Ended == {"done", "crashed"}
Phases == {"idle", "work"} \cup Waiting \cup Inside \cup Ended

-------------------------------------------------------------------------------
(* Readers.  Every line has to parse, or the whole stream is refused.           *)

WholeLines(log) ==
  /\ Len(log) % 2 = 0
  /\ \A i \in 1..(Len(log) \div 2) :
       /\ log[2 * i - 1].part = "head"
       /\ log[2 * i].part = "tail"
       /\ log[2 * i].id = log[2 * i - 1].id

Recorded(log) == {log[i].id : i \in {j \in DOMAIN log : log[j].part = "tail"}}

\* A line of p's own, which p's record neither shares nor ends early.
ReadableLine(log, p) ==
  \E i \in 1..(Len(log) - 1) :
    /\ log[i] = [id |-> p, part |-> "head"]
    /\ log[i + 1] = [id |-> p, part |-> "tail"]
    /\ i = 1 \/ log[i - 1].part = "tail"

Unsafe == [safe |-> FALSE, ids |-> {}]

\* _load_bounded_provider_events
BoundedEvents(log) ==
  IF WholeLines(log) /\ Len(log) \div 2 <= MaxEvents
  THEN [safe |-> TRUE, ids |-> Recorded(log)]
  ELSE Unsafe

NewErrors(before, now) ==
  {p \in now.ids \ before.ids : kind[p].same /\ exit[p] # 0 /\ error[p] # NoError}

\* Mutant of Attributed: events from before the attempt are not left out.
AttributedStale(before) ==
  LET now == BoundedEvents(file.log)
      errors == NewErrors(Unsafe, now)
  IN IF before.safe /\ now.safe /\ Cardinality(errors) = 1
     THEN error[CHOOSE p \in errors : TRUE]
     ELSE NoError

\* _provider_failure_from_new_events: one new error of the stage's command, or none.
Attributed(before) ==
  LET now == BoundedEvents(file.log)
      errors == NewErrors(before, now)
  IN IF before.safe /\ now.safe /\ Cardinality(now.ids \ before.ids) \in 1..MaxNew
          /\ Cardinality(errors) = 1
     THEN error[CHOOSE p \in errors : TRUE]
     ELSE NoError

-------------------------------------------------------------------------------
(* The event a command makes, and what its validators ask of it.  An event is   *)
(* not changed once written, and neither is the exit code of its command.       *)

StatusFromExit(code) == IF code = 0 THEN "succeeded" ELSE "failed"

EventOf(p) ==
  [exit |-> exit[p], status |-> StatusFromExit(exit[p]),
   provider |-> IF exit[p] # 0 THEN error[p] ELSE NoError]

\* What validate_provider_error accepts, or no error.
ErrorIsValid(e) == e = NoError \/ ValidError(e)

Statuses == {"succeeded", "failed", "blocked", "skipped", "warning"}

EventIsValid(e) ==
  /\ e.status \in Statuses
  /\ ErrorIsValid(e.provider)
  /\ e.provider # NoError => e.exit # 0 /\ e.status \in {"failed", "blocked"}

\* validate_command_events reads every line by itself: each is a record it accepts.
LogAccepted(log) ==
  WholeLines(log) /\ \A p \in Recorded(log) : EventIsValid(EventOf(p))

-------------------------------------------------------------------------------

Init ==
  /\ file = NoFile
  /\ lock = NoProc
  /\ pc = [p \in Procs |-> "idle"]
  /\ kind \in [Procs -> [same : BOOLEAN, preflight : {"none", "reserve", "release"}]]
  /\ \A p \in Procs : kind[p].preflight \in Preflights[p]
  /\ \A p \in Attempts : kind[p].same
  /\ exit = [p \in Procs |-> 0]
  /\ error = [p \in Procs |-> NoError]
  /\ existed = [p \in Procs |-> FALSE]
  /\ written = [p \in Procs |-> FALSE]
  /\ xpc = "idle"
  /\ current = NoProc
  /\ snapshot = Unsafe
  /\ stage = [status |-> "pending", provider |-> NoError, history |-> NoHistory]

Goto(p, place) == pc' = [pc EXCEPT ![p] = place]

-------------------------------------------------------------------------------
(* A command process.                                                           *)

Begin(p) ==
  Goto(p, IF kind[p].preflight = "none" THEN "work" ELSE "wait_check")

\* An operator, a script or another run of the workflow starts a command.
StartOther(p) ==
  /\ p \in Others /\ pc[p] = "idle"
  /\ Begin(p)
  /\ UNCHANGED << file, lock, kind, exit, error, existed, written, executor >>

\* Mutant of TakeLock: an existing lock directory is taken over.
TakeLockAnyway(p) ==
  /\ pc[p] \in Waiting
  /\ lock' = p
  /\ Goto(p, IF pc[p] = "wait_check" THEN "check" ELSE "open")
  /\ UNCHANGED << file, kind, exit, error, existed, written, executor >>

\* os.mkdir of the lock directory succeeds.
TakeLock(p) ==
  /\ pc[p] \in Waiting
  /\ lock = NoProc
  /\ lock' = p
  /\ Goto(p, IF pc[p] = "wait_check" THEN "check" ELSE "open")
  /\ UNCHANGED << file, kind, exit, error, existed, written, executor >>

\* Mutant of GiveUp: the wait has no deadline.
GiveUpNever(p) == FALSE /\ pc[p] \in Waiting /\ UNCHANGED vars

\* The deadline passes while the directory exists.  A failed preflight ends the
\* command; a failed append turns success into exit code 2 ("block") and leaves
\* another exit code as it is ("warn").
GiveUp(p) ==
  /\ pc[p] \in Waiting
  /\ lock # NoProc
  /\ exit' = [exit EXCEPT ![p] = IF @ = 0 THEN 2 ELSE @]
  /\ Goto(p, "done")
  /\ UNCHANGED << file, lock, kind, error, existed, written, executor >>

\* preflight_command_event under the lock.
CheckAndOpen(p) ==
  /\ pc[p] = "check"
  /\ existed' = [existed EXCEPT ![p] = file.exists]
  /\ file' = [file EXCEPT !.exists = TRUE]
  /\ Goto(p, "checked")
  /\ UNCHANGED << lock, kind, exit, error, written, executor >>

Withdraw(p) ==
  /\ pc[p] = "checked"
  /\ file' = IF kind[p].preflight = "release" /\ ~existed[p] THEN NoFile ELSE file
  /\ Goto(p, "unlock_check")
  /\ UNCHANGED << lock, kind, exit, error, existed, written, executor >>

Succeed(p) ==
  /\ pc[p] = "work"
  /\ Goto(p, "wait_append")
  /\ UNCHANGED << file, lock, kind, exit, error, existed, written, executor >>

\* The event of a failed command gets the provider error of its stderr.
Fail(p, t) ==
  /\ pc[p] = "work"
  /\ exit' = [exit EXCEPT ![p] = 1]
  /\ error' = [error EXCEPT ![p] = Classify(t)]
  /\ Goto(p, "wait_append")
  /\ UNCHANGED << file, lock, kind, existed, written, executor >>

\* build_command_event refuses the event, before the lock is asked for.
Refused(p) ==
  /\ pc[p] = "wait_append"
  /\ exit' = [exit EXCEPT ![p] = IF @ = 0 THEN 2 ELSE @]
  /\ Goto(p, "done")
  /\ UNCHANGED << file, lock, kind, error, existed, written, executor >>

WriteHead(p) ==
  /\ pc[p] = "open"
  /\ file' = [exists |-> TRUE, log |-> Append(file.log, [id |-> p, part |-> "head"])]
  /\ Goto(p, "half")
  /\ UNCHANGED << lock, kind, exit, error, existed, written, executor >>

WriteTail(p) ==
  /\ pc[p] = "half"
  /\ file' = [file EXCEPT !.log = Append(@, [id |-> p, part |-> "tail"])]
  /\ written' = [written EXCEPT ![p] = TRUE]
  /\ Goto(p, "unlock_append")
  /\ UNCHANGED << lock, kind, exit, error, existed, executor >>

\* open or write raises, or makes no progress.
WriteFails(p) ==
  /\ pc[p] \in {"open", "half"}
  /\ Goto(p, "unlock_append")
  /\ UNCHANGED << file, lock, kind, exit, error, existed, written, executor >>

\* Mutant of Release: a failed write is only warned about.
ReleaseWarning(p) ==
  /\ pc[p] \in {"unlock_check", "unlock_append"}
  /\ lock' = NoProc
  /\ Goto(p, IF pc[p] = "unlock_check" THEN "work" ELSE "done")
  /\ UNCHANGED << file, kind, exit, error, existed, written, executor >>

\* os.rmdir in the finally clause, and what the command returns after an append.
Release(p) ==
  /\ pc[p] \in {"unlock_check", "unlock_append"}
  /\ lock' = NoProc
  /\ Goto(p, IF pc[p] = "unlock_check" THEN "work" ELSE "done")
  /\ exit' = [exit EXCEPT ![p] =
                IF pc[p] = "unlock_append" /\ ~written[p] /\ @ = 0 THEN 2 ELSE @]
  /\ UNCHANGED << file, kind, error, existed, written, executor >>

\* Killed: a lock directory it made stays.
Crash(p) ==
  /\ pc[p] \notin Ended \cup {"idle"}
  /\ Goto(p, "crashed")
  /\ UNCHANGED << file, lock, kind, exit, error, existed, written, executor >>

Step(p) ==
  \/ TakeLock(p) \/ GiveUp(p) \/ CheckAndOpen(p) \/ Withdraw(p)
  \/ Succeed(p) \/ (\E t \in Texts : Fail(p, t)) \/ Refused(p)
  \/ WriteHead(p) \/ WriteTail(p) \/ WriteFails(p) \/ Release(p)

-------------------------------------------------------------------------------
(* The executor around one stage; --resume starts the next attempt.             *)

BeginAttempt(p) ==
  /\ xpc = "idle" /\ stage.status # "succeeded"
  /\ p \in Attempts /\ pc[p] = "idle"
  /\ xpc' = "ready" /\ current' = p
  /\ snapshot' = BoundedEvents(file.log)
  /\ stage' = [status |-> "running", provider |-> NoError,
               history |-> MarkRecovered(stage.history, FALSE)]
  /\ UNCHANGED writers

RunStage ==
  /\ xpc = "ready" /\ xpc' = "waiting"
  /\ Begin(current)
  /\ UNCHANGED << file, lock, kind, exit, error, existed, written, current, snapshot, stage >>

StageSucceeds ==
  /\ xpc = "waiting" /\ pc[current] = "done" /\ exit[current] = 0
  /\ stage' = [status |-> "succeeded", provider |-> NoError,
               history |-> MarkRecovered(stage.history, TRUE)]
  /\ xpc' = "idle"
  /\ UNCHANGED << writers, current, snapshot >>

\* Mutant of StageFails: the limit of the history is not looked at.
StageFailsUnbounded ==
  /\ xpc = "waiting" /\ pc[current] \in Ended
  /\ pc[current] = "crashed" \/ exit[current] # 0
  /\ LET e == Attributed(snapshot)
     IN stage' = [status |-> "failed", provider |-> e,
                  history |-> IF e = NoError THEN stage.history
                              ELSE RecordFailure(stage.history, e)]
  /\ xpc' = "idle"
  /\ UNCHANGED << writers, current, snapshot >>

\* record_provider_failure raises at its limit before the record is updated: the
\* executor ends with the stage still "running" on disk.
StageFails ==
  /\ xpc = "waiting" /\ pc[current] \in Ended
  /\ pc[current] = "crashed" \/ exit[current] # 0
  /\ LET e == Attributed(snapshot)
     IN stage' = CASE e = NoError ->
                        [stage EXCEPT !.status = "failed"]
                   [] e # NoError /\ CanRecord(stage.history) ->
                        [status |-> "failed", provider |-> e,
                         history |-> RecordFailure(stage.history, e)]
                   [] e # NoError /\ ~CanRecord(stage.history) -> stage
  /\ xpc' = "idle"
  /\ UNCHANGED << writers, current, snapshot >>

\* The executor is killed; its child goes on.
ExecutorDies ==
  /\ xpc # "idle" /\ xpc' = "idle"
  /\ UNCHANGED << writers, current, snapshot, stage >>

Executor ==
  \/ \E p \in Attempts : BeginAttempt(p)
  \/ RunStage \/ StageSucceeds \/ StageFails \/ ExecutorDies

Next ==
  \/ \E p \in Procs : StartOther(p) \/ Step(p) \/ Crash(p)
  \/ Executor

Spec == Init /\ [][Next]_vars

-------------------------------------------------------------------------------
(* Properties.                                                                  *)

TypeOK ==
  /\ file \in [exists : BOOLEAN, log : Seq(Piece)]
  /\ ~file.exists => file.log = << >>
  /\ lock \in Procs \cup {NoProc}
  /\ pc \in [Procs -> Phases]
  /\ kind \in [Procs -> [same : BOOLEAN, preflight : {"none", "reserve", "release"}]]
  /\ exit \in [Procs -> 0..2]
  /\ DOMAIN error = Procs /\ \A p \in Procs : ErrorIsValid(error[p])
  /\ existed \in [Procs -> BOOLEAN]
  /\ written \in [Procs -> BOOLEAN]
  /\ xpc \in {"idle", "ready", "waiting"}
  /\ current \in Attempts \cup {NoProc}
  /\ snapshot \in [safe : BOOLEAN, ids : SUBSET Procs]
  /\ DOMAIN stage = {"status", "provider", "history"}
  /\ stage.status \in {"pending", "running", "failed", "succeeded"}
  /\ ErrorIsValid(stage.provider)

HasHead(p) == [id |-> p, part |-> "head"] \in {file.log[i] : i \in DOMAIN file.log}
Torn(p) == HasHead(p) /\ ~written[p]

\* The lock keeps appends apart: while nobody is inside and no write was cut
\* short, every line of the log is one whole record (_atomic_append_jsonl) that
\* gra-validate accepts, whatever the worker's stderr made of its provider error.
LogIsWhole == lock = NoProc /\ (\A p \in Procs : ~Torn(p)) => LogAccepted(file.log)

\* "block": a command that reports success has its record in the log in one piece,
\* whatever the preflights, appends and deaths of other commands did.
SuccessIsRecorded ==
  \A p \in Procs : pc[p] = "done" /\ exit[p] = 0 =>
    \E i \in 1..(Len(file.log) - 1) :
      /\ file.log[i] = [id |-> p, part |-> "head"]
      /\ file.log[i + 1] = [id |-> p, part |-> "tail"]

\* With commands of the same name running beside the stage, or left over from a
\* killed executor, the stage is never given another's error in place of its own,
\* and never that of an event of an earlier attempt: gra-run consumes the metadata
\* "only from newly created, validated events" (docs/STAGED_AGENTIC_WORKFLOW.md).
AttributionIsSound ==
  stage.status = "failed" /\ stage.provider # NoError =>
    /\ current \in Recorded(file.log) /\ error[current] # NoError =>
         stage.provider = error[current]
    /\ \E p \in Procs \ snapshot.ids :
         ReadableLine(file.log, p) /\ kind[p].same /\ error[p] = stage.provider

\* Over several attempts, and up to the limit, the history satisfies the contract
\* its reader checks: the class counts add up, the last error is the one the
\* failed stage shows, and it is marked recovered exactly when the stage succeeded.
HistoryIsConsistent ==
  LET h == stage.history
  IN /\ h = NoHistory \/ ValidHistory(h)
     /\ h # NoHistory => (h.recovered <=> stage.status = "succeeded")
     /\ stage.provider # NoError => h.last = stage.provider

\* No command waits for another: each that is under way has a step of its own to
\* take, also behind the lock of a dead one, and as no step leads back it ends
\* (the deadline of _acquire_event_append_lock).
NobodyIsStuck == \A p \in Procs : pc[p] \notin {"idle"} \cup Ended => ENABLED Step(p)

===============================================================================
