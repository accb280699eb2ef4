-------------------------------- MODULE Batch ---------------------------------
(* gra-batch (src/genai_repo_auditor/batch_cli.py) and the gra-audit processes  *)
(* it starts (audit_cli.py), one per line of the repository list: one after the *)
(* other, or from a pool of threads.                                            *)
(*                                                                              *)
(* Each audit takes the lock of its repository and ends with a status; the      *)
(* batch writes that status as the last line of a log file named after the      *)
(* repository, and reads the logs, not the processes, for its results.  Names   *)
(* that differ may have one log or one lock, a repository may be listed twice,  *)
(* and a --batch-id given again finds the logs of the earlier invocation.       *)
EXTENDS Integers, Sequences, FiniteSets, Functions

CONSTANTS
  Lists,          \* repository lists
  LogOf(_),       \* safe_name
  SlugOf(_),      \* slug_from_repo
  Logs,           \* the names of log files
  Slugs,          \* the names of locks
  Workers,        \* --concurrency of a batch that has a pool
  MaxInvocations  \* invocations with one --batch-id

\* Every repository listed has a log and a lock.
ASSUME BatchAssumption ==
  \A l \in Lists :
    /\ l \in Seq(Range(l))
    /\ \A i \in DOMAIN l : LogOf(l[i]) \in Logs /\ SlugOf(l[i]) \in Slugs

VARIABLES
  list,     \* the repositories of this invocation
  options,  \* [pool, failFast, allow]
  phase,    \* of the batch: idle, running, done
  job,      \* one audit per line of the list; flawed: its session or a check failed
  log,      \* log files: whether they exist, the "audit done" lines a reader finds
  lock,     \* runs/.locks: nobody, a line of the list, or another process
  results,  \* batch-results.json: a status text per line
  exit,     \* what the batch returned
  passed,   \* history: repositories an audit under this batch id succeeded for
  count     \* history: invocations so far

vars == << list, options, phase, job, log, lock, results, exit, passed, count >>

Lines == DOMAIN list
NoFile == [exists |-> FALSE, done |-> << >>]
Free == 0
Stray == -1      \* a lock whose process is not of this batch, or dead

\* Not numbers in the code: no status yet, "not-run", "missing-findings-json".
NoStatus == 1000
NotRun == 1001
Missing == 1002
Words == {NoStatus, NotRun, Missing}

\* Exit statuses: a lock held, killed by a signal.
Locked == 12
Killed == -9

Fresh == [at |-> "queued", status |-> NoStatus, flawed |-> FALSE]

Init ==
  /\ list = << >> /\ options = [pool |-> FALSE, failFast |-> FALSE, allow |-> FALSE]
  /\ phase = "idle" /\ job = << >>
  /\ log = [n \in Logs |-> NoFile]
  /\ lock = [s \in Slugs |-> Free]
  /\ results = << >> /\ exit = NoStatus /\ passed = {} /\ count = 0

\* main: --fail-fast needs --concurrency 1; what an earlier invocation logged stays.
Invoke ==
  /\ phase # "running" /\ count < MaxInvocations
  /\ count' = count + 1
  /\ list' \in Lists
  /\ options' \in [pool : BOOLEAN, failFast : BOOLEAN, allow : {FALSE}]
  /\ ~(options'.pool /\ options'.failFast)
  /\ phase' = "running"
  /\ job' = [i \in DOMAIN list' |-> Fresh]
  /\ results' = << >> /\ exit' = NoStatus
  /\ UNCHANGED << log, lock, passed >>

-------------------------------------------------------------------------------
(* One audit                                                                    *)

Log(i) == LogOf(list[i])
Slug(i) == SlugOf(list[i])
At(i, places) == phase = "running" /\ i \in Lines /\ job[i].at \in places
Active(i) == job[i].at \notin {"queued", "logged"}
Failed(i) == job[i].at = "logged" /\ job[i].status # 0

Stopped == options.failFast /\ \E i \in Lines : Failed(i)

\* Mutant of OpenLog: the log is opened for appending.
OpenLogAppending(i) ==
  log' = [log EXCEPT ![Log(i)].exists = TRUE]

\* The log is opened with "w".
OpenLog(i) == log' = [log EXCEPT ![Log(i)] = [exists |-> TRUE, done |-> << >>]]

\* run_one in the order of the list, as many at a time as there are threads.
Start(i) ==
  /\ At(i, {"queued"}) /\ \A j \in Lines : j < i => job[j].at # "queued"
  /\ Cardinality({j \in Lines : Active(j)}) < IF options.pool THEN Workers ELSE 1
  /\ ~Stopped
  /\ job' = [job EXCEPT ![i].at = "begun"]
  /\ OpenLog(i)
  /\ UNCHANGED << list, options, phase, lock, results, exit, passed, count >>

Ends(i, status) ==
  /\ job' = [job EXCEPT ![i].at = "ended", ![i].status = status]
  /\ passed' = IF status = 0 THEN passed \cup {list[i]} ELSE passed
  /\ UNCHANGED << list, options, phase, log, results, exit, count >>

Release(i) == lock' = [lock EXCEPT ![Slug(i)] = Free]

\* Mutant of TakeLock: a lock directory that exists is taken over.
TakeLockAnyway(i) ==
  /\ At(i, {"begun"})
  /\ lock' = [lock EXCEPT ![Slug(i)] = i]
  /\ job' = [job EXCEPT ![i].at = "clone"]
  /\ UNCHANGED << list, options, phase, log, results, exit, passed, count >>

TakeLock(i) ==
  /\ At(i, {"begun"}) /\ lock[Slug(i)] = Free
  /\ lock' = [lock EXCEPT ![Slug(i)] = i]
  /\ job' = [job EXCEPT ![i].at = "clone"]
  /\ UNCHANGED << list, options, phase, log, results, exit, passed, count >>

LockedOut(i) ==
  /\ At(i, {"begun"}) /\ lock[Slug(i)] # Free
  /\ Ends(i, Locked)
  /\ UNCHANGED lock

\* A command before the session fails: the exception passes the finally clause.
CloneFails(i) ==
  /\ At(i, {"clone"})
  /\ Release(i) /\ Ends(i, 1)

\* Mode "goal" prepares the run and does not start a session.
PrepareGoal(i) ==
  /\ At(i, {"clone"})
  /\ Release(i) /\ Ends(i, 0)

\* What the parent sees of the integer given to SystemExit.
ExitCode(status) == status % 256

NumericOrOne(status) == IF status \in Nat \ Words THEN status ELSE 1

\* Mutant of FinalStatus: a missing report counts as no report to validate.
FinalStatusLenient(codex, queue, taxonomy, validation) ==
  IF codex = 0 /\ validation \notin {0, Missing} THEN NumericOrOne(validation)
  ELSE IF codex = 0 /\ taxonomy \notin {0, NotRun} THEN NumericOrOne(taxonomy)
  ELSE IF codex = 0 /\ queue \notin {0, NotRun} THEN NumericOrOne(queue)
  ELSE codex

\* The last of the failed checks decides.
FinalStatus(codex, queue, taxonomy, validation) ==
  IF codex = 0 /\ validation # 0 THEN NumericOrOne(validation)
  ELSE IF codex = 0 /\ taxonomy \notin {0, NotRun} THEN NumericOrOne(taxonomy)
  ELSE IF codex = 0 /\ queue \notin {0, NotRun} THEN NumericOrOne(queue)
  ELSE codex

\* The codex session and the artifacts it leaves: target queue, taxonomies and
\* report are then checked as far as they exist.
Session(i) ==
  /\ At(i, {"clone"})
  /\ \E codex \in {0, 1, Killed}, left \in SUBSET {"findings", "targets"} :
     \E queue \in IF codex = 0 /\ "targets" \in left THEN {0, 1} ELSE {NotRun},
        taxonomy \in IF left # {} THEN {0, 1} ELSE {NotRun},
        validation \in IF "findings" \in left THEN {0, 1} ELSE {Missing} :
       LET status == ExitCode(FinalStatus(codex, queue, taxonomy, validation))
       IN /\ job' = [job EXCEPT ![i].at = "ended", ![i].status = status,
                       ![i].flawed = codex # 0 \/ 1 \in {queue, taxonomy, validation}
                                       \/ "findings" \notin left]
          /\ passed' = IF status = 0 THEN passed \cup {list[i]} ELSE passed
  /\ Release(i)
  /\ UNCHANGED << list, options, phase, log, results, exit, count >>

\* The audit is killed; its lock directory stays.
Kill(i) ==
  /\ At(i, {"clone"})
  /\ lock' = [lock EXCEPT ![Slug(i)] = Stray]
  /\ Ends(i, Killed)

\* Others with the same file open: each writes at an offset of its own, so any
\* line may be overwritten or glued to something else, and shows no status then.
Shared(i) == \E j \in Lines \ {i} : Log(j) = Log(i) /\ Active(j)

DoneLine(i) == [repo |-> list[i], status |-> job[i].status]

Readable(done, kept) ==
  [k \in DOMAIN done |-> IF k \in kept THEN done[k] ELSE [done[k] EXCEPT !.status = NoStatus]]

\* The "audit done" line.
WriteLog(i) ==
  /\ At(i, {"ended"})
  /\ job' = [job EXCEPT ![i].at = "logged"]
  /\ LET done == Append(log[Log(i)].done, DoneLine(i))
     IN \E kept \in SUBSET DOMAIN done :
          /\ Shared(i) \/ kept = DOMAIN done
          /\ log' = [log EXCEPT ![Log(i)].done = Readable(done, kept)]
  /\ UNCHANGED << list, options, phase, lock, results, exit, passed, count >>

\* Another gra-audit takes or releases the lock, or an operator removes a dead one.
OtherAudit(s) ==
  /\ phase = "running" /\ lock[s] \in {Free, Stray}
  /\ lock' = [lock EXCEPT ![s] = IF @ = Free THEN Stray ELSE Free]
  /\ UNCHANGED << list, options, phase, job, log, results, exit, passed, count >>

-------------------------------------------------------------------------------
(* Results                                                                      *)

\* re.search: the first line of the repository whose status has digits only.
StatusIn(done, repo) ==
  LET found == {k \in DOMAIN done : done[k].repo = repo /\ done[k].status \in Nat \ Words}
  IN IF found = {} THEN NoStatus ELSE done[CHOOSE k \in found : \A j \in found : k <= j].status

StatusText(i) ==
  LET status == StatusIn(log[Log(i)].done, list[i])
  IN IF ~log[Log(i)].exists THEN "not-run"
     ELSE IF status = NoStatus THEN "unknown"
     ELSE IF status = 0 THEN "success" ELSE "failed"

\* Mutant of Returned: only what the results show counts.
ReturnedByResults(texts) ==
  IF \E i \in Lines : texts[i] \in {"failed", "unknown"} THEN 1 ELSE 0

\* Without --allow-failures: a failure in the results, or batch_status.
Returned(texts) ==
  IF \/ \E i \in Lines : texts[i] \in {"failed", "unknown"}
     \/ \E i \in Lines : Failed(i)
  THEN 1 ELSE 0

\* result_summary and the end of main.
Summarize ==
  /\ phase = "running"
  /\ \A i \in Lines : ~Active(i)
  /\ Stopped \/ \A i \in Lines : job[i].at = "logged"
  /\ LET texts == [i \in Lines |-> StatusText(i)]
     IN /\ results' = texts
        /\ \E allow \in BOOLEAN :
             /\ options' = [options EXCEPT !.allow = allow]
             /\ exit' = IF allow THEN 0 ELSE Returned(texts)
  /\ phase' = "done"
  /\ UNCHANGED << list, job, log, lock, passed, count >>

\* The batch and its audits are killed together.
KillBatch ==
  /\ phase = "running"
  /\ phase' = "idle"
  /\ lock' = [s \in Slugs |-> IF lock[s] = Free THEN Free ELSE Stray]
  /\ UNCHANGED << list, options, job, log, results, exit, passed, count >>

Audit(i) ==
  \/ Start(i) \/ TakeLock(i) \/ LockedOut(i) \/ CloneFails(i) \/ PrepareGoal(i)
  \/ Session(i) \/ Kill(i) \/ WriteLog(i)

Next ==
  \/ Invoke \/ Summarize \/ KillBatch
  \/ \E i \in Lines : Audit(i)
  \/ \E s \in Slugs : OtherAudit(s)

Spec == Init /\ [][Next]_vars

-------------------------------------------------------------------------------

(* "exit non-zero by default when one or more repository audits fail"           *)
(* (README.md:365), although the logs the results are read from may belong to   *)
(* another line of the list or to an earlier invocation.                        *)
ExitIsHonest ==
  phase = "done" /\ exit = 0 /\ ~options.allow => \A i \in Lines : job[i].status = 0

(* A line reported as a success had an audit of its own repository that         *)
(* succeeded under this batch id, even when another repository's audit writes   *)
(* the same log; and an audit that ran, and whose log is its own in the list,   *)
(* is reported as it ended, whatever earlier invocations left in that log       *)
(* (batch_cli.py:87-116).                                                       *)
ResultsAreReal ==
  phase = "done" => \A i \in Lines :
    /\ results[i] = "success" => list[i] \in passed
    /\ (job[i].at = "logged" /\ \A j \in Lines \ {i} : Log(j) # Log(i)) =>
         results[i] = CASE job[i].status = 0 -> "success"
                       [] job[i].status < 0 -> "unknown"
                       [] OTHER -> "failed"

(* Two audits of one repository, of this batch or of others, never work at the  *)
(* same time (docs/MULTI_REPO.md:31): who is past the lock holds it.            *)
OneAuditPerRepository ==
  phase = "running" => \A i \in Lines : job[i].at = "clone" => lock[Slug(i)] = i

(* An audit that ran a session succeeds only when the session did and every     *)
(* check of what it left passed, with a report there to check                   *)
(* (audit_cli.py:413-425).                                                      *)
SuccessIsValidated == \A i \in Lines : job[i].status = 0 => ~job[i].flawed
===============================================================================
