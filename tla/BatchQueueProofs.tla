----------------------------- MODULE BatchQueueProofs -----------------------------
(***************************************************************************)
(* The batch of any repository lists, of any size, with any naming of logs  *)
(* and locks: no two audits work in one repository, an audit is a success   *)
(* only if what it left was checked, and so is the batch.                   *)
(*                                                                          *)
(* The target queue of any lists, budgets and policies, with any number of  *)
(* tools: what is stored is valid, and a tool that works alone neither      *)
(* changes the wave, nor forgets a target, nor undoes progress.             *)
(***************************************************************************)
EXTENDS Batch, TargetQueue, FiniteSetTheorems, FunctionTheorems, WellFoundedInduction, TLAPS

Job == [at : {"queued", "begun", "clone", "ended", "logged"}, status : Int, flawed : BOOLEAN]

TypeOK ==
  /\ job \in [Lines -> Job]
  /\ lock \in [Slugs -> Int]
  /\ \A i \in Lines : i \in Nat \ {0} /\ Slug(i) \in Slugs

(* An audit that has a status has passed its checks or failed; before that it has *)
(* neither.                                                                       *)
Judged ==
  \A i \in Lines :
    /\ job[i].at \in {"queued", "begun", "clone"} => job[i].status = NoStatus /\ ~ job[i].flawed
    /\ job[i].status = 0 => ~ job[i].flawed

IInv == TypeOK /\ Judged /\ OneAuditPerRepository /\ ExitIsHonest

Sessions == {0, 1, Killed}
Checks == {0, 1, NotRun}
Validations == {0, 1, Missing}

LEMMA Intervals ==
  ASSUME NEW n \in Nat
  PROVE  /\ IsFiniteSet(1 .. n) /\ Cardinality(1 .. n) = n
         /\ IsFiniteSet(0 .. n - 1) /\ Cardinality(0 .. n - 1) = n
<1>1. IsFiniteSet(1 .. n) /\ Cardinality(1 .. n) = n
  BY FS_Interval
<1>2. IsFiniteSet(0 .. n - 1) /\ Cardinality(0 .. n - 1) = n
  BY FS_Interval
<1> QED BY <1>1, <1>2

LEMMA ExitCodes ==
  ASSUME NEW n \in Int, -256 < n, n < 256, n # 0
  PROVE  ExitCode(n) \in 0 .. 255 \ {0}
<1>1. n % 256 \in 0 .. 255 /\ n = 256 * (n \div 256) + (n % 256) /\ n \div 256 \in Int
  OBVIOUS
<1> QED BY <1>1 DEF ExitCode

LEMMA FinalStatusIsHonest ==
  ASSUME NEW codex \in Sessions, NEW queue \in Checks, NEW taxonomy \in Checks,
         NEW validation \in Validations
  PROVE  /\ ExitCode(FinalStatus(codex, queue, taxonomy, validation)) \in 0 .. 255
         /\ ExitCode(FinalStatus(codex, queue, taxonomy, validation)) = 0 =>
              codex = 0 /\ queue # 1 /\ taxonomy # 1 /\ validation = 0
<1> USE DEF NotRun, Missing, NoStatus, Words, Killed, NumericOrOne, Sessions, Checks, Validations
<1>1. CASE codex # 0
  <2>1. FinalStatus(codex, queue, taxonomy, validation) = codex
    BY <1>1 DEF FinalStatus
  <2>2. codex \in Int /\ -256 < codex /\ codex < 256
    BY <1>1
  <2> QED BY <1>1, <2>1, <2>2, ExitCodes
<1>2. CASE codex = 0
  <2>1. FinalStatus(codex, queue, taxonomy, validation) \in {0, 1}
    BY <1>2 DEF FinalStatus
  <2>2. FinalStatus(codex, queue, taxonomy, validation) = 0 =>
          queue # 1 /\ taxonomy # 1 /\ validation = 0
    BY <1>2 DEF FinalStatus
  <2>3. 0 % 256 = 0 /\ 1 % 256 = 1
    OBVIOUS
  <2> QED BY <1>2, <2>1, <2>2, <2>3 DEF ExitCode
<1> QED BY <1>1, <1>2

(* How a session leaves its audit. *)
SessionYields(i, status, flaw) ==
  /\ job' = [job EXCEPT ![i].at = "ended", ![i].status = status, ![i].flawed = flaw]
  /\ passed' = IF status = 0 THEN passed \cup {list[i]} ELSE passed

(* Its status is the one its checks give, and it is flawed only if that is an error. *)
LEMMA SessionFacts ==
  ASSUME NEW i, Session(i)
  PROVE  \E status \in 0 .. 255, flaw \in BOOLEAN :
           (status = 0 => ~ flaw) /\ SessionYields(i, status, flaw)
<1> DEFINE Status(codex, queue, taxonomy, validation) ==
             ExitCode(FinalStatus(codex, queue, taxonomy, validation))
           Flaw(codex, left, queue, taxonomy, validation) ==
             codex # 0 \/ 1 \in {queue, taxonomy, validation} \/ "findings" \notin left
           Queues(codex, left) == IF codex = 0 /\ "targets" \in left THEN {0, 1} ELSE {NotRun}
           Taxonomies(left) == IF left # {} THEN {0, 1} ELSE {NotRun}
           Reviews(left) == IF "findings" \in left THEN {0, 1} ELSE {Missing}
<1>1. \E codex \in {0, 1, Killed}, left \in SUBSET {"findings", "targets"} :
        \E queue \in Queues(codex, left), taxonomy \in Taxonomies(left), validation \in Reviews(left) :
          SessionYields(i, Status(codex, queue, taxonomy, validation),
                        Flaw(codex, left, queue, taxonomy, validation))
  BY Zenon DEF Session, SessionYields
<1>2. ASSUME NEW codex \in {0, 1, Killed}, NEW left \in SUBSET {"findings", "targets"},
             NEW queue \in Queues(codex, left), NEW taxonomy \in Taxonomies(left),
             NEW validation \in Reviews(left)
      PROVE  /\ Status(codex, queue, taxonomy, validation) \in 0 .. 255
             /\ Flaw(codex, left, queue, taxonomy, validation) \in BOOLEAN
             /\ Status(codex, queue, taxonomy, validation) = 0
                  => ~ Flaw(codex, left, queue, taxonomy, validation)
  <2>1. /\ codex \in Sessions /\ queue \in Checks /\ taxonomy \in Checks /\ validation \in Validations
        /\ validation = 0 => "findings" \in left
    BY DEF Sessions, Checks, Validations, Missing
  <2>2. /\ Status(codex, queue, taxonomy, validation) \in 0 .. 255
        /\ Status(codex, queue, taxonomy, validation) = 0
             => codex = 0 /\ queue # 1 /\ taxonomy # 1 /\ validation = 0
    BY <2>1, FinalStatusIsHonest
  <2> HIDE DEF Status
  <2> QED BY <2>1, <2>2
<1> HIDE DEF Status, Flaw, Queues, Taxonomies, Reviews
<1> QED BY <1>1, <1>2

LEMMA BatchStarts == Init => IInv
<1> SUFFICES ASSUME Init PROVE IInv
  OBVIOUS
<1>1. Lines = {} /\ DOMAIN job = {} /\ job = << >>
  BY DEF Init, Lines
<1>2. job \in [Lines -> Job]
  BY <1>1
<1>3. lock \in [Slugs -> Int]
  BY DEF Init, Free
<1>4. phase = "idle"
  BY DEF Init
<1> QED BY <1>1, <1>2, <1>3, <1>4 DEF IInv, TypeOK, Judged, OneAuditPerRepository, ExitIsHonest

(* A step of one audit: its own job changes, its lock is free before it takes it *)
(* and its own otherwise.                                                        *)
LEMMA OneJobChanges ==
  ASSUME IInv, phase = "running", UNCHANGED << list, phase >>,
         NEW i \in Lines, NEW j \in Job, job' = [job EXCEPT ![i] = j],
         j.at \in {"queued", "begun", "clone"} => j.status = NoStatus /\ ~ j.flawed,
         j.status = 0 => ~ j.flawed,
         NEW holder \in Int,
         \/ lock' = lock /\ (j.at = "clone" => job[i].at = "clone")
         \/ /\ lock' = [lock EXCEPT ![Slug(i)] = holder]
            /\ \/ lock[Slug(i)] = Free /\ holder = i
               \/ job[i].at = "clone" /\ j.at # "clone"
  PROVE  IInv'
<1> USE DEF IInv
<1>1. Lines' = Lines /\ \A k \in Lines : Slug(k)' = Slug(k)
  BY DEF Lines, Slug
<1>2. job'[i] = j /\ \A k \in Lines \ {i} : job'[k] = job[k]
  BY DEF TypeOK
<1>3. TypeOK'
  BY <1>1 DEF TypeOK
<1>4. Judged'
  BY <1>1, <1>2 DEF Judged
<1>5. OneAuditPerRepository'
  <2> SUFFICES ASSUME NEW k \in Lines, job'[k].at = "clone"
               PROVE  lock'[Slug(k)] = k
    BY <1>1 DEF OneAuditPerRepository
  <2>1. k # i => lock[Slug(k)] = k
    BY <1>2 DEF OneAuditPerRepository
  <2>2. /\ Slug(k) \in Slugs /\ Slug(i) \in Slugs /\ Free \notin {i, k}
        /\ job[i].at = "clone" => lock[Slug(i)] = i
    BY DEF TypeOK, OneAuditPerRepository, Free
  <2>3. CASE lock' = lock /\ (j.at = "clone" => job[i].at = "clone")
    BY <1>2, <2>1, <2>2, <2>3
  <2>4. CASE /\ lock' = [lock EXCEPT ![Slug(i)] = holder]
             /\ lock[Slug(i)] = Free /\ holder = i
    BY <2>1, <2>2, <2>4 DEF TypeOK
  <2>5. CASE /\ lock' = [lock EXCEPT ![Slug(i)] = holder]
             /\ job[i].at = "clone" /\ j.at # "clone"
    BY <1>2, <2>1, <2>2, <2>5 DEF TypeOK
  <2> QED BY <2>3, <2>4, <2>5
<1>6. ExitIsHonest'
  BY DEF ExitIsHonest
<1> QED BY <1>3, <1>4, <1>5, <1>6

LEMMA BatchPreserves ==
  ASSUME BatchAssumption, IInv, [Next]_vars
  PROVE  IInv'
<1> USE DEF IInv
<1>1. CASE Invoke
  <2>1. list' \in Lists /\ phase' = "running" /\ job' = [i \in DOMAIN list' |-> Fresh] /\ lock' = lock
    BY <1>1 DEF Invoke
  <2>2. list' \in Seq(Range(list')) /\ \A i \in DOMAIN list' : SlugOf(list'[i]) \in Slugs
    BY <2>1 DEF BatchAssumption
  <2>3. Fresh \in Job /\ Fresh.at = "queued" /\ Fresh.status = NoStatus /\ ~ Fresh.flawed /\ NoStatus # 0
    BY DEF Fresh, Job, NoStatus
  <2>4. TypeOK'
    BY <2>1, <2>2, <2>3 DEF TypeOK, Lines, Slug
  <2>5. Judged'
    BY <2>1, <2>3 DEF Judged, Lines
  <2>6. OneAuditPerRepository'
    BY <2>1, <2>3 DEF OneAuditPerRepository, Lines
  <2>7. ExitIsHonest'
    BY <2>1 DEF ExitIsHonest
  <2> QED BY <2>4, <2>5, <2>6, <2>7
<1>2. CASE Summarize
  <2>1. /\ phase' = "done" /\ UNCHANGED << list, job, lock >>
        /\ Stopped \/ \A i \in Lines : job[i].at = "logged"
    BY <1>2 DEF Summarize
  <2>2. TypeOK' /\ Judged' /\ OneAuditPerRepository'
    BY <2>1 DEF TypeOK, Judged, OneAuditPerRepository, Lines, Slug
  <2>3. ASSUME exit' = 0, ~ options'.allow, NEW i \in Lines PROVE job[i].status = 0
    <3>1. ~ \E j \in Lines : Failed(j)
      <4> DEFINE texts == [j \in Lines |-> StatusText(j)]
      <4>1. PICK allow \in BOOLEAN :
              /\ options' = [options EXCEPT !.allow = allow]
              /\ exit' = IF allow THEN 0 ELSE Returned(texts)
        BY <1>2 DEF Summarize
      <4> HIDE DEF texts
      <4>2. ~ allow
        BY <2>3, <4>1
      <4> QED BY <2>3, <4>1, <4>2 DEF Returned
    <3> QED BY <2>1, <3>1 DEF Stopped, Failed
  <2>4. ExitIsHonest'
    BY <2>1, <2>3 DEF ExitIsHonest, Lines
  <2> QED BY <2>2, <2>4
<1>3. CASE KillBatch
  <2>1. /\ phase' = "idle" /\ UNCHANGED << list, job >>
        /\ lock' = [s \in Slugs |-> IF lock[s] = Free THEN Free ELSE Stray]
    BY <1>3 DEF KillBatch
  <2>2. lock' \in [Slugs -> Int]
    BY <2>1 DEF Free, Stray
  <2> QED BY <2>1, <2>2 DEF TypeOK, Judged, OneAuditPerRepository, ExitIsHonest, Lines, Slug
<1>4. ASSUME NEW s \in Slugs, OtherAudit(s) PROVE IInv'
  <2>1. /\ phase' = phase /\ UNCHANGED << list, job, exit, options >>
        /\ lock[s] \in {Free, Stray}
        /\ lock' = [lock EXCEPT ![s] = IF lock[s] = Free THEN Stray ELSE Free]
    BY <1>4 DEF OtherAudit
  <2>2. TypeOK'
    BY <2>1 DEF TypeOK, Lines, Slug, Free, Stray
  <2>3. OneAuditPerRepository'
    BY <2>1 DEF OneAuditPerRepository, TypeOK, Lines, Slug, Free, Stray
  <2> QED BY <2>1, <2>2, <2>3 DEF Judged, ExitIsHonest, Lines
<1>5. ASSUME NEW i \in Lines, Audit(i) PROVE IInv'
  <2> USE DEF At
  <2>1. job[i] \in Job /\ i \in Int /\ (job[i].at = "clone" => job[i].status = NoStatus /\ ~ job[i].flawed)
    BY DEF TypeOK, Judged
  <2>2. CASE Start(i)
    <3> DEFINE j == [job[i] EXCEPT !.at = "begun"]
    <3>1. j \in Job /\ j.at = "begun" /\ j.status = job[i].status /\ j.flawed = job[i].flawed
      BY <2>1 DEF Job
    <3>2. /\ job[i].at = "queued" /\ phase = "running" /\ UNCHANGED << list, phase, lock >>
          /\ job' = [job EXCEPT ![i] = j]
      BY <2>2 DEF Start
    <3> HIDE DEF j
    <3> QED BY <2>1, <3>1, <3>2, OneJobChanges DEF Judged
  <2>3. CASE TakeLock(i)
    <3> DEFINE j == [job[i] EXCEPT !.at = "clone"]
    <3>1. j \in Job /\ j.at = "clone" /\ j.status = job[i].status /\ j.flawed = job[i].flawed
      BY <2>1 DEF Job
    <3>2. /\ job[i].at = "begun" /\ phase = "running" /\ UNCHANGED << list, phase >>
          /\ job' = [job EXCEPT ![i] = j]
          /\ lock[Slug(i)] = Free /\ lock' = [lock EXCEPT ![Slug(i)] = i]
      BY <2>3 DEF TakeLock
    <3> HIDE DEF j
    <3> QED BY <2>1, <3>1, <3>2, OneJobChanges DEF Judged
  <2>4. ASSUME NEW status \in Int, status # 0 \/ job[i].at = "clone",
               Ends(i, status), At(i, {"begun", "clone"}),
               \/ lock' = lock /\ job[i].at = "begun"
               \/ \E holder \in Int : lock' = [lock EXCEPT ![Slug(i)] = holder] /\ job[i].at = "clone"
        PROVE  IInv'
    <3> DEFINE j == [job[i] EXCEPT !.at = "ended", !.status = status]
    <3>1. j \in Job /\ j.at = "ended" /\ j.status = status /\ j.flawed = job[i].flawed
      BY <2>1 DEF Job
    <3>2. phase = "running" /\ UNCHANGED << list, phase >> /\ job' = [job EXCEPT ![i] = j]
      BY <2>4 DEF Ends
    <3> HIDE DEF j
    <3>3. j.status = 0 => ~ j.flawed
      BY <2>1, <2>4, <3>1
    <3>4. CASE lock' = lock
      BY <2>1, <3>1, <3>2, <3>3, <3>4, OneJobChanges
    <3>5. ASSUME NEW holder \in Int, lock' = [lock EXCEPT ![Slug(i)] = holder], job[i].at = "clone"
          PROVE  IInv'
      BY <3>1, <3>2, <3>3, <3>5, OneJobChanges
    <3> QED BY <2>4, <3>4, <3>5
  <2>5. CASE LockedOut(i)
    BY <2>4, <2>5 DEF LockedOut, Locked
  <2>6. CASE CloneFails(i)
    <3>1. PICK status \in Int : status = 1
      OBVIOUS
    <3>2. /\ At(i, {"clone"}) /\ Ends(i, status) /\ lock' = [lock EXCEPT ![Slug(i)] = Free]
          /\ Free \in Int
      BY <2>6, <3>1 DEF CloneFails, Release, Free, Ends
    <3> QED BY <2>4, <3>2
  <2>7. CASE PrepareGoal(i)
    <3>1. PICK status \in Int : status = 0
      OBVIOUS
    <3>2. /\ At(i, {"clone"}) /\ Ends(i, status) /\ lock' = [lock EXCEPT ![Slug(i)] = Free]
          /\ Free \in Int
      BY <2>7, <3>1, Zenon DEF PrepareGoal, Release, Free
    <3> QED BY <2>4, <3>2
  <2>8. CASE Kill(i)
    <3>1. /\ At(i, {"clone"}) /\ Ends(i, Killed) /\ lock' = [lock EXCEPT ![Slug(i)] = Stray]
          /\ Stray \in Int /\ Killed \in Int
      BY <2>8 DEF Kill, Killed, Stray
    <3> QED BY <2>4, <3>1
  <2>9. CASE Session(i)
    <3>1. PICK status \in 0 .. 255, flaw \in BOOLEAN :
            (status = 0 => ~ flaw) /\ SessionYields(i, status, flaw)
      BY <2>9, SessionFacts
    <3> DEFINE j == [job[i] EXCEPT !.at = "ended", !.status = status, !.flawed = flaw]
    <3>2. job' = [job EXCEPT ![i] = j]
      BY <3>1 DEF SessionYields
    <3>3. j \in Job /\ j.at = "ended" /\ j.status = status /\ j.flawed = flaw
      <4>1. status \in Int
        OBVIOUS
      <4> QED BY <2>1, <4>1 DEF Job
    <3> HIDE DEF j
    <3>4. /\ job[i].at = "clone" /\ phase = "running" /\ UNCHANGED << list, phase >>
          /\ lock' = [lock EXCEPT ![Slug(i)] = Free] /\ Free \in Int
      BY <2>9 DEF Session, Release, Free
    <3> QED BY <3>1, <3>2, <3>3, <3>4, OneJobChanges
  <2>10. CASE WriteLog(i)
    <3> DEFINE j == [job[i] EXCEPT !.at = "logged"]
    <3>1. j \in Job /\ j.at = "logged" /\ j.status = job[i].status /\ j.flawed = job[i].flawed
      BY <2>1 DEF Job
    <3>2. /\ phase = "running" /\ UNCHANGED << list, phase, lock >> /\ job' = [job EXCEPT ![i] = j]
      BY <2>10 DEF WriteLog
    <3> HIDE DEF j
    <3> QED BY <2>1, <3>1, <3>2, OneJobChanges DEF Judged
  <2> QED BY <1>5, <2>2, <2>3, <2>5, <2>6, <2>7, <2>8, <2>9, <2>10 DEF Audit
<1>6. CASE UNCHANGED vars
  BY <1>6 DEF vars, TypeOK, Judged, OneAuditPerRepository, ExitIsHonest, Lines, Slug
<1> QED BY <1>1, <1>2, <1>3, <1>4, <1>5, <1>6 DEF Next

LEMMA Invariance == Spec => []IInv
<1>1. Init => IInv
  BY BatchStarts
<1>2. IInv /\ [Next]_vars => IInv'
  BY BatchAssumption, BatchPreserves
<1> QED BY <1>1, <1>2, PTL DEF Spec

-----------------------------------------------------------------------------
(* The logs, and what is read from them                                      *)

Repos == UNION {Range(l) : l \in Lists}
DoneEntry == [repo : Repos, status : Int]

LogsFit ==
  /\ log \in [Logs -> [exists : BOOLEAN, done : Seq(DoneEntry)]]
  /\ \A i \in Lines : list[i] \in Repos /\ Log(i) \in Logs

Alone(i) == \A j \in Lines \ {i} : Log(j) # Log(i)

(* A log shows a success only for a repository whose audit succeeded, whichever  *)
(* audits wrote it; and the log that only one audit of the list writes is its     *)
(* own from its first line to its last.                                           *)
Logged ==
  /\ \A n \in Logs : \A k \in DOMAIN log[n].done :
       log[n].done[k].status = 0 => log[n].done[k].repo \in passed
  /\ \A i \in Lines :
       /\ job[i].status = 0 => list[i] \in passed
       /\ job[i].at # "queued" => log[Log(i)].exists
       /\ job[i].at \in {"ended", "logged"} => job[i].status < NoStatus
       /\ Alone(i) /\ job[i].at \in {"begun", "clone", "ended"} => log[Log(i)].done = << >>
       /\ Alone(i) /\ job[i].at = "logged" => log[Log(i)].done = << DoneLine(i) >>

LInv == LogsFit /\ Logged /\ ResultsAreReal

LEMMA LogsStart == ASSUME BatchAssumption, Init PROVE LInv
<1>1. Lines = {} /\ \A n \in Logs : log[n] = NoFile
  BY DEF Init, Lines
<1>2. NoFile.done = << >> /\ NoFile \in [exists : BOOLEAN, done : Seq(DoneEntry)]
  BY DEF NoFile
<1>3. log \in [Logs -> [exists : BOOLEAN, done : Seq(DoneEntry)]]
  BY <1>2 DEF Init
<1>4. phase # "done"
  BY DEF Init
<1> QED BY <1>1, <1>2, <1>3, <1>4 DEF LInv, LogsFit, Logged, ResultsAreReal

(* An audit gets on with its work: no log changes. *)
LEMMA AuditWorks ==
  ASSUME IInv, LInv, UNCHANGED << list, log >>, phase' = "running",
         NEW i \in Lines, NEW j \in Job, job' = [job EXCEPT ![i] = j],
         job[i].at \in {"begun", "clone"}, j.at \in {"clone", "ended"},
         j.at = "ended" => j.status < NoStatus,
         j.status = 0 => list[i] \in passed', passed \subseteq passed'
  PROVE  LInv'
<1> USE DEF LInv
<1>1. Lines' = Lines /\ \A k \in Lines : Log(k)' = Log(k) /\ Alone(k)' = Alone(k)
  BY DEF Lines, Log, Alone
<1>2. job'[i] = j /\ \A k \in Lines \ {i} : job'[k] = job[k] /\ DoneLine(k)' = DoneLine(k)
  BY DEF IInv, TypeOK, DoneLine
<1>3. LogsFit'
  BY <1>1 DEF LogsFit
<1>4. ASSUME NEW k \in Lines
      PROVE  /\ job'[k].status = 0 => list[k] \in passed'
             /\ job'[k].at # "queued" => log[Log(k)].exists
             /\ job'[k].at \in {"ended", "logged"} => job'[k].status < NoStatus
             /\ Alone(k) /\ job'[k].at \in {"begun", "clone", "ended"} => log[Log(k)].done = << >>
             /\ Alone(k) /\ job'[k].at = "logged" => log[Log(k)].done = << DoneLine(k)' >>
  <2>1. CASE k = i
    BY <1>2, <2>1 DEF Logged
  <2>2. CASE k # i
    BY <1>2, <2>2 DEF Logged
  <2> QED BY <2>1, <2>2
<1>5. \A n \in Logs : \A k \in DOMAIN log[n].done :
        log[n].done[k].status = 0 => log[n].done[k].repo \in passed'
  BY DEF Logged
<1>6. Logged'
  BY <1>1, <1>4, <1>5 DEF Logged
<1> QED BY <1>3, <1>6 DEF ResultsAreReal

(* The log as it is read shows a success only where one was written. *)
LEMMA ReadableFacts ==
  ASSUME NEW done \in Seq(DoneEntry), NEW kept \in SUBSET DOMAIN done
  PROVE  /\ Readable(done, kept) \in Seq(DoneEntry)
         /\ DOMAIN Readable(done, kept) = DOMAIN done
         /\ \A k \in DOMAIN done :
              /\ Readable(done, kept)[k].repo = done[k].repo
              /\ Readable(done, kept)[k].status = 0 => done[k].status = 0
         /\ kept = DOMAIN done => Readable(done, kept) = done
<1> DEFINE r == Readable(done, kept)
<1>1. NoStatus \in Int /\ NoStatus # 0
  BY DEF NoStatus
<1>2. DOMAIN done = 1 .. Len(done) /\ Len(done) \in Nat /\ \A k \in DOMAIN done : done[k] \in DoneEntry
  OBVIOUS
<1>3. ASSUME NEW k \in DOMAIN done
      PROVE  /\ [done[k] EXCEPT !.status = NoStatus] \in DoneEntry
             /\ [done[k] EXCEPT !.status = NoStatus].repo = done[k].repo
             /\ [done[k] EXCEPT !.status = NoStatus].status = NoStatus
  BY <1>1, <1>2 DEF DoneEntry
<1>4. DOMAIN r = DOMAIN done
      /\ \A k \in DOMAIN done :
           r[k] = IF k \in kept THEN done[k] ELSE [done[k] EXCEPT !.status = NoStatus]
  BY DEF Readable
<1>5. r \in [1 .. Len(done) -> DoneEntry]
  BY <1>2, <1>3 DEF Readable
<1>6. r \in Seq(DoneEntry)
  BY <1>2, <1>5
<1>7. kept = DOMAIN done => r = done
  BY <1>2 DEF Readable
<1> HIDE DEF r
<1>8. \A k \in DOMAIN done : r[k].repo = done[k].repo /\ (r[k].status = 0 => done[k].status = 0)
  BY <1>1, <1>3, <1>4
<1> QED BY <1>4, <1>6, <1>7, <1>8 DEF r

(* The "audit done" line is added to the log, and lines another audit writes over *)
(* are lost.                                                                       *)
LEMMA LineIsAdded ==
  ASSUME BatchAssumption, IInv, LInv, NEW i \in Lines, WriteLog(i)
  PROVE  LInv'
<1> USE DEF LInv
<1> DEFINE old == log[Log(i)].done
           done == Append(old, DoneLine(i))
           j == [job[i] EXCEPT !.at = "logged"]
<1>1. PICK kept \in SUBSET DOMAIN done :
        /\ Shared(i) \/ kept = DOMAIN done
        /\ log' = [log EXCEPT ![Log(i)].done = Readable(done, kept)]
  BY DEF WriteLog
<1>2. /\ job[i].at = "ended" /\ phase' = "running" /\ UNCHANGED << list, passed >>
      /\ job' = [job EXCEPT ![i] = j]
  BY DEF WriteLog, At
<1>3. job[i] \in Job /\ list[i] \in Repos /\ Log(i) \in Logs
      /\ log \in [Logs -> [exists : BOOLEAN, done : Seq(DoneEntry)]]
  BY DEF IInv, TypeOK, LogsFit
<1>4. j.at = "logged" /\ j.status = job[i].status
  BY <1>3 DEF Job
<1>5. DoneLine(i) \in DoneEntry /\ old \in Seq(DoneEntry)
  BY <1>3 DEF DoneLine, DoneEntry, Job
<1>6. /\ done \in Seq(DoneEntry) /\ DOMAIN done = 1 .. Len(old) + 1 /\ Len(old) \in Nat
      /\ done[Len(old) + 1] = DoneLine(i)
      /\ \A k \in DOMAIN old : done[k] = old[k] /\ k \in 1 .. Len(old)
      /\ DOMAIN old = 1 .. Len(old)
  <2> DEFINE line == DoneLine(i)
  <2>1. line \in DoneEntry /\ old \in Seq(DoneEntry)
    BY <1>5
  <2> HIDE DEF old, line
  <2> QED BY <2>1 DEF line
<1> DEFINE r == Readable(done, kept)
<1>7. /\ r \in Seq(DoneEntry) /\ DOMAIN r = DOMAIN done
      /\ \A k \in DOMAIN done : r[k].repo = done[k].repo /\ (r[k].status = 0 => done[k].status = 0)
      /\ kept = DOMAIN done => r = done
  BY <1>6, ReadableFacts
<1>8. /\ log'[Log(i)].exists = log[Log(i)].exists /\ log'[Log(i)].done = r
      /\ \A n \in Logs \ {Log(i)} : log'[n] = log[n]
      /\ log' \in [Logs -> [exists : BOOLEAN, done : Seq(DoneEntry)]]
  BY <1>1, <1>3, <1>7
<1>9. Lines' = Lines /\ \A k \in Lines : Log(k)' = Log(k) /\ Alone(k)' = Alone(k)
  BY <1>2 DEF Lines, Log, Alone
<1>10. job'[i] = j /\ \A k \in Lines \ {i} : job'[k] = job[k]
  BY <1>2 DEF IInv, TypeOK
<1>11. DoneLine(i)' = DoneLine(i) /\ \A k \in Lines \ {i} : DoneLine(k)' = DoneLine(k)
  BY <1>2, <1>4, <1>10 DEF DoneLine
<1>12. ASSUME Alone(i) PROVE r = << DoneLine(i) >>
  <2>1. old = << >>
    BY <1>2, <1>12 DEF Logged
  <2>2. done = << DoneLine(i) >>
    BY <2>1
  <2>3. ~ Shared(i)
    BY <1>12 DEF Shared, Alone
  <2> QED BY <1>1, <1>7, <2>2, <2>3
<1>13. ASSUME NEW k \in DOMAIN done, done[k].status = 0 PROVE done[k].repo \in passed
  <2>1. CASE k = Len(old) + 1
    <3>1. job[i].status = 0 /\ done[k].repo = list[i]
      BY <1>6, <1>13, <2>1 DEF DoneLine
    <3> QED BY <3>1 DEF Logged
  <2>2. CASE k \in DOMAIN old
    BY <1>3, <1>6, <1>13, <2>2 DEF Logged
  <2> QED BY <1>6, <2>1, <2>2
<1> HIDE DEF j, done, r, old
<1>14. LogsFit'
  BY <1>2, <1>8, <1>9 DEF LogsFit
<1>15. ASSUME NEW n \in Logs, NEW k \in DOMAIN log'[n].done, log'[n].done[k].status = 0
       PROVE  log'[n].done[k].repo \in passed
  <2>1. CASE n = Log(i)
    BY <1>7, <1>8, <1>13, <1>15, <2>1
  <2>2. CASE n # Log(i)
    BY <1>8, <1>15, <2>2 DEF Logged
  <2> QED BY <2>1, <2>2
<1>16. ASSUME NEW k \in Lines
       PROVE  /\ job'[k].status = 0 => list[k] \in passed
              /\ job'[k].at # "queued" => log'[Log(k)].exists
              /\ job'[k].at \in {"ended", "logged"} => job'[k].status < NoStatus
              /\ Alone(k) /\ job'[k].at \in {"begun", "clone", "ended"} => log'[Log(k)].done = << >>
              /\ Alone(k) /\ job'[k].at = "logged" => log'[Log(k)].done = << DoneLine(k)' >>
  <2>1. CASE k = i
    BY <1>2, <1>4, <1>8, <1>10, <1>11, <1>12, <2>1 DEF Logged
  <2>2. CASE k # i
    <3>1. /\ job'[k] = job[k] /\ DoneLine(k)' = DoneLine(k) /\ Log(k) \in Logs
          /\ Alone(k) => Log(k) # Log(i)
      BY <1>10, <1>11, <2>2 DEF Alone, LogsFit
    <3>2. log'[Log(k)].exists = log[Log(k)].exists
      BY <1>8, <3>1
    <3>3. Alone(k) => log'[Log(k)] = log[Log(k)]
      BY <1>8, <3>1
    <3> QED BY <3>1, <3>2, <3>3 DEF Logged
  <2> QED BY <2>1, <2>2
<1>17. Logged'
  BY <1>2, <1>9, <1>15, <1>16 DEF Logged
<1> QED BY <1>2, <1>14, <1>17 DEF ResultsAreReal

(* The log is emptied for an audit that starts. *)
LEMMA LogIsOpened ==
  ASSUME BatchAssumption, IInv, LInv, NEW i \in Lines, Start(i)
  PROVE  LInv'
<1> USE DEF LInv
<1> DEFINE j == [job[i] EXCEPT !.at = "begun"]
           new == [exists |-> TRUE, done |-> << >>]
<1>1. /\ job[i].at = "queued" /\ phase' = "running" /\ UNCHANGED << list, passed >>
      /\ job' = [job EXCEPT ![i] = j] /\ log' = [log EXCEPT ![Log(i)] = new]
  BY DEF Start, At, OpenLog
<1>2. job[i] \in Job /\ Log(i) \in Logs
      /\ log \in [Logs -> [exists : BOOLEAN, done : Seq(DoneEntry)]]
  BY DEF IInv, TypeOK, LogsFit
<1>3. j.at = "begun" /\ j.status = job[i].status
  BY <1>2 DEF Job
<1>4. new.exists = TRUE /\ new.done = << >> /\ new \in [exists : BOOLEAN, done : Seq(DoneEntry)]
  OBVIOUS
<1>5. Lines' = Lines /\ \A k \in Lines : Log(k)' = Log(k) /\ Alone(k)' = Alone(k)
  BY <1>1 DEF Lines, Log, Alone
<1>6. job'[i] = j /\ \A k \in Lines \ {i} : job'[k] = job[k] /\ DoneLine(k)' = DoneLine(k)
  BY <1>1 DEF IInv, TypeOK, DoneLine
<1> HIDE DEF j, new
<1>7. log'[Log(i)] = new /\ \A n \in Logs \ {Log(i)} : log'[n] = log[n]
  BY <1>1, <1>2
<1>8. LogsFit'
  BY <1>1, <1>2, <1>4, <1>5 DEF LogsFit
<1>9. \A n \in Logs : \A k \in DOMAIN log'[n].done :
         log'[n].done[k].status = 0 => log'[n].done[k].repo \in passed
  <2> SUFFICES ASSUME NEW n \in Logs, NEW k \in DOMAIN log'[n].done, log'[n].done[k].status = 0
               PROVE  log'[n].done[k].repo \in passed
    OBVIOUS
  <2>1. log'[n] = log[n]
    BY <1>4, <1>7
  <2> QED BY <2>1 DEF Logged
<1>10. ASSUME NEW k \in Lines
       PROVE  /\ job'[k].status = 0 => list[k] \in passed
              /\ job'[k].at # "queued" => log'[Log(k)].exists
              /\ job'[k].at \in {"ended", "logged"} => job'[k].status < NoStatus
              /\ Alone(k) /\ job'[k].at \in {"begun", "clone", "ended"} => log'[Log(k)].done = << >>
              /\ Alone(k) /\ job'[k].at = "logged" => log'[Log(k)].done = << DoneLine(k)' >>
  <2>1. CASE k = i
    BY <1>3, <1>4, <1>6, <1>7, <2>1 DEF Logged
  <2>2. CASE k # i
    <3>1. /\ job'[k] = job[k] /\ DoneLine(k)' = DoneLine(k) /\ Log(k) \in Logs
          /\ Alone(k) => Log(k) # Log(i)
      BY <1>6, <2>2 DEF Alone, LogsFit
    <3>2. log[Log(k)].exists => log'[Log(k)].exists
      BY <1>4, <1>7, <3>1
    <3>3. Alone(k) => log'[Log(k)] = log[Log(k)]
      BY <1>7, <3>1
    <3> QED BY <3>1, <3>2, <3>3 DEF Logged
  <2> QED BY <2>1, <2>2
<1>11. Logged'
  BY <1>1, <1>5, <1>9, <1>10 DEF Logged
<1> QED BY <1>1, <1>8, <1>11 DEF ResultsAreReal

LEMMA LeastOne ==
  ASSUME NEW S \in SUBSET Nat, S # {}
  PROVE  \E m \in S : \A n \in S : m <= n
<1> DEFINE less == {ss \in Nat \X Nat : ss[1] < ss[2]}
<1>1. IsWellFoundedOn(less, Nat)
  BY NatLessThanWellFounded DEF OpToRel
<1>2. PICK m \in S : \A n \in S : << n, m >> \notin less
  BY <1>1, WFMin
<1>3. ASSUME NEW n \in S, ~ (m <= n) PROVE FALSE
  <2>1. << n, m >> \in Nat \X Nat /\ n < m
    BY <1>3
  <2> QED BY <1>2, <2>1
<1> QED BY <1>3

(* What a reader of a log makes of a repository that only one audit logged. *)
LEMMA StatusOfOneLine ==
  ASSUME NEW repo, NEW status \in Int
  PROVE  StatusIn(<< [repo |-> repo, status |-> status] >>, repo)
           = IF status \in Nat \ Words THEN status ELSE NoStatus
<1> DEFINE done == << [repo |-> repo, status |-> status] >>
           found == {k \in DOMAIN done : done[k].repo = repo /\ done[k].status \in Nat \ Words}
<1>1. DOMAIN done = {1} /\ done[1].repo = repo /\ done[1].status = status
  OBVIOUS
<1>2. CASE status \in Nat \ Words
  <2>1. found = {1}
    BY <1>1, <1>2, Zenon
  <2>2. (CHOOSE k \in found : \A l \in found : k <= l) = 1
    BY <2>1
  <2> QED BY <1>1, <1>2, <2>1, <2>2 DEF StatusIn
<1>3. CASE status \notin Nat \ Words
  <2>1. found = {}
    BY <1>1, <1>3, Zenon
  <2> QED BY <1>3, <2>1 DEF StatusIn
<1> QED BY <1>2, <1>3

(* A repository has a status in a log only if a line of it shows that status. *)
LEMMA StatusIsLogged ==
  ASSUME NEW done \in Seq(DoneEntry), NEW repo, StatusIn(done, repo) = 0
  PROVE  \E k \in DOMAIN done : done[k].repo = repo /\ done[k].status = 0
<1> DEFINE found == {k \in DOMAIN done : done[k].repo = repo /\ done[k].status \in Nat \ Words}
           k == CHOOSE k \in found : \A l \in found : k <= l
<1>1. found # {}
  BY DEF StatusIn, NoStatus
<1>2. found \in SUBSET Nat
  OBVIOUS
<1>3. \E m \in found : \A l \in found : m <= l
  BY <1>1, <1>2, LeastOne
<1>4. k \in found
  BY <1>3
<1>5. done[k].status = 0
  BY <1>1 DEF StatusIn
<1> QED BY <1>4, <1>5

LEMMA ResultsHold ==
  ASSUME BatchAssumption, IInv, LInv, Summarize
  PROVE  LInv'
<1> USE DEF LInv
<1>1. /\ UNCHANGED << list, job, log, passed >> /\ results' = [i \in Lines |-> StatusText(i)]
  BY DEF Summarize
<1>2. Lines' = Lines /\ \A k \in Lines : Log(k)' = Log(k) /\ Alone(k)' = Alone(k) /\ DoneLine(k)' = DoneLine(k)
  BY <1>1 DEF Lines, Log, Alone, DoneLine
<1>3. LogsFit'
  BY <1>1, <1>2 DEF LogsFit
<1>4. Logged'
  BY <1>1, <1>2 DEF Logged
<1>5. ASSUME NEW i \in Lines, StatusText(i) = "success" PROVE list[i] \in passed
  <2>1. StatusIn(log[Log(i)].done, list[i]) = 0 /\ log[Log(i)].done \in Seq(DoneEntry) /\ Log(i) \in Logs
    BY <1>5 DEF StatusText, LogsFit
  <2>2. PICK k \in DOMAIN log[Log(i)].done :
          log[Log(i)].done[k].repo = list[i] /\ log[Log(i)].done[k].status = 0
    BY <2>1, StatusIsLogged
  <2> QED BY <2>1, <2>2 DEF Logged
<1>6. ASSUME NEW i \in Lines, job[i].at = "logged", Alone(i)
      PROVE  StatusText(i) = CASE job[i].status = 0 -> "success"
                               [] job[i].status < 0 -> "unknown"
                               [] OTHER -> "failed"
  <2> DEFINE status == job[i].status
  <2>1. /\ log[Log(i)].exists /\ log[Log(i)].done = << [repo |-> list[i], status |-> status] >>
        /\ status < NoStatus /\ status \in Int
    BY <1>6 DEF Logged, DoneLine, IInv, TypeOK, Job
  <2>2. StatusIn(log[Log(i)].done, list[i]) = IF status \in Nat \ Words THEN status ELSE NoStatus
    BY <2>1, StatusOfOneLine
  <2> HIDE DEF status
  <2>3. (status \in Nat \ Words <=> status >= 0) /\ NoStatus > 0
    BY <2>1 DEF Words, NoStatus, NotRun, Missing
  <2>4. StatusText(i) = CASE status = 0 -> "success" [] status < 0 -> "unknown" [] OTHER -> "failed"
    BY <2>1, <2>2, <2>3 DEF StatusText
  <2> QED BY <2>4 DEF status
<1>7. ResultsAreReal'
  BY <1>1, <1>2, <1>5, <1>6 DEF ResultsAreReal, Alone
<1> QED BY <1>3, <1>4, <1>7

LEMMA LogsPreserved ==
  ASSUME BatchAssumption, IInv, LInv, [Next]_vars
  PROVE  LInv'
<1> USE DEF LInv
<1>1. CASE Invoke
  <2>1. /\ list' \in Lists /\ phase' = "running" /\ job' = [i \in DOMAIN list' |-> Fresh]
        /\ UNCHANGED << log, passed >>
    BY <1>1 DEF Invoke
  <2>2. \A i \in DOMAIN list' : list'[i] \in Repos /\ LogOf(list'[i]) \in Logs
    <3>1. SUFFICES ASSUME NEW i \in DOMAIN list'
                   PROVE  list'[i] \in Repos /\ LogOf(list'[i]) \in Logs
      OBVIOUS
    <3>2. list'[i] \in Range(list')
      BY DEF Range
    <3> QED BY <2>1, <3>2 DEF BatchAssumption, Repos
  <2>3. Fresh.at = "queued" /\ Fresh.status # 0
    BY DEF Fresh, NoStatus
  <2>4. LogsFit'
    BY <2>1, <2>2 DEF LogsFit, Lines, Log
  <2>5. Logged'
    BY <2>1, <2>3 DEF Logged, Lines
  <2> QED BY <2>1, <2>4, <2>5 DEF ResultsAreReal
<1>2. CASE Summarize
  BY <1>2, ResultsHold
<1>3. ASSUME KillBatch \/ \E s \in Slugs : OtherAudit(s) PROVE LInv'
  <2>1. phase' # "done" /\ UNCHANGED << list, job, log, passed >>
    BY <1>3 DEF KillBatch, OtherAudit
  <2>2. Lines' = Lines /\ \A k \in Lines : Log(k)' = Log(k) /\ Alone(k)' = Alone(k) /\ DoneLine(k)' = DoneLine(k)
    BY <2>1 DEF Lines, Log, Alone, DoneLine
  <2> QED BY <2>1, <2>2 DEF LogsFit, Logged, ResultsAreReal
<1>4. ASSUME NEW i \in Lines, Audit(i) PROVE LInv'
  <2>1. job[i] \in Job /\ NoStatus = 1000 /\ (job[i].at \in {"begun", "clone"} => job[i].status # 0)
    BY DEF IInv, TypeOK, Judged, NoStatus
  <2>2. CASE TakeLock(i)
    <3> DEFINE j == [job[i] EXCEPT !.at = "clone"]
    <3>1. j \in Job /\ j.at = "clone" /\ j.status = job[i].status
      BY <2>1 DEF Job
    <3>2. /\ job[i].at = "begun" /\ phase' = "running" /\ UNCHANGED << list, log, passed >>
          /\ job' = [job EXCEPT ![i] = j]
      BY <2>2 DEF TakeLock, At
    <3> HIDE DEF j
    <3> QED BY <2>1, <3>1, <3>2, AuditWorks
  <2>3. ASSUME NEW status \in Int, status < NoStatus, Ends(i, status), At(i, {"begun", "clone"})
        PROVE  LInv'
    <3> DEFINE j == [job[i] EXCEPT !.at = "ended", !.status = status]
    <3>1. j \in Job /\ j.at = "ended" /\ j.status = status
      BY <2>1 DEF Job
    <3>2. /\ phase' = "running" /\ UNCHANGED << list, log >> /\ job' = [job EXCEPT ![i] = j]
          /\ passed' = IF status = 0 THEN passed \cup {list[i]} ELSE passed
          /\ job[i].at \in {"begun", "clone"}
      BY <2>3 DEF Ends, At
    <3> HIDE DEF j
    <3>3. passed \subseteq passed' /\ (status = 0 => list[i] \in passed')
      BY <3>2
    <3> QED BY <2>3, <3>1, <3>2, <3>3, AuditWorks
  <2>4. CASE LockedOut(i) \/ CloneFails(i) \/ PrepareGoal(i) \/ Kill(i)
    <3>1. PICK status \in Int : status \in {0, 1, 12, -9} /\ Ends(i, status) /\ At(i, {"begun", "clone"})
      BY <2>4 DEF LockedOut, CloneFails, PrepareGoal, Kill, Locked, Killed, At
    <3>2. status < NoStatus
      BY <2>1, <3>1
    <3> QED BY <2>3, <3>1, <3>2
  <2>5. CASE Session(i)
    <3>1. PICK status \in 0 .. 255, flaw \in BOOLEAN :
            SessionYields(i, status, flaw)
      BY <2>5, SessionFacts
    <3> DEFINE j == [job[i] EXCEPT !.at = "ended", !.status = status, !.flawed = flaw]
    <3>2. j \in Job /\ j.at = "ended" /\ j.status = status
      <4>1. status \in Int
        OBVIOUS
      <4> QED BY <2>1, <4>1 DEF Job
    <3>3. job[i].at = "clone" /\ phase' = "running" /\ UNCHANGED << list, log >>
      BY <2>5 DEF Session, At
    <3>4. job' = [job EXCEPT ![i] = j]
      BY <3>1 DEF SessionYields
    <3>5. passed \subseteq passed' /\ (status = 0 => list[i] \in passed')
      BY <3>1 DEF SessionYields
    <3>6. status < NoStatus
      BY <2>1
    <3> HIDE DEF j
    <3> QED BY <3>2, <3>3, <3>4, <3>5, <3>6, AuditWorks
  <2> QED BY <1>4, <2>2, <2>4, <2>5, LineIsAdded, LogIsOpened DEF Audit
<1>5. CASE UNCHANGED vars
  <2>1. UNCHANGED << list, job, log, passed, phase, results >>
    BY <1>5 DEF vars
  <2>2. Lines' = Lines /\ \A k \in Lines : Log(k)' = Log(k) /\ Alone(k)' = Alone(k) /\ DoneLine(k)' = DoneLine(k)
    BY <2>1 DEF Lines, Log, Alone, DoneLine
  <2> QED BY <2>1, <2>2 DEF LogsFit, Logged, ResultsAreReal
<1> QED BY <1>1, <1>2, <1>3, <1>4, <1>5 DEF Next

(* Who is past the lock of a repository holds it, whatever other audits do and *)
(* whoever is killed.                                                          *)
THEOREM AuditsAreApart == Spec => []OneAuditPerRepository
<1>1. IInv => OneAuditPerRepository
  BY DEF IInv
<1> QED BY <1>1, Invariance, PTL

(* A batch that may not allow failures and exits with 0 ran every line of its *)
(* list, and each audit succeeded.                                            *)
THEOREM ExitCodeIsHonest == Spec => []ExitIsHonest
<1>1. IInv => ExitIsHonest
  BY DEF IInv
<1> QED BY <1>1, Invariance, PTL

(* An audit whose session or whose checks failed, or that left no report, does *)
(* not exit with 0.                                                            *)
THEOREM AuditSuccessIsValidated == Spec => []SuccessIsValidated
<1>1. IInv => SuccessIsValidated
  BY DEF IInv, Judged, SuccessIsValidated
<1> QED BY <1>1, Invariance, PTL

(* A line is reported as a success only if an audit of its own repository      *)
(* succeeded; and an audit that ran is reported as it ended, if no other line  *)
(* of the list writes the same log.                                            *)
THEOREM ResultsStayReal == Spec => []ResultsAreReal
<1>1. Init => LInv
  BY BatchAssumption, LogsStart
<1>2. IInv /\ LInv /\ [Next]_vars => LInv'
  BY BatchAssumption, LogsPreserved
<1>3. LInv => ResultsAreReal
  BY DEF LInv
<1> QED BY <1>1, <1>2, <1>3, Invariance, PTL DEF Spec

-------------------------------------------------------------------------------
(* The target queue: what the operators of its policy do *)

(* A set in the order of a relation. *)

StrictOrder(S, R) ==
  /\ \A x, y \in S : << x, y >> \in R => << y, x >> \notin R
  /\ \A x, y \in S : x # y => << x, y >> \in R \/ << y, x >> \in R
  /\ \A x, y, z \in S : << x, y >> \in R /\ << y, z >> \in R => << x, z >> \in R

LEMMA AheadGrows ==
  ASSUME NEW S, IsFiniteSet(S), NEW R, StrictOrder(S, R), NEW x \in S, NEW y \in S, << x, y >> \in R
  PROVE  Cardinality(Ahead(S, R, x)) < Cardinality(Ahead(S, R, y))
<1> DEFINE a == Ahead(S, R, x)
           b == Ahead(S, R, y)
<1>1. a \subseteq b /\ x \in b /\ x \notin a /\ b \in SUBSET S
  BY DEF StrictOrder, Ahead
<1>2. IsFiniteSet(b)
  BY <1>1, FS_Subset
<1>3. IsFiniteSet(a) /\ Cardinality(a) <= Cardinality(b) /\ (Cardinality(a) = Cardinality(b) => a = b)
  BY <1>1, <1>2, FS_Subset
<1>4. Cardinality(a) \in Nat /\ Cardinality(b) \in Nat
  BY <1>2, <1>3, FS_CardinalityType
<1> QED BY <1>1, <1>3, <1>4

LEMMA AheadBounded ==
  ASSUME NEW S, IsFiniteSet(S), NEW R, StrictOrder(S, R), NEW x \in S
  PROVE  Cardinality(Ahead(S, R, x)) \in 0 .. Cardinality(S) - 1
<1> DEFINE a == Ahead(S, R, x)
<1>1. a \in SUBSET S /\ x \notin a
  BY DEF StrictOrder, Ahead
<1>2. IsFiniteSet(a) /\ Cardinality(a) <= Cardinality(S) /\ (Cardinality(S) = Cardinality(a) => S = a)
  BY <1>1, FS_Subset
<1>3. Cardinality(a) \in Nat /\ Cardinality(S) \in Nat
  BY <1>2, FS_CardinalityType
<1> QED BY <1>1, <1>2, <1>3

(* Every member has its place, and every place a member. *)
LEMMA InOrderFacts ==
  ASSUME NEW S, IsFiniteSet(S), NEW R, StrictOrder(S, R)
  PROVE  /\ InOrder(S, R) \in [1 .. Cardinality(S) -> S]
         /\ \A x \in S : \E k \in 1 .. Cardinality(S) : InOrder(S, R)[k] = x
         /\ \A k \in 1 .. Cardinality(S) : Cardinality(Ahead(S, R, InOrder(S, R)[k])) = k - 1
<1> DEFINE n == Cardinality(S)
           rank(x) == Cardinality(Ahead(S, R, x))
           f == [x \in S |-> rank(x)]
<1>1. n \in Nat
  BY FS_CardinalityType
<1>2. f \in [S -> 0 .. n - 1]
  BY AheadBounded
<1>3. ASSUME NEW x \in S, NEW y \in S, x # y PROVE rank(x) # rank(y)
  <2>1. rank(x) \in Nat /\ rank(y) \in Nat
    BY AheadBounded, <1>1
  <2>2. CASE << x, y >> \in R
    <3>1. rank(x) < rank(y)
      BY <2>2, AheadGrows
    <3> QED BY <2>1, <3>1
  <2>3. CASE << y, x >> \in R
    <3>1. rank(y) < rank(x)
      BY <2>3, AheadGrows
    <3> QED BY <2>1, <3>1
  <2> QED BY <1>3, <2>2, <2>3 DEF StrictOrder
<1> HIDE DEF rank
<1>4. f \in Injection(S, 0 .. n - 1)
  BY <1>2, <1>3 DEF Injection, IsInjective
<1>5. IsFiniteSet(0 .. n - 1) /\ Cardinality(0 .. n - 1) = n
  BY <1>1, Intervals
<1>6. f \in Surjection(S, 0 .. n - 1)
  BY <1>4, <1>5, FS_Injection
<1>7. ASSUME NEW k \in 1 .. n PROVE \E x \in S : rank(x) = k - 1
  <2>1. k - 1 \in 0 .. n - 1
    BY <1>1
  <2> QED BY <1>6, <2>1 DEF Surjection
<1>8. InOrder(S, R) = [k \in 1 .. n |-> CHOOSE x \in S : rank(x) = k - 1]
  BY DEF InOrder, rank
<1>9. ASSUME NEW k \in 1 .. n
      PROVE  InOrder(S, R)[k] \in S /\ rank(InOrder(S, R)[k]) = k - 1
  BY <1>7, <1>8
<1>10. ASSUME NEW x \in S PROVE \E k \in 1 .. n : InOrder(S, R)[k] = x
  <2> DEFINE k == rank(x) + 1
  <2>1. k \in 1 .. n /\ k - 1 = rank(x)
    BY <1>1, <1>2
  <2>2. rank(InOrder(S, R)[k]) = rank(x) /\ InOrder(S, R)[k] \in S
    BY <2>1, <1>9
  <2> QED BY <2>1, <2>2, <1>3
<1> QED BY <1>8, <1>9, <1>10 DEF rank

LEMMA FirstInOrder ==
  ASSUME NEW S, IsFiniteSet(S), S # {}, NEW R, StrictOrder(S, R)
  PROVE  \E x \in S : \A y \in S \ {x} : << x, y >> \in R
<1>1. Cardinality(S) \in Nat /\ Cardinality(S) # 0
  BY FS_CardinalityType, FS_EmptySet
<1>2. 1 \in 1 .. Cardinality(S) /\ 1 - 1 = 0
  BY <1>1
<1> DEFINE x == InOrder(S, R)[1]
<1>3. x \in S /\ Cardinality(Ahead(S, R, x)) = 0
  <2>1. /\ InOrder(S, R) \in [1 .. Cardinality(S) -> S]
        /\ \A k \in 1 .. Cardinality(S) : Cardinality(Ahead(S, R, InOrder(S, R)[k])) = k - 1
    BY InOrderFacts
  <2> QED BY <1>2, <2>1
<1>4. IsFiniteSet(Ahead(S, R, x))
  <2>1. Ahead(S, R, x) \in SUBSET S
    BY DEF Ahead
  <2> QED BY <2>1, FS_Subset
<1>5. Ahead(S, R, x) = {}
  BY <1>3, <1>4, FS_EmptySet
<1> HIDE DEF x
<1> QED BY <1>3, <1>5 DEF Ahead, StrictOrder

LEMMA IncreasingIsStrict == ASSUME NEW I \in SUBSET Nat PROVE StrictOrder(I, Increasing(I))
  BY DEF StrictOrder, Increasing

(* What a part of a list has is what the list has there. *)
LEMMA SublistFacts ==
  ASSUME NEW T, NEW ts \in Seq(T), NEW I \in SUBSET DOMAIN ts
  PROVE  /\ Sublist(ts, I) \in Seq(T)
         /\ \A i \in I : \E k \in DOMAIN Sublist(ts, I) : Sublist(ts, I)[k] = ts[i]
         /\ \A k \in DOMAIN Sublist(ts, I) : \E i \in I : Sublist(ts, I)[k] = ts[i]
<1> DEFINE places == InOrder(I, Increasing(I))
           n == Cardinality(I)
<1>1. DOMAIN ts = 1 .. Len(ts) /\ Len(ts) \in Nat /\ I \in SUBSET Nat
  OBVIOUS
<1>2. IsFiniteSet(I)
  <2>1. IsFiniteSet(1 .. Len(ts)) /\ I \in SUBSET (1 .. Len(ts))
    BY <1>1, FS_Interval
  <2> QED BY <2>1, FS_Subset
<1>3. n \in Nat
  BY <1>2, FS_CardinalityType
<1>4. /\ places \in [1 .. n -> I]
      /\ \A i \in I : \E k \in 1 .. n : places[k] = i
  BY <1>1, <1>2, IncreasingIsStrict, InOrderFacts
<1>5. Sublist(ts, I) = [k \in 1 .. n |-> ts[places[k]]]
  BY <1>4 DEF Sublist
<1> HIDE DEF places, n
<1>6. \A k \in 1 .. n : ts[places[k]] \in T
  BY <1>1, <1>4
<1>7. Sublist(ts, I) \in Seq(T)
  <2>1. Sublist(ts, I) \in [1 .. n -> T]
    BY <1>5, <1>6
  <2> QED BY <1>3, <2>1
<1>8. DOMAIN Sublist(ts, I) = 1 .. n /\ \A k \in 1 .. n : Sublist(ts, I)[k] = ts[places[k]]
  BY <1>5
<1> QED BY <1>4, <1>7, <1>8

(* The greedy selection is defined: there is a wave of the first n seeds, for every n. *)
LEMMA LeastNatural ==
  ASSUME NEW S \in SUBSET Nat, S # {}
  PROVE  \E m \in S : \A n \in S : m <= n
<1> DEFINE less == {ss \in Nat \X Nat : ss[1] < ss[2]}
<1>1. IsWellFoundedOn(less, Nat)
  BY NatLessThanWellFounded DEF OpToRel
<1>2. PICK m \in S : \A n \in S : << n, m >> \notin less
  BY <1>1, WFMin
<1>3. ASSUME NEW n \in S, ~ (m <= n) PROVE FALSE
  <2>1. m \in Nat /\ n \in Nat
    OBVIOUS
  <2>2. n < m
    BY <1>3, <2>1
  <2> QED BY <1>2, <2>1, <2>2
<1> QED BY <1>3

Greedy(seeds, budgets, n, wave) ==
  /\ wave \in SUBSET (1 .. n)
  /\ \A k \in 1 .. n : k \in wave <=> Fits(seeds, Before(wave, k), k, budgets)

LEMMA GreedyStep ==
  ASSUME NEW seeds, NEW budgets, NEW n \in Nat \ {0}, NEW old, Greedy(seeds, budgets, n - 1, old)
  PROVE  \E wave : Greedy(seeds, budgets, n, wave)
<1>1. old \in SUBSET (1 .. n - 1) /\ n \notin old /\ n - 1 \in Nat
  BY DEF Greedy
<1>2. ASSUME NEW wave, wave = old \/ wave = old \cup {n}, n \in wave <=> Fits(seeds, old, n, budgets)
      PROVE  Greedy(seeds, budgets, n, wave)
  <2>0. \A i \in 1 .. n - 1 : i \in 1 .. n /\ i < n
    OBVIOUS
  <2>1. wave \in SUBSET (1 .. n) /\ Before(wave, n) = old
    <3>1. n \in 1 .. n /\ ~ (n < n)
      OBVIOUS
    <3>2. wave \in SUBSET (1 .. n)
      BY <1>1, <1>2, <2>0, <3>1
    <3>3. \A i : i \in wave /\ i < n <=> i \in old
      BY <1>1, <1>2, <2>0, <3>1
    <3> QED BY <3>2, <3>3 DEF Before
  <2>2. ASSUME NEW k \in 1 .. n - 1 PROVE k \in wave <=> Fits(seeds, Before(wave, k), k, budgets)
    <3>1. k < n /\ k # n /\ Before(wave, k) = Before(old, k) /\ (k \in wave <=> k \in old)
      BY <1>1, <1>2 DEF Before
    <3>2. k \in old <=> Fits(seeds, Before(old, k), k, budgets)
      BY DEF Greedy
    <3> QED BY <3>1, <3>2
  <2>3. \A k \in 1 .. n : k = n \/ k \in 1 .. n - 1
    OBVIOUS
  <2> QED BY <1>2, <2>1, <2>2, <2>3 DEF Greedy
<1>3. CASE Fits(seeds, old, n, budgets)
  <2>1. n \in old \cup {n}
    OBVIOUS
  <2> QED BY <1>2, <1>3, <2>1
<1>4. CASE ~Fits(seeds, old, n, budgets)
  BY <1>1, <1>2, <1>4
<1> QED BY <1>3, <1>4

LEMMA TakenExists ==
  ASSUME NEW T, NEW seeds \in Seq(T), NEW budgets
  PROVE  Taken(seeds, budgets) \in SUBSET DOMAIN seeds
<1> DEFINE bad == {n \in Nat : ~ \E wave : Greedy(seeds, budgets, n, wave)}
<1>1. Len(seeds) \in Nat /\ DOMAIN seeds = 1 .. Len(seeds)
  OBVIOUS
<1>2. ASSUME NEW n \in bad, \A m \in bad : n <= m PROVE FALSE
  <2>1. n \in Nat /\ ~ \E wave : Greedy(seeds, budgets, n, wave)
    OBVIOUS
  <2>2. CASE n = 0
    <3>1. Greedy(seeds, budgets, 0, {})
      BY DEF Greedy
    <3> QED BY <2>1, <2>2, <3>1
  <2>3. CASE n # 0
    <3>1. n - 1 \in Nat /\ ~ (n <= n - 1) /\ n \in Nat \ {0}
      BY <2>1, <2>3
    <3>2. n - 1 \notin bad
      BY <3>1, <1>2
    <3>3. PICK old : Greedy(seeds, budgets, n - 1, old)
      BY <3>1, <3>2
    <3> QED BY <2>1, <3>1, <3>3, GreedyStep
  <2> QED BY <2>2, <2>3
<1>3. bad = {}
  <2>1. bad \in SUBSET Nat
    OBVIOUS
  <2> HIDE DEF bad
  <2> QED BY <1>2, <2>1, LeastNatural
<1>4. PICK wave : Greedy(seeds, budgets, Len(seeds), wave)
  BY <1>1, <1>3
<1>5. \E w \in SUBSET DOMAIN seeds :
        \A k \in DOMAIN seeds : k \in w <=> Fits(seeds, Before(w, k), k, budgets)
  BY <1>1, <1>4 DEF Greedy
<1> QED BY <1>5 DEF Taken

-------------------------------------------------------------------------------
(* The canonical order, and the merged target of a group. *)

LEMMA SourceOf == ASSUME NEW t \in Target PROVE Source(t) \in TargetSources
  BY DEF Source, TargetSources

LEMMA LineageOf ==
  ASSUME NEW t \in Target
  PROVE  Lineage(t) \in SUBSET (TargetSources \X Nat) /\ Lineage(t) # {}
  BY SourceOf DEF Lineage, Target

LEMMA FingerprintOf == ASSUME NEW t \in Target PROVE Fingerprint(t) \in Fingerprints
  BY DEF Fingerprint, Fingerprints, Target

LEMMA SourceRanks ==
  ASSUME NEW s \in TargetSources
  PROVE  SourceRank(s) \in 1 .. 7 /\ CanonicalSourceOrder[SourceRank(s)] = s
<1>1. DOMAIN CanonicalSourceOrder = 1 .. 7
  BY DEF CanonicalSourceOrder
<1>2. \E i \in 1 .. 7 : CanonicalSourceOrder[i] = s
  BY DEF CanonicalSourceOrder, TargetSources
<1> QED BY <1>1, <1>2 DEF SourceRank

LEMMA CanonicalIsTotal ==
  ASSUME NEW t \in Target, NEW u \in Target, t.id # u.id
  PROVE  CanonicalBefore(t, u) \/ CanonicalBefore(u, t)
<1>1. /\ SourceRank(Source(t)) \in 1 .. 7 /\ SourceRank(Source(u)) \in 1 .. 7
      /\ SourceRank(Source(t)) = SourceRank(Source(u)) => Source(t) = Source(u)
  BY SourceOf, SourceRanks
<1>2. t.risk \in Nat /\ u.risk \in Nat /\ t.id \in Nat /\ u.id \in Nat
  BY DEF Target
<1> QED BY <1>1, <1>2 DEF CanonicalBefore

LEMMA CanonicalIsAsymmetric ==
  ASSUME NEW t \in Target, NEW u \in Target, CanonicalBefore(t, u)
  PROVE  ~CanonicalBefore(u, t)
<1>1. SourceRank(Source(t)) \in 1 .. 7 /\ SourceRank(Source(u)) \in 1 .. 7
  BY SourceOf, SourceRanks
<1>2. t.risk \in Nat /\ u.risk \in Nat /\ t.id \in Nat /\ u.id \in Nat
  BY DEF Target
<1> QED BY <1>1, <1>2 DEF CanonicalBefore

LEMMA CanonicalIsTransitive ==
  ASSUME NEW t \in Target, NEW u \in Target, NEW v \in Target,
         CanonicalBefore(t, u), CanonicalBefore(u, v)
  PROVE  CanonicalBefore(t, v)
<1>1. /\ SourceRank(Source(t)) \in 1 .. 7 /\ SourceRank(Source(u)) \in 1 .. 7
      /\ SourceRank(Source(v)) \in 1 .. 7
  BY SourceOf, SourceRanks
<1>2. /\ t.risk \in Nat /\ u.risk \in Nat /\ t.id \in Nat /\ u.id \in Nat
      /\ v.risk \in Nat /\ v.id \in Nat
  BY DEF Target
<1> QED BY <1>1, <1>2 DEF CanonicalBefore

Canonical(S, f) == {pair \in S \X S : CanonicalBefore(f[pair[1]], f[pair[2]])}

LEMMA CanonicalIsStrict ==
  ASSUME NEW S, NEW f \in [S -> Target], \A x, y \in S : x # y => f[x].id # f[y].id
  PROVE  StrictOrder(S, Canonical(S, f))
<1>1. ASSUME NEW x \in S, NEW y \in S
      PROVE  << x, y >> \in Canonical(S, f) <=> CanonicalBefore(f[x], f[y])
  BY DEF Canonical
<1>2. ASSUME NEW x \in S, NEW y \in S, << x, y >> \in Canonical(S, f)
      PROVE  << y, x >> \notin Canonical(S, f)
  BY <1>1, <1>2, CanonicalIsAsymmetric
<1>3. ASSUME NEW x \in S, NEW y \in S, x # y
      PROVE  << x, y >> \in Canonical(S, f) \/ << y, x >> \in Canonical(S, f)
  BY <1>1, <1>3, CanonicalIsTotal
<1>4. ASSUME NEW x \in S, NEW y \in S, NEW z \in S,
             << x, y >> \in Canonical(S, f), << y, z >> \in Canonical(S, f)
      PROVE  << x, z >> \in Canonical(S, f)
  <2>1. CanonicalBefore(f[x], f[y]) /\ CanonicalBefore(f[y], f[z])
    BY <1>1, <1>4
  <2>2. CanonicalBefore(f[x], f[z])
    BY <2>1, CanonicalIsTransitive
  <2> QED BY <2>2, <1>1
<1> QED BY <1>2, <1>3, <1>4 DEF StrictOrder

Distinct(ts) == \A i, j \in DOMAIN ts : i # j => ts[i].id # ts[j].id

(* The target that stands for a group is one of the group, with the lineage of all. *)
LEMMA MergeFacts ==
  ASSUME NEW ts \in Seq(Target), Distinct(ts), NEW group \in SUBSET DOMAIN ts, group # {}
  PROVE  /\ Merge(ts, group) \in Target
         /\ Merge(ts, group).lineage = UNION {Lineage(ts[i]) : i \in group}
         /\ \E lead \in group : /\ Merge(ts, group).id = ts[lead].id
                                /\ Merge(ts, group).status = ts[lead].status
<1>1. IsFiniteSet(group)
  <2>1. IsFiniteSet(1 .. Len(ts)) /\ group \in SUBSET (1 .. Len(ts))
    BY FS_Interval
  <2> QED BY <2>1, FS_Subset
<1>2. \A i \in group : ts[i] \in Target
  OBVIOUS
<1>3. \E i \in group : \A j \in group \ {i} : CanonicalBefore(ts[i], ts[j])
  <2> DEFINE f == [i \in group |-> ts[i]]
  <2>1. f \in [group -> Target] /\ \A x, y \in group : x # y => f[x].id # f[y].id
    BY <1>2 DEF Distinct
  <2>2. StrictOrder(group, Canonical(group, f))
    BY <2>1, CanonicalIsStrict
  <2>3. PICK i \in group : \A j \in group \ {i} : << i, j >> \in Canonical(group, f)
    <3> DEFINE before == Canonical(group, f)
    <3> HIDE DEF before
    <3>1. StrictOrder(group, before)
      BY <2>2 DEF before
    <3>2. \E i \in group : \A j \in group \ {i} : << i, j >> \in before
      BY <1>1, <3>1, FirstInOrder
    <3> QED BY <3>2 DEF before
  <2> QED BY <2>3 DEF Canonical
<1>4. \E i \in group : \A j \in group : ts[i].risk <= ts[j].risk
  <2> DEFINE risks == {ts[i].risk : i \in group}
  <2>1. risks \in SUBSET Nat /\ risks # {}
    <3>1. \A i \in group : ts[i].risk \in Nat
      BY <1>2 DEF Target
    <3> QED BY <3>1
  <2>2. PICK m \in risks : \A n \in risks : m <= n
    BY <2>1, LeastNatural
  <2> QED BY <2>2
<1> DEFINE lead == CHOOSE i \in group : \A j \in group \ {i} : CanonicalBefore(ts[i], ts[j])
           least == CHOOSE i \in group : \A j \in group : ts[i].risk <= ts[j].risk
           all == UNION {Lineage(ts[i]) : i \in group}
<1>5. lead \in group /\ least \in group
  BY <1>3, <1>4
<1>6. Merge(ts, group) = [ts[lead] EXCEPT !.source = Source(ts[lead]), !.risk = ts[least].risk,
                            !.shape = United(ts, group, lead),
                            !.fp = Fingerprint(ts[lead]), !.lineage = all]
  BY DEF Merge
<1>7. all \in SUBSET (TargetSources \X Nat)
  BY <1>2, LineageOf
<1>8. Source(ts[lead]) \in TargetSources /\ Fingerprint(ts[lead]) \in Fingerprints
  BY <1>2, <1>5, SourceOf, FingerprintOf
<1> HIDE DEF lead, least, all
<1>9. ts[lead] \in Target /\ ts[least].risk \in Nat /\ United(ts, group, lead) \in Shapes
  <2>1. ts[lead] \in Target /\ ts[least].risk \in Nat
    BY <1>2, <1>5 DEF Target
  <2>2. /\ ts[lead].shape \in Shapes
        /\ {ts[i].shape : i \in group} \in SUBSET Shapes
    BY <1>2, <1>5 DEF Target
  <2>3. MergedShape[ts[lead].shape] \in [SUBSET Shapes -> Shapes]
    BY <2>2, PolicyAssumption
  <2>4. United(ts, group, lead) \in Shapes
    BY <2>2, <2>3 DEF United
  <2> QED BY <2>1, <2>4
<1>10. /\ Merge(ts, group) \in Target /\ Merge(ts, group).lineage = all
       /\ Merge(ts, group).id = ts[lead].id /\ Merge(ts, group).status = ts[lead].status
  BY <1>6, <1>7, <1>8, <1>9 DEF Target
<1> QED BY <1>5, <1>10 DEF all

-------------------------------------------------------------------------------
(* apply_target_queue_policy takes every target over. *)

CompetingIn(ts) == {i \in DOMAIN ts : Competing(ts[i])}

LEMMA GroupFacts ==
  ASSUME NEW ts \in Seq(Target)
  PROVE  /\ IsFiniteSet(Groups(ts))
         /\ \A g \in Groups(ts) : g \in SUBSET DOMAIN ts /\ g # {}
         /\ \A g, h \in Groups(ts) : g # h => g \cap h = {}
         /\ \A i \in CompetingIn(ts) : \E g \in Groups(ts) : i \in g
<1> DEFINE group(i) == {j \in CompetingIn(ts) : Fingerprint(ts[j]) = Fingerprint(ts[i])}
<1>1. Groups(ts) = {group(i) : i \in CompetingIn(ts)}
  BY DEF Groups, CompetingIn
<1>2. \A i \in CompetingIn(ts) : i \in group(i) /\ group(i) \in SUBSET DOMAIN ts
  BY DEF CompetingIn
<1>3. ASSUME NEW i \in CompetingIn(ts), NEW j \in CompetingIn(ts), NEW k, k \in group(i), k \in group(j)
      PROVE  group(i) = group(j)
  BY <1>3
<1>4. IsFiniteSet(Groups(ts))
  <2>1. IsFiniteSet(DOMAIN ts)
    BY FS_Interval
  <2>2. IsFiniteSet(SUBSET DOMAIN ts)
    BY <2>1, FS_SUBSET
  <2>3. Groups(ts) \in SUBSET (SUBSET DOMAIN ts)
    BY <1>1, <1>2
  <2> QED BY <2>2, <2>3, FS_Subset
<1> HIDE DEF group
<1> QED BY <1>1, <1>2, <1>3, <1>4

LEMMA OrderIsStrict ==
  ASSUME NEW ts \in Seq(Target), Distinct(ts), NEW policy
  PROVE  StrictOrder(Groups(ts), PolicyOrder(ts, policy))
<1>1. /\ \A g \in Groups(ts) : g \in SUBSET DOMAIN ts /\ g # {}
      /\ \A g, h \in Groups(ts) : g # h => g \cap h = {}
  BY GroupFacts
<1>2. CASE policy = "strict"
  <2>1. ASSUME NEW g \in Groups(ts) PROVE First(g) \in g /\ First(g) \in Nat
    <3>1. g \in SUBSET Nat /\ g # {}
      BY <1>1
    <3>2. \E i \in g : \A j \in g : i <= j
      BY <3>1, LeastNatural
    <3> QED BY <3>1, <3>2 DEF First
  <2>2. ASSUME NEW g \in Groups(ts), NEW h \in Groups(ts), g # h PROVE First(g) # First(h)
    BY <1>1, <2>1, <2>2
  <2>3. PolicyOrder(ts, policy) = {pair \in Groups(ts) \X Groups(ts) : First(pair[1]) < First(pair[2])}
    BY <1>2 DEF PolicyOrder
  <2>4. ASSUME NEW g \in Groups(ts), NEW h \in Groups(ts)
        PROVE  << g, h >> \in PolicyOrder(ts, policy) <=> First(g) < First(h)
    BY <2>3
  <2> QED BY <2>1, <2>2, <2>4 DEF StrictOrder
<1>3. CASE policy # "strict"
  <2> DEFINE f == [g \in Groups(ts) |-> Merge(ts, g)]
  <2>1. ASSUME NEW g \in Groups(ts)
        PROVE  Merge(ts, g) \in Target /\ \E i \in g : Merge(ts, g).id = ts[i].id
    BY <1>1, MergeFacts
  <2>2. ASSUME NEW g \in Groups(ts), NEW h \in Groups(ts), g # h PROVE Merge(ts, g).id # Merge(ts, h).id
    <3>1. PICK i \in g : Merge(ts, g).id = ts[i].id
      BY <2>1
    <3>2. PICK j \in h : Merge(ts, h).id = ts[j].id
      BY <2>1
    <3>3. i \in DOMAIN ts /\ j \in DOMAIN ts /\ i # j
      BY <1>1, <2>2
    <3> QED BY <3>1, <3>2, <3>3 DEF Distinct
  <2>3. f \in [Groups(ts) -> Target] /\ \A g, h \in Groups(ts) : g # h => f[g].id # f[h].id
    BY <2>1, <2>2
  <2>4. PolicyOrder(ts, policy) = Canonical(Groups(ts), f)
    BY <1>3 DEF PolicyOrder, Canonical
  <2> QED BY <2>3, <2>4, CanonicalIsStrict
<1> QED BY <1>2, <1>3

(* A list of groups in which each is there. *)
ListsGroups(groups, ts) ==
  /\ groups \in Seq(Groups(ts))
  /\ \A g \in Groups(ts) : \E k \in DOMAIN groups : groups[k] = g

(* The order of the policy loses no group. *)
LEMMA OrderedFacts ==
  ASSUME NEW ts \in Seq(Target), Distinct(ts), NEW policy
  PROVE  ListsGroups(Ordered(ts, policy), ts)
<1> DEFINE n == Cardinality(Groups(ts))
<1>1. IsFiniteSet(Groups(ts))
  BY GroupFacts
<1>2. n \in Nat
  BY <1>1, FS_CardinalityType
<1>3. StrictOrder(Groups(ts), PolicyOrder(ts, policy))
  BY OrderIsStrict
<1>4. /\ Ordered(ts, policy) \in [1 .. n -> Groups(ts)]
      /\ \A g \in Groups(ts) : \E k \in 1 .. n : Ordered(ts, policy)[k] = g
  BY <1>1, <1>3, InOrderFacts DEF Ordered
<1> HIDE DEF n
<1>5. Ordered(ts, policy) \in Seq(Groups(ts)) /\ DOMAIN Ordered(ts, policy) = 1 .. n
  <2> DEFINE order == Ordered(ts, policy)
             groups == Groups(ts)
  <2>1. order \in [1 .. n -> groups]
    BY <1>4
  <2> HIDE DEF order, groups
  <2>2. order \in Seq(groups) /\ DOMAIN order = 1 .. n
    BY <1>2, <2>1
  <2> QED BY <2>2 DEF order, groups
<1> QED BY <1>4, <1>5 DEF ListsGroups

(* Every seed is in the wave or deferred. *)
LEMMA SelectFacts ==
  ASSUME NEW seeds \in Seq(Target), NEW budgets
  PROVE  LET chosen == Select(seeds, budgets) IN
         /\ chosen.active \in Seq(Target) /\ chosen.deferred \in Seq(Target)
         /\ \A k \in DOMAIN seeds :
              \/ \E j \in DOMAIN chosen.active : chosen.active[j] = seeds[k]
              \/ \E j \in DOMAIN chosen.deferred : chosen.deferred[j] = seeds[k]
<1> DEFINE wave == Taken(seeds, budgets)
           rest == DOMAIN seeds \ wave
<1>1. wave \in SUBSET DOMAIN seeds /\ rest \in SUBSET DOMAIN seeds
  BY TakenExists
<1>2. /\ Select(seeds, budgets).active = Sublist(seeds, wave)
      /\ Select(seeds, budgets).deferred = Sublist(seeds, rest)
  BY DEF Select
<1>3. /\ Sublist(seeds, wave) \in Seq(Target)
      /\ \A k \in wave : \E j \in DOMAIN Sublist(seeds, wave) : Sublist(seeds, wave)[j] = seeds[k]
  BY <1>1, SublistFacts
<1>4. /\ Sublist(seeds, rest) \in Seq(Target)
      /\ \A k \in rest : \E j \in DOMAIN Sublist(seeds, rest) : Sublist(seeds, rest)[j] = seeds[k]
  BY <1>1, SublistFacts
<1>5. \A k \in DOMAIN seeds : k \in wave \/ k \in rest
  OBVIOUS
<1> HIDE DEF wave, rest
<1> QED BY <1>2, <1>3, <1>4, <1>5

Members(these) == {these[k] : k \in DOMAIN these}

LEMMA JoinedMembers ==
  ASSUME NEW T, NEW a \in Seq(T), NEW b \in Seq(T)
  PROVE  a \o b \in Seq(T) /\ Members(a \o b) = Members(a) \cup Members(b)
<1> DEFINE m == Len(a)
           n == Len(b)
<1>1. /\ m \in Nat /\ n \in Nat /\ DOMAIN a = 1 .. m /\ DOMAIN b = 1 .. n
      /\ a \o b \in Seq(T) /\ DOMAIN (a \o b) = 1 .. m + n
      /\ \A k \in 1 .. m + n : (a \o b)[k] = IF k <= m THEN a[k] ELSE b[k - m]
  OBVIOUS
<1> HIDE DEF m, n
<1>2. ASSUME NEW k \in 1 .. m + n PROVE (a \o b)[k] \in Members(a) \cup Members(b)
  <2>1. CASE k <= m
    <3>1. k \in 1 .. m
      BY <1>1, <2>1
    <3> QED BY <1>1, <2>1, <3>1 DEF Members
  <2>2. CASE ~ (k <= m)
    <3>1. k - m \in 1 .. n
      BY <1>1, <2>2
    <3> QED BY <1>1, <2>2, <3>1 DEF Members
  <2> QED BY <2>1, <2>2
<1>3. ASSUME NEW k \in 1 .. m PROVE a[k] \in Members(a \o b)
  <2>1. k \in 1 .. m + n /\ k <= m
    BY <1>1
  <2> QED BY <1>1, <2>1 DEF Members
<1>4. ASSUME NEW k \in 1 .. n PROVE b[k] \in Members(a \o b)
  <2>1. k + m \in 1 .. m + n /\ ~ (k + m <= m) /\ (k + m) - m = k
    BY <1>1
  <2>2. (a \o b)[k + m] = b[k]
    BY <1>1, <2>1
  <2> QED BY <1>1, <2>1, <2>2 DEF Members
<1>5. Members(a \o b) = {(a \o b)[k] : k \in 1 .. m + n} /\ Members(a) = {a[k] : k \in 1 .. m} /\ Members(b) = {b[k] : k \in 1 .. n}
  BY <1>1 DEF Members
<1>6. Members(a \o b) \subseteq Members(a) \cup Members(b)
  BY <1>2, <1>5
<1>7. Members(a) \subseteq Members(a \o b)
  BY <1>3, <1>5
<1>8. Members(b) \subseteq Members(a \o b)
  BY <1>4, <1>5
<1> QED BY <1>1, <1>6, <1>7, <1>8

LEMMA MembersAreTyped ==
  ASSUME NEW ts \in Seq(Target) PROVE \A u \in Members(ts) : u \in Target
<1>1. \A k \in DOMAIN ts : ts[k] \in Target
  OBVIOUS
<1> QED BY <1>1 DEF Members

LEMMA NoMembers == Members(<< >>) = {}
<1>1. DOMAIN << >> = {}
  OBVIOUS
<1> QED BY <1>1 DEF Members

LEMMA ApplicableIsDistinct ==
  ASSUME NEW ts \in Seq(Target), Applicable(ts)
  PROVE  Distinct(ts)
<1> DEFINE f == [i \in DOMAIN ts |-> ts[i].id]
<1>1. IsFiniteSet(DOMAIN ts) /\ Cardinality(DOMAIN ts) = Len(ts)
  <2>1. DOMAIN ts = 1 .. Len(ts) /\ Len(ts) \in Nat
    OBVIOUS
  <2>2. IsFiniteSet(1 .. Len(ts)) /\ Cardinality(1 .. Len(ts)) = Len(ts)
    BY <2>1, Intervals
  <2> QED BY <2>1, <2>2
<1>2. f \in Surjection(DOMAIN ts, TargetIds(ts))
  BY DEF Surjection, TargetIds
<1>3. Cardinality(TargetIds(ts)) = Cardinality(DOMAIN ts)
  BY <1>1 DEF Applicable
<1>4. f \in Injection(DOMAIN ts, TargetIds(ts))
  BY <1>1, <1>2, <1>3, FS_Surjection
<1> QED BY <1>4 DEF Injection, IsInjective, Distinct

(* t is represented in a list: by one with its lineage, and its status unless it competes. *)
Represented(t, these) ==
  \E u \in Members(these) : Lineage(t) \subseteq u.lineage /\ (Competing(t) \/ u.status = t.status)

(* apply_target_queue_policy loses nothing: of an applicable list each target is   *)
(* represented in the wave, among the deferred or among the retained.               *)
LEMMA ApplyFacts ==
  ASSUME NEW ts \in Seq(Target), Applicable(ts), NEW budgets, NEW policy
  PROVE  LET result == Apply(ts, budgets, policy) IN
         /\ result.active \in Seq(Target) /\ result.deferred \in Seq(Target)
         /\ \A i \in DOMAIN ts : Represented(ts[i], Targets(result))
<1> DEFINE groups == Ordered(ts, policy)
           seeds == [k \in DOMAIN groups |-> Merge(ts, groups[k])]
           wave == Select(seeds, budgets)
           others == {i \in DOMAIN ts : ~Competing(ts[i])}
           single == [i \in DOMAIN ts |-> Merge(ts, {i})]
           retained == Sublist(single, others)
           result == Apply(ts, budgets, policy)
<1>1. Distinct(ts)
  <2> HIDE DEF groups, seeds, wave, others, single, retained, result
  <2> QED BY ApplicableIsDistinct, Zenon
<1>2. /\ groups \in Seq(Groups(ts))
      /\ \A g \in Groups(ts) : \E k \in DOMAIN groups : groups[k] = g
  <2> HIDE DEF groups, seeds, wave, others, single, retained, result
  <2>1. ListsGroups(Ordered(ts, policy), ts)
    BY <1>1, OrderedFacts, Zenon
  <2> QED BY <2>1, Zenon DEF groups, ListsGroups
<1>3. /\ \A g \in Groups(ts) : g \in SUBSET DOMAIN ts /\ g # {}
      /\ \A i \in CompetingIn(ts) : \E g \in Groups(ts) : i \in g
  BY GroupFacts
<1>4. /\ result.active = wave.active \o retained /\ result.deferred = wave.deferred
  BY DEF Apply
<1> HIDE DEF groups
<1>5. \A k \in DOMAIN groups : groups[k] \in Groups(ts) /\ Merge(ts, groups[k]) \in Target
  <2> HIDE DEF seeds, wave, others, single, retained, result
  <2> SUFFICES ASSUME NEW k \in DOMAIN groups
               PROVE  groups[k] \in Groups(ts) /\ Merge(ts, groups[k]) \in Target
    OBVIOUS
  <2> DEFINE group == groups[k]
  <2>1. group \in Groups(ts)
    BY <1>2
  <2> HIDE DEF group
  <2>2. group \in SUBSET DOMAIN ts /\ group # {}
    BY <1>3, <2>1
  <2>3. Merge(ts, group) \in Target
    BY <1>1, <2>2, MergeFacts
  <2> QED BY <2>1, <2>3 DEF group
<1>6. seeds \in Seq(Target) /\ DOMAIN seeds = DOMAIN groups
  <2>1. Len(groups) \in Nat /\ DOMAIN groups = 1 .. Len(groups)
    BY <1>2
  <2>2. seeds \in [1 .. Len(groups) -> Target]
    BY <1>5, <2>1
  <2> QED BY <2>1, <2>2
<1>7. /\ wave.active \in Seq(Target) /\ wave.deferred \in Seq(Target)
      /\ \A k \in DOMAIN seeds : seeds[k] \in Members(wave.active) \cup Members(wave.deferred)
  <2> HIDE DEF seeds
  <2>1. /\ wave.active \in Seq(Target) /\ wave.deferred \in Seq(Target)
        /\ \A k \in DOMAIN seeds :
              \/ \E j \in DOMAIN wave.active : wave.active[j] = seeds[k]
              \/ \E j \in DOMAIN wave.deferred : wave.deferred[j] = seeds[k]
    <3> HIDE DEF groups, others, single, retained, result
    <3> QED BY <1>6, SelectFacts
  <2> HIDE DEF wave
  <2> QED BY <2>1 DEF Members
<1>8. \A i \in DOMAIN ts : {i} \in SUBSET DOMAIN ts /\ {i} # {}
  OBVIOUS
<1>9. ASSUME NEW i \in DOMAIN ts
      PROVE  /\ Merge(ts, {i}) \in Target
             /\ Merge(ts, {i}).lineage = Lineage(ts[i]) /\ Merge(ts, {i}).status = ts[i].status
  <2>1. /\ Merge(ts, {i}) \in Target
        /\ Merge(ts, {i}).lineage = UNION {Lineage(ts[j]) : j \in {i}}
        /\ \E lead \in {i} : Merge(ts, {i}).status = ts[lead].status
    BY <1>1, <1>8, MergeFacts
  <2>2. UNION {Lineage(ts[j]) : j \in {i}} = Lineage(ts[i])
    OBVIOUS
  <2> QED BY <2>1, <2>2
<1>10. single \in Seq(Target) /\ DOMAIN single = DOMAIN ts
  <2>1. Len(ts) \in Nat /\ DOMAIN ts = 1 .. Len(ts)
    OBVIOUS
  <2>2. single \in [1 .. Len(ts) -> Target]
    BY <1>9, <2>1
  <2> QED BY <2>1, <2>2
<1>11. /\ retained \in Seq(Target)
       /\ \A i \in others : Merge(ts, {i}) \in Members(retained)
  <2>1. others \in SUBSET DOMAIN single
    BY <1>10
  <2>2. /\ Sublist(single, others) \in Seq(Target)
        /\ \A i \in others : \E k \in DOMAIN Sublist(single, others) : Sublist(single, others)[k] = single[i]
    BY <1>10, <2>1, SublistFacts
  <2>3. \A i \in others : single[i] = Merge(ts, {i})
    OBVIOUS
  <2> HIDE DEF single, others
  <2> QED BY <2>2, <2>3 DEF Members
<1> HIDE DEF wave, retained, single
<1>12. /\ result.active \in Seq(Target)
       /\ Members(result.active) = Members(wave.active) \cup Members(retained)
  BY <1>4, <1>7, <1>11, JoinedMembers
<1> HIDE DEF result
<1>13. Members(Targets(result)) = Members(wave.active) \cup Members(retained) \cup Members(wave.deferred)
  <2>1. Targets(result) = result.active \o result.deferred
    BY DEF Targets
  <2>0. result.active \in Seq(Target) /\ result.deferred \in Seq(Target)
    BY <1>4, <1>7, <1>12
  <2>2. Members(result.active \o result.deferred) = Members(result.active) \cup Members(result.deferred)
    BY <2>0, JoinedMembers
  <2> QED BY <1>4, <1>12, <2>1, <2>2
<1>14. ASSUME NEW i \in DOMAIN ts PROVE Represented(ts[i], Targets(result))
  <2>1. CASE Competing(ts[i])
    <3>1. PICK g \in Groups(ts) : i \in g
      BY <1>3, <2>1 DEF CompetingIn
    <3>2. PICK k \in DOMAIN groups : groups[k] = g
      BY <1>2
    <3>3. seeds[k] = Merge(ts, g) /\ seeds[k] \in Members(Targets(result))
      BY <1>6, <1>7, <1>13, <3>2
    <3>4. Merge(ts, g).lineage = UNION {Lineage(ts[j]) : j \in g}
      BY <1>1, <1>3, MergeFacts
    <3>5. Lineage(ts[i]) \subseteq Merge(ts, g).lineage
      BY <3>1, <3>4
    <3> QED BY <2>1, <3>3, <3>5 DEF Represented
  <2>2. CASE ~Competing(ts[i])
    <3>1. i \in others
      BY <2>2
    <3>2. Merge(ts, {i}) \in Members(Targets(result))
      BY <1>11, <1>13, <3>1
    <3> QED BY <1>9, <3>2 DEF Represented
  <2> QED BY <2>1, <2>2
<1> QED BY <1>4, <1>7, <1>12, <1>14 DEF result

-------------------------------------------------------------------------------
(* The state machine *)

LEMMA SettingIsFine ==
  ASSUME setting \in DOMAIN Settings
  PROVE  /\ Working \subseteq Tools /\ Marks \subseteq Statuses /\ ModelLists \subseteq Seq(Target)
         /\ Posture \subseteq {t \in Target : t.lineage = {}}
         /\ GapfillIds \subseteq Nat /\ IsFiniteSet(GapfillIds)
  BY QueueAssumption DEF Working, Marks, ModelLists, Posture, GapfillIds, UsesOf

IsArtifact(a) ==
  /\ a = [managed |-> a.managed, active |-> a.active, deferred |-> a.deferred, summary |-> a.summary]
  /\ a.managed \in BOOLEAN /\ a.active \in Seq(Target) /\ a.deferred \in Seq(Target)
  /\ ~a.managed => a.deferred = << >>
  /\ "decisions" \in DOMAIN a.summary

QueueTypeOK ==
  /\ setting \in DOMAIN Settings
  /\ DOMAIN pc = Tools /\ DOMAIN op = Tools
  /\ loaded \in [Tools -> Seq(Target)]
  /\ DOMAIN next = Tools /\ \A t \in Tools : IsArtifact(next[t])
  /\ IsArtifact(file)

LEMMA UnmanagedIsArtifact ==
  ASSUME NEW ts \in Seq(Target) PROVE IsArtifact(Unmanaged(ts))
  BY DEF IsArtifact, Unmanaged, NoSummary

LEMMA NothingIsArtifact == IsArtifact(Nothing)
<1>1. << >> \in Seq(Target)
  OBVIOUS
<1> QED BY <1>1, UnmanagedIsArtifact DEF Nothing

LEMMA MarkedType ==
  ASSUME NEW ts \in Seq(Target), NEW id, NEW status \in Statuses
  PROVE  /\ Marked(ts, id, status) \in Seq(Target) /\ DOMAIN Marked(ts, id, status) = DOMAIN ts
         /\ \A i \in DOMAIN ts : /\ Marked(ts, id, status)[i].id = ts[i].id
                                 /\ Lineage(Marked(ts, id, status)[i]) = Lineage(ts[i])
<1> DEFINE m == Marked(ts, id, status)
<1>1. Len(ts) \in Nat /\ DOMAIN ts = 1 .. Len(ts) /\ \A i \in DOMAIN ts : ts[i] \in Target
  OBVIOUS
<1>2. DOMAIN m = DOMAIN ts
  BY DEF Marked
<1>3. ASSUME NEW i \in DOMAIN ts
      PROVE  m[i] \in Target /\ m[i].id = ts[i].id /\ Lineage(m[i]) = Lineage(ts[i])
  <2>1. m[i] = IF ts[i].id = id THEN [ts[i] EXCEPT !.status = status] ELSE ts[i]
    BY DEF Marked
  <2>2. ts[i] \in Target
    BY <1>1
  <2>3. CASE ts[i].id = id
    <3>1. /\ m[i] \in Target /\ m[i].id = ts[i].id /\ m[i].source = ts[i].source
          /\ m[i].lineage = ts[i].lineage
      BY <2>1, <2>2, <2>3 DEF Target
    <3> QED BY <3>1 DEF Lineage, Source
  <2>4. CASE ts[i].id # id
    BY <2>1, <2>2, <2>4
  <2> QED BY <2>3, <2>4
<1>4. m \in Seq(Target)
  <2>1. m \in [1 .. Len(ts) -> Target]
    BY <1>1, <1>2, <1>3 DEF Marked
  <2> QED BY <1>1, <2>1
<1> QED BY <1>2, <1>3, <1>4

LEMMA RefreshedFacts ==
  ASSUME NEW t \in Target
  PROVE  /\ Refreshed(t) \in Target /\ Refreshed(t).id = t.id /\ Refreshed(t).status = t.status
         /\ Refreshed(t).lineage = Lineage(t) /\ Lineage(Refreshed(t)) = Lineage(t)
         /\ Source(Refreshed(t)) = Source(t)
<1>1. Source(t) \in TargetSources /\ Fingerprint(t) \in Fingerprints
      /\ Lineage(t) \in SUBSET (TargetSources \X Nat) /\ Lineage(t) # {}
  BY SourceOf, FingerprintOf, LineageOf
<1>2. /\ Refreshed(t) \in Target /\ Refreshed(t).id = t.id /\ Refreshed(t).status = t.status
      /\ Refreshed(t).lineage = Lineage(t) /\ Refreshed(t).source = Source(t)
  BY <1>1 DEF Refreshed, Target
<1> QED BY <1>1, <1>2 DEF Lineage, Source

LEMMA NormalizedFacts ==
  ASSUME NEW ts \in Seq(Target)
  PROVE  /\ Normalized(ts) \in Seq(Target) /\ DOMAIN Normalized(ts) = DOMAIN ts
         /\ \A i \in DOMAIN ts : /\ Normalized(ts)[i].id = ts[i].id
                                 /\ Normalized(ts)[i].status = ts[i].status
                                 /\ Lineage(Normalized(ts)[i]) = Lineage(ts[i])
<1> DEFINE m == Normalized(ts)
<1>1. Len(ts) \in Nat /\ DOMAIN ts = 1 .. Len(ts) /\ \A i \in DOMAIN ts : ts[i] \in Target
  OBVIOUS
<1>2. DOMAIN m = DOMAIN ts
  BY DEF Normalized
<1>3. ASSUME NEW i \in DOMAIN ts
      PROVE  /\ m[i] \in Target /\ m[i].id = ts[i].id /\ m[i].status = ts[i].status
             /\ Lineage(m[i]) = Lineage(ts[i])
  <2>1. m[i] = [ts[i] EXCEPT !.shape = CanonicalShape[ts[i].shape]]
    BY DEF Normalized
  <2>2. ts[i] \in Target /\ CanonicalShape[ts[i].shape] \in Shapes
    BY <1>1, PolicyAssumption DEF Target
  <2>3. /\ m[i] \in Target /\ m[i].id = ts[i].id /\ m[i].source = ts[i].source
        /\ m[i].lineage = ts[i].lineage /\ m[i].status = ts[i].status
    BY <2>1, <2>2 DEF Target
  <2> QED BY <2>3 DEF Lineage, Source
<1>4. m \in Seq(Target)
  <2>1. m \in [1 .. Len(ts) -> Target]
    BY <1>1, <1>2, <1>3 DEF Normalized
  <2> QED BY <1>1, <2>1
<1> QED BY <1>2, <1>3, <1>4

RefreshedList(ts) == [i \in DOMAIN ts |-> Refreshed(ts[i])]

LEMMA RefreshedListFacts ==
  ASSUME NEW ts \in Seq(Target)
  PROVE  /\ RefreshedList(ts) \in Seq(Target) /\ DOMAIN RefreshedList(ts) = DOMAIN ts
         /\ Members(RefreshedList(ts)) = {Refreshed(u) : u \in Members(ts)}
<1>1. Len(ts) \in Nat /\ DOMAIN ts = 1 .. Len(ts) /\ \A i \in DOMAIN ts : ts[i] \in Target
  OBVIOUS
<1>2. RefreshedList(ts) \in [1 .. Len(ts) -> Target]
  BY <1>1, RefreshedFacts DEF RefreshedList
<1>3. RefreshedList(ts) \in Seq(Target)
  BY <1>1, <1>2
<1> QED BY <1>1, <1>2, <1>3 DEF RefreshedList, Members

LEMMA PreserveType ==
  ASSUME NEW active \in Seq(Target), NEW deferred \in Seq(Target), NEW summary, "decisions" \in DOMAIN summary
  PROVE  LET b == Preserve(active, deferred, summary) IN
         /\ IsArtifact(b) /\ b.managed /\ b.active = RefreshedList(active) /\ b.deferred = RefreshedList(deferred)
         /\ b.summary.decisions =
              UNION {KeptDecision(summary, u) : u \in Members(RefreshedList(active)) \cup Members(RefreshedList(deferred))}
<1> DEFINE b == Preserve(active, deferred, summary)
           all == RefreshedList(active) \o RefreshedList(deferred)
<1>1. RefreshedList(active) \in Seq(Target) /\ RefreshedList(deferred) \in Seq(Target)
  BY RefreshedListFacts
<1>2. b = [managed |-> TRUE, active |-> RefreshedList(active), deferred |-> RefreshedList(deferred),
           summary |-> [summary EXCEPT !.decisions = UNION {KeptDecision(summary, all[i]) : i \in DOMAIN all}]]
  BY DEF Preserve, RefreshedList
<1>3. Members(all) = Members(RefreshedList(active)) \cup Members(RefreshedList(deferred))
  BY <1>1, JoinedMembers
<1> DEFINE ds == UNION {KeptDecision(summary, all[i]) : i \in DOMAIN all}
<1>4. ds = UNION {KeptDecision(summary, u) : u \in Members(all)}
  BY DEF Members
<1> HIDE DEF all, ds
<1>5. b = [managed |-> TRUE, active |-> RefreshedList(active), deferred |-> RefreshedList(deferred),
           summary |-> [summary EXCEPT !.decisions = ds]]
  BY <1>2 DEF ds
<1> HIDE DEF b
<1>6. /\ b.managed = TRUE /\ b.active = RefreshedList(active) /\ b.deferred = RefreshedList(deferred)
      /\ b.summary = [summary EXCEPT !.decisions = ds]
  BY <1>5
<1>8. b.summary.decisions = ds /\ "decisions" \in DOMAIN b.summary
  BY <1>6
<1>7. b = [managed |-> b.managed, active |-> b.active, deferred |-> b.deferred, summary |-> b.summary]
  BY <1>5, <1>6
<1> QED BY <1>1, <1>3, <1>4, <1>6, <1>7, <1>8 DEF IsArtifact, b

-------------------------------------------------------------------------------
(* What a write does to the targets *)

LEMMA MembersForm ==
  ASSUME NEW ts
  PROVE  /\ TargetIds(ts) = {u.id : u \in Members(ts)}
         /\ IdsWithLineage(ts) = {u.id : u \in Members(ts)} \cup UNION {LineageIds(u) : u \in Members(ts)}
  BY DEF TargetIds, IdsWithLineage, Members

LEMMA StatusForm ==
  ASSUME NEW a, NEW id
  PROVE  StatusOf(a, id) = {u.status : u \in {v \in Members(Targets(a)) : id \in LineageIds(v)}}
  BY DEF StatusOf, Members

LEMMA ArtifactMembers ==
  ASSUME NEW a, IsArtifact(a)
  PROVE  /\ Targets(a) \in Seq(Target)
         /\ Members(Targets(a)) = Members(a.active) \cup Members(a.deferred)
         /\ \A u \in Members(Targets(a)) : u \in Target
<1>1. a.active \in Seq(Target) /\ a.deferred \in Seq(Target)
  BY DEF IsArtifact
<1>2. /\ Targets(a) \in Seq(Target)
      /\ Members(Targets(a)) = Members(a.active) \cup Members(a.deferred)
  BY <1>1, JoinedMembers DEF Targets
<1>3. \A k \in DOMAIN Targets(a) : Targets(a)[k] \in Target
  BY <1>2
<1> QED BY <1>2, <1>3 DEF Members

LEMMA OwnEntry ==
  ASSUME NEW ts, LineageIsUnique(ts), NEW u \in Members(ts)
  PROVE  u.id \in LineageIds(u)
<1>1. PICK i \in DOMAIN ts : u = ts[i]
  BY DEF Members
<1>2. << Source(u), u.id >> \in Lineage(u)
  BY <1>1 DEF LineageIsUnique
<1> QED BY <1>2 DEF LineageIds

LEMMA SmallerLineage ==
  ASSUME NEW u, NEW v, Lineage(u) \subseteq Lineage(v) PROVE LineageIds(u) \subseteq LineageIds(v)
  BY DEF LineageIds

Stable(a, b) ==
  a.managed /\ b.managed => Selection(b) = Selection(a) /\ TargetIds(b.deferred) = TargetIds(a.deferred)

Remembers(a, b) == IdsWithLineage(Targets(a)) \subseteq IdsWithLineage(Targets(b))

Progresses(a, b) ==
  \A id \in TargetIds(Targets(a)) : "queued" \notin StatusOf(a, id) => StatusOf(b, id) # {"queued"}

\* One of a list has the ids of u, and has not fallen behind it.
Remembered(u, these) ==
  \E v \in Members(these) : LineageIds(u) \subseteq LineageIds(v) /\ (v.id = u.id \/ u.id \in LineageIds(v))

Advanced(u, these) ==
  \E v \in Members(these) : u.id \in LineageIds(v) /\ (u.status = "queued" \/ v.status # "queued")

LEMMA AllRemembered ==
  ASSUME NEW a, NEW b, \A u \in Members(Targets(a)) : Remembered(u, Targets(b))
  PROVE  Remembers(a, b)
<1>1. ASSUME NEW u \in Members(Targets(a)), NEW id, id = u.id \/ id \in LineageIds(u)
      PROVE  id \in IdsWithLineage(Targets(b))
  <2>1. PICK v \in Members(Targets(b)) : LineageIds(u) \subseteq LineageIds(v) /\ (v.id = u.id \/ u.id \in LineageIds(v))
    BY DEF Remembered
  <2>2. id = v.id \/ id \in LineageIds(v)
    BY <1>1, <2>1
  <2> QED BY <2>1, <2>2, MembersForm
<1> QED BY <1>1, MembersForm DEF Remembers

LEMMA AllAdvanced ==
  ASSUME NEW a, NEW b, \A u \in Members(Targets(a)) : u.id \in LineageIds(u) /\ Advanced(u, Targets(b))
  PROVE  Progresses(a, b)
<1>1. ASSUME NEW id \in TargetIds(Targets(a)), "queued" \notin StatusOf(a, id)
      PROVE  StatusOf(b, id) # {"queued"}
  <2>1. PICK u \in Members(Targets(a)) : id = u.id
    BY MembersForm
  <2>2. u.status # "queued"
    BY <1>1, <2>1, StatusForm
  <2>3. PICK v \in Members(Targets(b)) : u.id \in LineageIds(v) /\ v.status # "queued"
    BY <2>2 DEF Advanced
  <2>4. v.status \in StatusOf(b, id)
    BY <2>1, <2>3, StatusForm
  <2> QED BY <2>3, <2>4
<1> QED BY <1>1 DEF Progresses

(* preserve_target_queue_membership: the wave is what it was, whatever was appended. *)
LEMMA PreservedSelection ==
  ASSUME NEW A \in Seq(Target), NEW D \in Seq(Target), NEW summary, "decisions" \in DOMAIN summary,
         LineageIsUnique(A \o D)
  PROVE  Selection(Preserve(A, D, summary)) =
           {id \in TargetIds(A) \cup TargetIds(D) : DecisionOf(summary, id).action = "active"}
<1> DEFINE b == Preserve(A, D, summary)
           news == Members(RefreshedList(A)) \cup Members(RefreshedList(D))
           olds == Members(A) \cup Members(D)
<1>1. b.summary.decisions = UNION {KeptDecision(summary, u) : u \in news}
  BY PreserveType
<1>2. news = {Refreshed(u) : u \in olds}
  BY RefreshedListFacts
<1>3. \A u \in olds : u \in Target
  BY DEF Members
<1>4. Members(A \o D) = olds
  BY JoinedMembers
<1>5. ASSUME NEW u \in olds PROVE << Source(u), u.id >> \in Lineage(u)
  <2>1. PICK i \in DOMAIN (A \o D) : u = (A \o D)[i]
    BY <1>4 DEF Members
  <2> QED BY <2>1 DEF LineageIsUnique
<1>6. ASSUME NEW u \in news
      PROVE  /\ u.id \in TargetIds(A) \cup TargetIds(D)
             /\ \E entry \in Lineage(u) : entry[2] = u.id
  <2>1. PICK v \in olds : u = Refreshed(v)
    BY <1>2
  <2>2. u.id = v.id /\ Lineage(u) = Lineage(v)
    BY <1>3, <2>1, RefreshedFacts
  <2>3. << Source(v), u.id >> \in Lineage(u)
    BY <1>5, <2>2
  <2> QED BY <2>2, <2>3, MembersForm
<1>7. ASSUME NEW id \in TargetIds(A) \cup TargetIds(D) PROVE \E u \in news : u.id = id
  <2>1. PICK v \in olds : v.id = id
    BY MembersForm
  <2>2. Refreshed(v) \in news /\ Refreshed(v).id = id
    BY <1>2, <1>3, <2>1, RefreshedFacts
  <2> QED BY <2>2
<1>8. ASSUME NEW u \in news, NEW d \in KeptDecision(summary, u), d.target = d.canonical, d.action = "active"
      PROVE  d.canonical = u.id /\ DecisionOf(summary, u.id).action = "active"
  BY <1>8 DEF KeptDecision, DecisionsFor, Decision
<1>9. ASSUME NEW u \in news, DecisionOf(summary, u.id).action = "active"
      PROVE  \E d \in KeptDecision(summary, u) : d.target = d.canonical /\ d.action = "active" /\ d.canonical = u.id
  <2>1. PICK entry \in Lineage(u) : entry[2] = u.id
    BY <1>6
  <2> DEFINE reason == DecisionOf(summary, u.id).reason
             d == Decision(u.id, u.id, entry[1], "active", reason)
  <2>2. KeptDecision(summary, u) = DecisionsFor(u, "active", reason)
    BY <1>9 DEF KeptDecision
  <2>3. d \in DecisionsFor(u, "active", reason)
    BY <2>1 DEF DecisionsFor
  <2>4. d.target = u.id /\ d.canonical = u.id /\ d.action = "active"
    BY DEF Decision
  <2> QED BY <2>2, <2>3, <2>4
<1>10. Selection(b) = {d.canonical : d \in {e \in b.summary.decisions : e.target = e.canonical /\ e.action = "active"}}
  BY DEF Selection, Canonicals
<1> HIDE DEF b, news, olds
<1>11. ASSUME NEW id \in Selection(b)
       PROVE  id \in TargetIds(A) \cup TargetIds(D) /\ DecisionOf(summary, id).action = "active"
  <2>1. PICK d \in b.summary.decisions : d.target = d.canonical /\ d.action = "active" /\ id = d.canonical
    BY <1>10
  <2>2. PICK u \in news : d \in KeptDecision(summary, u)
    BY <1>1, <2>1
  <2> QED BY <1>6, <1>8, <2>1, <2>2
<1>12. ASSUME NEW id \in TargetIds(A) \cup TargetIds(D), DecisionOf(summary, id).action = "active"
       PROVE  id \in Selection(b)
  <2>1. PICK u \in news : u.id = id
    BY <1>7
  <2>2. PICK d \in KeptDecision(summary, u) : d.target = d.canonical /\ d.action = "active" /\ d.canonical = u.id
    BY <1>9, <1>12, <2>1
  <2>3. d \in b.summary.decisions
    BY <1>1, <2>2
  <2> QED BY <1>10, <2>1, <2>2, <2>3
<1> QED BY <1>11, <1>12 DEF b

(* What the summary calls active is a target of the queue. *)
LEMMA ActiveIsThere ==
  ASSUME NEW a, IsArtifact(a), Preserve(a.active, a.deferred, a.summary) = a,
         NEW id, DecisionOf(a.summary, id).action = "active"
  PROVE  id \in TargetIds(a.active) \cup TargetIds(a.deferred)
<1> DEFINE news == Members(RefreshedList(a.active)) \cup Members(RefreshedList(a.deferred))
           olds == Members(a.active) \cup Members(a.deferred)
<1>1. a.active \in Seq(Target) /\ a.deferred \in Seq(Target) /\ "decisions" \in DOMAIN a.summary
  BY DEF IsArtifact
<1>2. a.summary.decisions = UNION {KeptDecision(a.summary, u) : u \in news}
  BY <1>1, PreserveType
<1>3. news = {Refreshed(u) : u \in olds} /\ \A u \in olds : u \in Target
  <2>1. /\ Members(RefreshedList(a.active)) = {Refreshed(u) : u \in Members(a.active)}
        /\ Members(RefreshedList(a.deferred)) = {Refreshed(u) : u \in Members(a.deferred)}
    BY <1>1, RefreshedListFacts
  <2>2. news = {Refreshed(u) : u \in olds}
    BY <2>1
  <2>3. \A u \in olds : u \in Target
    BY <1>1, MembersAreTyped
  <2> QED BY <2>2, <2>3
<1> HIDE DEF news, olds
<1>4. DecisionOf(a.summary, id) # NoDecision
  BY DEF NoDecision
<1>5. PICK d \in a.summary.decisions : d.target = id /\ d.action = "active"
  BY <1>4 DEF DecisionOf
<1>6. PICK u \in news : d \in KeptDecision(a.summary, u)
  BY <1>2, <1>5
<1>7. d.target = u.id
  BY <1>5, <1>6 DEF KeptDecision, DecisionsFor, Decision
<1>8. PICK v \in olds : u = Refreshed(v)
  BY <1>3, <1>6
<1>9. u.id = v.id
  BY <1>3, <1>8, RefreshedFacts
<1> QED BY <1>5, <1>7, <1>8, <1>9, MembersForm DEF olds

\* A list a tool has loaded and changed still has all its targets.
Keeps(these, changed) ==
  \A u \in Members(these) : \E v \in Members(changed) : v.id = u.id /\ Lineage(v) = Lineage(u)

LEMMA KeptIds ==
  ASSUME NEW these, NEW changed, Keeps(these, changed) PROVE TargetIds(these) \subseteq TargetIds(changed)
  BY MembersForm DEF Keeps

LEMMA WrittenType ==
  ASSUME NEW a, IsArtifact(a), NEW L \in Seq(Target)
  PROVE  /\ IsArtifact(Written(a, L)) /\ Written(a, L).managed = a.managed
         /\ a.managed => /\ Written(a, L).active = RefreshedList(L)
                         /\ Written(a, L).deferred = RefreshedList(a.deferred)
         /\ ~a.managed => Written(a, L).active = L /\ Written(a, L).deferred = << >>
<1>1. a.deferred \in Seq(Target) /\ "decisions" \in DOMAIN a.summary /\ a.managed \in BOOLEAN
  BY DEF IsArtifact
<1>2. CASE a.managed
  <2>1. Written(a, L) = Preserve(L, a.deferred, a.summary)
    BY <1>2 DEF Written
  <2>2. /\ IsArtifact(Written(a, L)) /\ Written(a, L).managed
        /\ Written(a, L).active = RefreshedList(L) /\ Written(a, L).deferred = RefreshedList(a.deferred)
    BY <1>1, <2>1, PreserveType
  <2>3. Written(a, L).managed \in BOOLEAN
    BY <2>2 DEF IsArtifact
  <2> QED BY <1>1, <1>2, <2>2, <2>3
<1>3. CASE ~a.managed
  <2>1. Written(a, L) = [a EXCEPT !.active = L]
    BY <1>3 DEF Written
  <2>2. a = [managed |-> a.managed, active |-> a.active, deferred |-> a.deferred, summary |-> a.summary]
        /\ a.deferred = << >>
    BY <1>3 DEF IsArtifact
  <2>3. Written(a, L) = [managed |-> a.managed, active |-> L, deferred |-> a.deferred, summary |-> a.summary]
    BY <2>1, <2>2
  <2> QED BY <1>1, <1>3, <2>2, <2>3 DEF IsArtifact
<1> QED BY <1>1, <1>2, <1>3

\* Each target of a managed queue is still there, as it was or changed.
LEMMA WrittenRemembers ==
  ASSUME NEW a, IsArtifact(a), NEW L \in Seq(Target), Keeps(a.active, L)
  PROVE  Remembers(a, Written(a, L))
<1> DEFINE b == Written(a, L)
<1>1. /\ IsArtifact(b)
      /\ a.managed => b.active = RefreshedList(L) /\ b.deferred = RefreshedList(a.deferred)
      /\ ~a.managed => b.active = L /\ b.deferred = << >>
      /\ a.deferred \in Seq(Target) /\ a.active \in Seq(Target) /\ a.managed \in BOOLEAN
      /\ ~a.managed => a.deferred = << >>
  BY WrittenType DEF IsArtifact
<1> HIDE DEF b
<1>2. /\ Members(Targets(a)) = Members(a.active) \cup Members(a.deferred)
      /\ Members(Targets(b)) = Members(b.active) \cup Members(b.deferred)
  BY <1>1, ArtifactMembers
<1>3. ASSUME NEW u \in Members(Targets(a))
      PROVE  \E v \in Members(Targets(b)) : v.id = u.id /\ Lineage(v) = Lineage(u)
  <2>1. CASE a.managed
    <3>1. \E w \in Members(L) \cup Members(a.deferred) : w.id = u.id /\ Lineage(w) = Lineage(u)
      BY <1>2 DEF Keeps
    <3>2. PICK w \in Members(L) \cup Members(a.deferred) : w.id = u.id /\ Lineage(w) = Lineage(u)
      BY <3>1
    <3>3. w \in Target
      BY <1>1 DEF Members
    <3>4. Refreshed(w) \in Members(Targets(b))
      BY <1>1, <1>2, <2>1, RefreshedListFacts
    <3>5. Refreshed(w).id = w.id /\ Lineage(Refreshed(w)) = Lineage(w)
      BY <3>3, RefreshedFacts
    <3> QED BY <3>2, <3>4, <3>5
  <2>2. CASE ~a.managed
    <3>1. u \in Members(a.active)
      BY <1>1, <1>2, <2>2, NoMembers
    <3> QED BY <1>1, <1>2, <2>2, <3>1 DEF Keeps
  <2> QED BY <1>1, <2>1, <2>2
<1>4. ASSUME NEW u \in Members(Targets(a)) PROVE Remembered(u, Targets(b))
  <2>1. PICK v \in Members(Targets(b)) : v.id = u.id /\ Lineage(v) = Lineage(u)
    BY <1>3
  <2> QED BY <2>1 DEF Remembered, LineageIds
<1> QED BY <1>4, AllRemembered DEF b

LEMMA WrittenIsStable ==
  ASSUME NEW a, IsArtifact(a), NEW L \in Seq(Target), Writable(a, L), Keeps(a.active, L)
  PROVE  Stable(a, Written(a, L))
<1> SUFFICES ASSUME a.managed PROVE Stable(a, Written(a, L))
  BY DEF Stable
<1> DEFINE S == a.summary
           b == Preserve(L, a.deferred, S)
<1>1. a.active \in Seq(Target) /\ a.deferred \in Seq(Target) /\ "decisions" \in DOMAIN S
  BY DEF IsArtifact
<1>2. Written(a, L) = b
  BY DEF Written
<1>3. /\ Preserve(a.active, a.deferred, S) = a
      /\ LineageIsUnique(a.active \o a.deferred) /\ LineageIsUnique(L \o a.deferred)
  BY DEF Writable, Valid, Preservable
<1>4. Selection(a) = {id \in TargetIds(a.active) \cup TargetIds(a.deferred) : DecisionOf(S, id).action = "active"}
  BY <1>1, <1>3, PreservedSelection
<1>5. Selection(b) = {id \in TargetIds(L) \cup TargetIds(a.deferred) : DecisionOf(S, id).action = "active"}
  BY <1>1, <1>3, PreservedSelection
<1>6. Selection(a) = Selection(b)
  BY <1>3, <1>4, <1>5, ActiveIsThere, KeptIds
<1>7. TargetIds(b.deferred) = TargetIds(a.deferred)
  <2>1. b.deferred = RefreshedList(a.deferred)
    BY <1>1, PreserveType
  <2>2. Members(b.deferred) = {Refreshed(u) : u \in Members(a.deferred)}
    BY <1>1, <2>1, RefreshedListFacts
  <2>3. \A u \in Members(a.deferred) : u \in Target
    BY <1>1, MembersAreTyped
  <2>4. \A u \in Members(a.deferred) : Refreshed(u).id = u.id
    BY <2>3, RefreshedFacts
  <2> HIDE DEF b
  <2>5. TargetIds(b.deferred) = {u.id : u \in Members(b.deferred)}
        /\ TargetIds(a.deferred) = {u.id : u \in Members(a.deferred)}
    BY MembersForm
  <2> QED BY <2>2, <2>4, <2>5
<1> HIDE DEF b
<1> QED BY <1>2, <1>6, <1>7 DEF Stable

\* A longer list: what was added is new.
Extends(these, longer) ==
  /\ Members(these) \subseteq Members(longer)
  /\ \A v \in Members(longer) \ Members(these) : v.lineage = {} /\ v.id \notin TargetIds(these)

LEMMA ExtendedIsKept ==
  ASSUME NEW these, NEW longer, Extends(these, longer) PROVE Keeps(these, longer)
  BY DEF Extends, Keeps

\* Nothing in b is queued that has the id of a target of a, unless it was.
LEMMA NoStatusIsNew ==
  ASSUME NEW a, NEW b,
         \A id \in TargetIds(Targets(a)), v \in Members(Targets(b)) : id \in LineageIds(v) =>
           \E u \in Members(Targets(a)) : Lineage(u) = Lineage(v) /\ u.status = v.status
  PROVE  Progresses(a, b)
<1>1. ASSUME NEW id \in TargetIds(Targets(a)), "queued" \notin StatusOf(a, id)
      PROVE  StatusOf(b, id) # {"queued"}
  <2>1. ASSUME NEW v \in Members(Targets(b)), id \in LineageIds(v)
        PROVE  v.status # "queued"
    <3>1. PICK u \in Members(Targets(a)) : Lineage(u) = Lineage(v) /\ u.status = v.status
      BY <2>1
    <3>2. id \in LineageIds(u)
      BY <2>1, <3>1 DEF LineageIds
    <3> QED BY <1>1, <3>1, <3>2, StatusForm
  <2>2. "queued" \notin StatusOf(b, id)
    BY <2>1, StatusForm
  <2> QED BY <2>2
<1> QED BY <1>1 DEF Progresses

LEMMA WrittenAdvances ==
  ASSUME NEW a, IsArtifact(a), NEW L \in Seq(Target), Writable(a, L), Extends(a.active, L)
  PROVE  Progresses(a, Written(a, L))
<1> DEFINE b == Written(a, L)
<1>1. /\ IsArtifact(b)
      /\ a.managed => b.active = RefreshedList(L) /\ b.deferred = RefreshedList(a.deferred)
      /\ ~a.managed => b.active = L /\ b.deferred = << >>
      /\ a.deferred \in Seq(Target) /\ a.active \in Seq(Target) /\ a.managed \in BOOLEAN
      /\ ~a.managed => a.deferred = << >>
  BY WrittenType DEF IsArtifact
<1>2. a.managed => LineageIsUnique(a.active \o a.deferred)
  BY DEF Writable, Valid, Preservable
<1> HIDE DEF b
<1>3. /\ Members(Targets(a)) = Members(a.active) \cup Members(a.deferred)
      /\ Members(Targets(b)) = Members(b.active) \cup Members(b.deferred)
  BY <1>1, ArtifactMembers
<1>4. CASE a.managed
  <2>1. ASSUME NEW u \in Members(Targets(a)) PROVE u.id \in LineageIds(u) /\ Advanced(u, Targets(b))
    <3>1. u \in Members(a.active \o a.deferred)
      BY DEF Targets
    <3>2. u.id \in LineageIds(u)
      BY <1>2, <1>4, <3>1, OwnEntry
    <3>3. u \in Members(L) \cup Members(a.deferred)
      BY <1>3 DEF Extends
    <3>4. u \in Target
      BY <1>1, <3>3, MembersAreTyped
    <3>5. Refreshed(u) \in Members(Targets(b))
      BY <1>1, <1>3, <1>4, <3>3, RefreshedListFacts
    <3>6. Lineage(Refreshed(u)) = Lineage(u) /\ Refreshed(u).status = u.status
      BY <3>4, RefreshedFacts
    <3>7. LineageIds(Refreshed(u)) = LineageIds(u)
      BY <3>6 DEF LineageIds
    <3> HIDE DEF Targets
    <3> QED BY <3>2, <3>5, <3>6, <3>7 DEF Advanced
  <2> QED BY <2>1, AllAdvanced DEF b
<1>5. CASE ~a.managed
  <2>1. Members(Targets(a)) = Members(a.active) /\ Members(Targets(b)) = Members(L)
    BY <1>1, <1>3, <1>5, NoMembers
  <2>2. TargetIds(Targets(a)) = TargetIds(a.active)
    BY <2>1, MembersForm
  <2>3. ASSUME NEW id \in TargetIds(Targets(a)), NEW v \in Members(Targets(b)), id \in LineageIds(v)
        PROVE  \E u \in Members(Targets(a)) : Lineage(u) = Lineage(v) /\ u.status = v.status
    <3>1. CASE v \in Members(a.active)
      BY <2>1, <3>1
    <3>2. CASE v \notin Members(a.active)
      <4>1. v.lineage = {} /\ v.id # id
        BY <2>1, <2>2, <2>3, <3>2 DEF Extends
      <4>2. LineageIds(v) = {v.id}
        BY <4>1 DEF LineageIds, Lineage
      <4> QED BY <2>3, <4>1, <4>2
    <3> QED BY <3>1, <3>2
  <2> QED BY <2>3, NoStatusIsNew DEF b
<1> QED BY <1>1, <1>4, <1>5

-------------------------------------------------------------------------------
(* A rebalance *)

LEMMA RebalancedFacts ==
  ASSUME NEW a, IsArtifact(a), Applicable(Targets(a)), NEW budgets, NEW policy
  PROVE  LET b == Rebalanced(a, budgets, policy) IN IsArtifact(b) /\ Remembers(a, b) /\ Progresses(a, b)
<1> DEFINE ts == Targets(a)
           b == Rebalanced(a, budgets, policy)
<1>1. ts \in Seq(Target) /\ \A u \in Members(ts) : u \in Target
  BY ArtifactMembers
<1>2. /\ b.active \in Seq(Target) /\ b.deferred \in Seq(Target)
      /\ \A i \in DOMAIN ts : Represented(ts[i], Targets(b))
  BY <1>1, ApplyFacts DEF Rebalanced
<1>3. IsArtifact(b)
  <2>1. b = [managed |-> b.managed, active |-> b.active, deferred |-> b.deferred, summary |-> b.summary]
        /\ b.managed = TRUE /\ "decisions" \in DOMAIN b.summary
    BY DEF Rebalanced, Apply
  <2> HIDE DEF b
  <2> QED BY <1>2, <2>1 DEF IsArtifact
<1> HIDE DEF b
<1>4. \A u \in Members(Targets(b)) : u \in Target
  BY <1>3, ArtifactMembers
<1>5. LineageIsUnique(ts)
  BY DEF Applicable
<1>6. ASSUME NEW u \in Members(ts)
      PROVE  /\ u.id \in LineageIds(u)
             /\ \E v \in Members(Targets(b)) : LineageIds(u) \subseteq LineageIds(v) /\ (Competing(u) \/ v.status = u.status)
  <2>1. u.id \in LineageIds(u)
    BY <1>5, OwnEntry
  <2>2. Represented(u, Targets(b))
    BY <1>2 DEF Members
  <2>3. PICK v \in Members(Targets(b)) : Lineage(u) \subseteq v.lineage /\ (Competing(u) \/ v.status = u.status)
    BY <2>2 DEF Represented
  <2>4. Lineage(u) # {}
    BY <1>1, LineageOf
  <2>5. Lineage(v) = v.lineage
    BY <2>3, <2>4 DEF Lineage
  <2>6. LineageIds(u) \subseteq LineageIds(v)
    BY <2>3, <2>5, SmallerLineage
  <2> QED BY <2>1, <2>3, <2>6
<1>7. Remembers(a, b)
  <2>1. ASSUME NEW u \in Members(ts) PROVE Remembered(u, Targets(b))
    <3>1. PICK v \in Members(Targets(b)) : LineageIds(u) \subseteq LineageIds(v)
      BY <1>6
    <3> QED BY <1>6, <3>1 DEF Remembered
  <2> QED BY <2>1, AllRemembered
<1>8. Progresses(a, b)
  <2>1. ASSUME NEW u \in Members(ts) PROVE u.id \in LineageIds(u) /\ Advanced(u, Targets(b))
    <3>1. PICK v \in Members(Targets(b)) : LineageIds(u) \subseteq LineageIds(v) /\ (Competing(u) \/ v.status = u.status)
      BY <1>6
    <3>2. u.status = "queued" \/ v.status # "queued"
      BY <3>1 DEF Competing
    <3> QED BY <1>6, <3>1, <3>2 DEF Advanced
  <2> QED BY <2>1, AllAdvanced
<1> QED BY <1>3, <1>7, <1>8 DEF b

-------------------------------------------------------------------------------
(* A normalization *)

\* The targets of two queues are the same but for shapes and fingerprints.
SameTargets(a, b) ==
  /\ \A u \in Members(Targets(a)) : \E v \in Members(Targets(b)) :
       v.id = u.id /\ v.status = u.status /\ Lineage(v) = Lineage(u)
  /\ \A v \in Members(Targets(b)) : \E u \in Members(Targets(a)) :
       v.id = u.id /\ v.status = u.status /\ Lineage(v) = Lineage(u)

LEMMA SameView ==
  ASSUME NEW a, NEW b, SameTargets(a, b)
  PROVE  /\ IdsWithLineage(Targets(a)) = IdsWithLineage(Targets(b))
         /\ TargetIds(Targets(a)) = TargetIds(Targets(b))
         /\ \A id : StatusOf(a, id) = StatusOf(b, id)
<1>1. TargetIds(Targets(a)) = TargetIds(Targets(b))
  <2>1. /\ TargetIds(Targets(a)) = {u.id : u \in Members(Targets(a))}
        /\ TargetIds(Targets(b)) = {u.id : u \in Members(Targets(b))}
    BY MembersForm
  <2>2. /\ \A u \in Members(Targets(a)) : \E v \in Members(Targets(b)) : v.id = u.id
        /\ \A v \in Members(Targets(b)) : \E u \in Members(Targets(a)) : v.id = u.id
    BY DEF SameTargets
  <2> QED BY <2>1, <2>2
<1>2. UNION {LineageIds(u) : u \in Members(Targets(a))} = UNION {LineageIds(u) : u \in Members(Targets(b))}
  BY DEF SameTargets, LineageIds
<1>3. IdsWithLineage(Targets(a)) = IdsWithLineage(Targets(b))
  BY <1>1, <1>2, MembersForm
<1>4. ASSUME NEW id PROVE StatusOf(a, id) = StatusOf(b, id)
  <2>1. ASSUME NEW u, NEW v, Lineage(u) = Lineage(v) PROVE id \in LineageIds(u) <=> id \in LineageIds(v)
    BY <2>1 DEF LineageIds
  <2>2. \A status : status \in StatusOf(a, id) <=> status \in StatusOf(b, id)
    BY <2>1, StatusForm DEF SameTargets
  <2>3. StatusOf(a, id) \subseteq StatusOf(b, id) /\ StatusOf(b, id) \subseteq StatusOf(a, id)
    BY <2>2
  <2> QED BY <2>3
<1> QED BY <1>1, <1>3, <1>4

LEMMA SameIsEnough ==
  ASSUME NEW a, NEW b, SameTargets(a, b) PROVE Remembers(a, b) /\ Progresses(a, b)
<1>1. IdsWithLineage(Targets(a)) = IdsWithLineage(Targets(b)) /\ \A id : StatusOf(a, id) = StatusOf(b, id)
  BY SameView
<1> QED BY <1>1 DEF Remembers, Progresses

LEMMA SameThen ==
  ASSUME NEW a, NEW b, NEW c, SameTargets(a, b), Remembers(b, c), Progresses(b, c)
  PROVE  Remembers(a, c) /\ Progresses(a, c)
<1>1. /\ IdsWithLineage(Targets(a)) = IdsWithLineage(Targets(b))
      /\ TargetIds(Targets(a)) = TargetIds(Targets(b))
      /\ \A id : StatusOf(a, id) = StatusOf(b, id)
  BY SameView
<1> QED BY <1>1 DEF Remembers, Progresses

LEMMA EmptyNormalized == Normalized(<< >>) = << >>
<1>1. << >> \in Seq(Target) /\ DOMAIN << >> = {}
  OBVIOUS
<1>2. Normalized(<< >>) \in Seq(Target) /\ DOMAIN Normalized(<< >>) = {}
  BY <1>1, NormalizedFacts
<1> QED BY <1>2

LEMMA NormalizedIsSame ==
  ASSUME IsArtifact(file)
  PROVE  /\ IsArtifact(NormalizedArtifact) /\ NormalizedArtifact.managed = file.managed
         /\ SameTargets(file, NormalizedArtifact)
<1> DEFINE n == NormalizedArtifact
<1>1. /\ file = [managed |-> file.managed, active |-> file.active, deferred |-> file.deferred, summary |-> file.summary]
      /\ file.active \in Seq(Target) /\ file.deferred \in Seq(Target) /\ file.managed \in BOOLEAN
      /\ ~file.managed => file.deferred = << >>
      /\ "decisions" \in DOMAIN file.summary
  BY DEF IsArtifact
<1> DEFINE active == Normalized(file.active)
           deferred == Normalized(file.deferred)
<1>2. n = [managed |-> file.managed, active |-> active, deferred |-> deferred, summary |-> file.summary]
  <2>1. n = [file EXCEPT !.active = active, !.deferred = deferred]
    BY DEF NormalizedArtifact
  <2> HIDE DEF n, active, deferred
  <2> QED BY <1>1, <2>1
<1> HIDE DEF n
<1>3. /\ n = [managed |-> n.managed, active |-> n.active, deferred |-> n.deferred, summary |-> n.summary]
      /\ n.managed = file.managed /\ n.active = Normalized(file.active) /\ n.deferred = Normalized(file.deferred)
      /\ n.summary = file.summary
  BY <1>2
<1>4. n.active \in Seq(Target) /\ n.deferred \in Seq(Target)
  BY <1>1, <1>3, NormalizedFacts
<1>5. IsArtifact(n)
  BY <1>1, <1>3, <1>4, EmptyNormalized DEF IsArtifact
<1>6. /\ Members(Targets(file)) = Members(file.active) \cup Members(file.deferred)
      /\ Members(Targets(n)) = Members(n.active) \cup Members(n.deferred)
  BY <1>5, ArtifactMembers
<1>7. ASSUME NEW ts \in Seq(Target)
      PROVE  /\ \A u \in Members(ts) : \E v \in Members(Normalized(ts)) :
                  v.id = u.id /\ v.status = u.status /\ Lineage(v) = Lineage(u)
             /\ \A v \in Members(Normalized(ts)) : \E u \in Members(ts) :
                  v.id = u.id /\ v.status = u.status /\ Lineage(v) = Lineage(u)
  <2>1. /\ DOMAIN Normalized(ts) = DOMAIN ts
        /\ \A i \in DOMAIN ts : /\ Normalized(ts)[i].id = ts[i].id
                                /\ Normalized(ts)[i].status = ts[i].status
                                /\ Lineage(Normalized(ts)[i]) = Lineage(ts[i])
    BY <1>7, NormalizedFacts
  <2> QED BY <2>1 DEF Members
<1>8. /\ \A u \in Members(file.active) : \E v \in Members(n.active) :
           v.id = u.id /\ v.status = u.status /\ Lineage(v) = Lineage(u)
      /\ \A v \in Members(n.active) : \E u \in Members(file.active) :
           v.id = u.id /\ v.status = u.status /\ Lineage(v) = Lineage(u)
  BY <1>1, <1>3, <1>7
<1>9. /\ \A u \in Members(file.deferred) : \E v \in Members(n.deferred) :
           v.id = u.id /\ v.status = u.status /\ Lineage(v) = Lineage(u)
      /\ \A v \in Members(n.deferred) : \E u \in Members(file.deferred) :
           v.id = u.id /\ v.status = u.status /\ Lineage(v) = Lineage(u)
  BY <1>1, <1>3, <1>7
<1>10. SameTargets(file, n)
  BY <1>6, <1>8, <1>9, Zenon DEF SameTargets
<1> QED BY <1>3, <1>5, <1>10 DEF n

LEMMA PreservedIsSame ==
  ASSUME NEW a, IsArtifact(a)
  PROVE  LET b == Preserve(a.active, a.deferred, a.summary) IN IsArtifact(b) /\ SameTargets(a, b)
<1> DEFINE b == Preserve(a.active, a.deferred, a.summary)
<1>1. a.active \in Seq(Target) /\ a.deferred \in Seq(Target) /\ "decisions" \in DOMAIN a.summary
  BY DEF IsArtifact
<1>2. IsArtifact(b) /\ b.active = RefreshedList(a.active) /\ b.deferred = RefreshedList(a.deferred)
  BY <1>1, PreserveType
<1> HIDE DEF b
<1>3. /\ Members(Targets(a)) = Members(a.active) \cup Members(a.deferred)
      /\ Members(Targets(b)) = Members(b.active) \cup Members(b.deferred)
      /\ \A u \in Members(Targets(a)) : u \in Target
  BY <1>2, ArtifactMembers
<1>4. /\ Members(b.active) = {Refreshed(u) : u \in Members(a.active)}
      /\ Members(b.deferred) = {Refreshed(u) : u \in Members(a.deferred)}
  BY <1>1, <1>2, RefreshedListFacts
<1>5. Members(Targets(b)) = {Refreshed(u) : u \in Members(Targets(a))}
  BY <1>3, <1>4
<1>6. \A u \in Members(Targets(a)) :
        /\ Refreshed(u).id = u.id /\ Refreshed(u).status = u.status
        /\ Lineage(Refreshed(u)) = Lineage(u)
  BY <1>3, RefreshedFacts
<1> QED BY <1>2, <1>5, <1>6 DEF SameTargets, b

LEMMA HistoricalFacts ==
  ASSUME NEW ts \in Seq(Target), NEW summary
  PROVE  /\ Historical(ts, summary) \in Seq(Target) /\ DOMAIN Historical(ts, summary) = DOMAIN ts
         /\ \A i \in DOMAIN ts : /\ Historical(ts, summary)[i].id = ts[i].id
                                 /\ Lineage(Historical(ts, summary)[i]) = Lineage(ts[i])
<1> DEFINE m == Historical(ts, summary)
<1>1. Len(ts) \in Nat /\ DOMAIN ts = 1 .. Len(ts) /\ \A i \in DOMAIN ts : ts[i] \in Target
  OBVIOUS
<1>2. DOMAIN m = DOMAIN ts
  BY DEF Historical
<1>3. ASSUME NEW i \in DOMAIN ts
      PROVE  m[i] \in Target /\ m[i].id = ts[i].id /\ Lineage(m[i]) = Lineage(ts[i])
  <2>1. PICK status \in Statuses : m[i] = [ts[i] EXCEPT !.status = status]
    <3>1. ts[i].status \in Statuses
      BY <1>1 DEF Target
    <3> DEFINE d == DecisionOf(summary, ts[i].id)
               status == IF d.action \in {"active", "deferred"} THEN "queued"
                         ELSE IF d.action = "retained" /\ d.reason = "added_after_selection" THEN "in_progress"
                         ELSE ts[i].status
    <3>2. m[i] = [ts[i] EXCEPT !.status = status]
      BY DEF Historical
    <3>3. status \in Statuses
      BY <3>1 DEF Statuses
    <3> HIDE DEF status
    <3> QED BY <3>2, <3>3
  <2>2. ts[i] \in Target
    BY <1>1
  <2> HIDE DEF m
  <2>3. /\ m[i] \in Target /\ m[i].id = ts[i].id /\ m[i].source = ts[i].source
        /\ m[i].lineage = ts[i].lineage
    BY <2>1, <2>2 DEF Target
  <2> QED BY <2>3 DEF Lineage, Source
<1>4. m \in Seq(Target)
  <2>1. m \in [1 .. Len(ts) -> Target]
    BY <1>1, <1>2, <1>3 DEF Historical
  <2> QED BY <1>1, <2>1
<1> QED BY <1>2, <1>3, <1>4

LEMMA ProgressFacts ==
  ASSUME NEW ts \in Seq(Target), NEW t \in Target
  PROVE  /\ Progress(ts, t) \in Statuses
         /\ \A u \in Members(ts) : u.id \in LineageIds(t) /\ u.status # "queued" => Progress(ts, t) # "queued"
<1> DEFINE among == {ts[i].status : i \in {j \in DOMAIN ts : ts[j].id \in LineageIds(t)}} \ {"queued"}
           first(k) == /\ StatusPrecedence[k] \in among
                       /\ \A j \in 1..(k - 1) : StatusPrecedence[j] \notin among
<1>1. \A i \in DOMAIN ts : ts[i] \in Target
  OBVIOUS
<1>2. among \in SUBSET (Statuses \ {"queued"})
  BY <1>1 DEF Target
<1>3. \A u \in Members(ts) : u.id \in LineageIds(t) /\ u.status # "queued" => u.status \in among
  BY DEF Members
<1>4. Progress(ts, t) = IF among = {} THEN t.status ELSE StatusPrecedence[CHOOSE k \in DOMAIN StatusPrecedence : first(k)]
  BY DEF Progress
<1>5. t.status \in Statuses
  BY DEF Target
<1> HIDE DEF among
<1>6. CASE among = {}
  BY <1>3, <1>4, <1>5, <1>6
<1>7. CASE among # {}
  <2>1. DOMAIN StatusPrecedence = 1 .. 4
    BY DEF StatusPrecedence
  <2>2. \E k \in 1 .. 4 : StatusPrecedence[k] \in among
    <3>1. PICK s \in among : s \in Statuses \ {"queued"}
      BY <1>2, <1>7
    <3>2. s \in {"needs_human_review", "in_progress", "reviewed", "skipped"}
      BY <3>1 DEF Statuses
    <3>3. /\ StatusPrecedence[1] = "needs_human_review" /\ StatusPrecedence[2] = "in_progress"
          /\ StatusPrecedence[3] = "reviewed" /\ StatusPrecedence[4] = "skipped"
      BY DEF StatusPrecedence
    <3>4. \E k \in 1 .. 4 : StatusPrecedence[k] = s
      BY <3>2, <3>3
    <3> QED BY <3>4
  <2>3. \E k \in DOMAIN StatusPrecedence : first(k)
    <3> DEFINE places == {k \in 1 .. 4 : StatusPrecedence[k] \in among}
    <3>1. places \in SUBSET Nat /\ places # {}
      BY <2>2
    <3>2. PICK k \in places : \A n \in places : k <= n
      BY <3>1, LeastNatural
    <3>3. \A j \in 1 .. (k - 1) : j \notin places /\ j \in 1 .. 4
      BY <3>2
    <3> QED BY <2>1, <3>2, <3>3
  <2>4. PICK k \in DOMAIN StatusPrecedence : first(k) /\ Progress(ts, t) = StatusPrecedence[k]
    <3> DEFINE c == CHOOSE k \in DOMAIN StatusPrecedence : first(k)
    <3>1. c \in DOMAIN StatusPrecedence /\ first(c)
      BY <2>3
    <3>2. Progress(ts, t) = StatusPrecedence[c]
      BY <1>4, <1>7
    <3> HIDE DEF c, first
    <3> QED BY <3>1, <3>2
  <2>5. Progress(ts, t) \in among
    BY <2>4
  <2> QED BY <1>2, <2>5
<1> QED BY <1>6, <1>7

LEMMA WithProgressFacts ==
  ASSUME NEW ts \in Seq(Target), NEW these \in Seq(Target)
  PROVE  /\ WithProgress(ts, these) \in Seq(Target)
         /\ \A w \in Members(these) : \E v \in Members(WithProgress(ts, these)) :
              Lineage(v) = Lineage(w) /\ v.status = Progress(ts, w)
<1> DEFINE m == WithProgress(ts, these)
<1>1. Len(these) \in Nat /\ DOMAIN these = 1 .. Len(these) /\ \A i \in DOMAIN these : these[i] \in Target
  OBVIOUS
<1>2. DOMAIN m = DOMAIN these
  BY DEF WithProgress
<1>3. ASSUME NEW i \in DOMAIN these
      PROVE  m[i] \in Target /\ Lineage(m[i]) = Lineage(these[i]) /\ m[i].status = Progress(ts, these[i])
  <2> DEFINE status == Progress(ts, these[i])
  <2>1. m[i] = [these[i] EXCEPT !.status = status]
    BY DEF WithProgress
  <2>2. these[i] \in Target
    BY <1>1
  <2>3. status \in Statuses
    BY <2>2, ProgressFacts
  <2> HIDE DEF m, status
  <2>4. /\ m[i] \in Target /\ m[i].id = these[i].id /\ m[i].source = these[i].source
        /\ m[i].lineage = these[i].lineage /\ m[i].status = status
    BY <2>1, <2>2, <2>3 DEF Target
  <2> QED BY <2>4 DEF Lineage, Source, status
<1>4. m \in Seq(Target)
  <2>1. m \in [1 .. Len(these) -> Target]
    BY <1>1, <1>2, <1>3 DEF WithProgress
  <2> QED BY <1>1, <2>1
<1>5. ASSUME NEW w \in Members(these)
      PROVE  \E v \in Members(m) : Lineage(v) = Lineage(w) /\ v.status = Progress(ts, w)
  <2>1. PICK i \in DOMAIN these : w = these[i]
    BY DEF Members
  <2>2. m[i] \in Members(m)
    BY <1>2 DEF Members
  <2> QED BY <1>3, <2>1, <2>2
<1> QED BY <1>4, <1>5

(* Nor does the new selection after a normalization, and it puts progress back.    *)
LEMMA ReselectedFacts ==
  ASSUME NEW a, IsArtifact(a), Applicable(Historical(Targets(a), a.summary))
  PROVE  LET b == Reselect(a) IN IsArtifact(b) /\ Remembers(a, b) /\ Progresses(a, b)
<1> DEFINE ts == Targets(a)
           history == Historical(ts, a.summary)
           again == Apply(history, a.summary.budgets, a.summary.policy)
           b == Reselect(a)
<1>1. ts \in Seq(Target) /\ \A u \in Members(ts) : u \in Target
  BY ArtifactMembers
<1>2. /\ history \in Seq(Target) /\ DOMAIN history = DOMAIN ts
      /\ \A i \in DOMAIN ts : history[i].id = ts[i].id /\ Lineage(history[i]) = Lineage(ts[i])
  BY <1>1, HistoricalFacts
<1>3. /\ again.active \in Seq(Target) /\ again.deferred \in Seq(Target)
      /\ \A i \in DOMAIN ts : Represented(history[i], Targets(again))
  <2> HIDE DEF history
  <2>1. /\ again.active \in Seq(Target) /\ again.deferred \in Seq(Target)
        /\ \A i \in DOMAIN history : Represented(history[i], Targets(again))
    BY <1>2, ApplyFacts DEF history
  <2> QED BY <1>2, <2>1
<1>4. /\ again.managed = TRUE
      /\ again = [managed |-> again.managed, active |-> again.active, deferred |-> again.deferred, summary |-> again.summary]
      /\ "decisions" \in DOMAIN again.summary
  BY DEF Apply
<1>5. LineageIsUnique(history)
  BY DEF Applicable
<1> DEFINE active == WithProgress(ts, again.active)
           deferred == WithProgress(ts, again.deferred)
<1>6. b = [managed |-> TRUE, active |-> active, deferred |-> deferred, summary |-> again.summary]
  <2>1. b = [again EXCEPT !.active = active, !.deferred = deferred]
    BY DEF Reselect
  <2> HIDE DEF b, again, active, deferred
  <2> QED BY <1>4, <2>1
<1>7. /\ active \in Seq(Target) /\ deferred \in Seq(Target)
      /\ \A w \in Members(again.active) : \E v \in Members(active) :
           Lineage(v) = Lineage(w) /\ v.status = Progress(ts, w)
      /\ \A w \in Members(again.deferred) : \E v \in Members(deferred) :
           Lineage(v) = Lineage(w) /\ v.status = Progress(ts, w)
  BY <1>1, <1>3, WithProgressFacts
<1> HIDE DEF history, again, active, deferred, b
<1>8. IsArtifact(b)
  BY <1>4, <1>6, <1>7 DEF IsArtifact
<1>9. b.active = active /\ b.deferred = deferred
  BY <1>6
<1>10. /\ Members(Targets(b)) = Members(active) \cup Members(deferred)
       /\ Members(Targets(again)) = Members(again.active) \cup Members(again.deferred)
  BY <1>3, <1>7, <1>9, JoinedMembers DEF Targets
<1>11. ASSUME NEW w \in Members(Targets(again)) PROVE w \in Target
  BY <1>3, <1>10, MembersAreTyped
<1>12. ASSUME NEW u \in Members(ts)
       PROVE  /\ u.id \in LineageIds(u)
              /\ \E v \in Members(Targets(b)) : LineageIds(u) \subseteq LineageIds(v) /\ (u.status = "queued" \/ v.status # "queued")
  <2>1. PICK i \in DOMAIN ts : u = ts[i]
    BY DEF Members
  <2>2. u \in Target /\ history[i].id = u.id /\ Lineage(history[i]) = Lineage(u)
    BY <1>1, <1>2, <2>1
  <2>3. u.id \in LineageIds(u)
    <3>1. history[i] \in Members(history)
      BY <1>2 DEF Members
    <3>2. history[i].id \in LineageIds(history[i])
      BY <1>5, <3>1, OwnEntry
    <3>3. history[i].id = u.id /\ LineageIds(history[i]) = LineageIds(u)
      BY <2>2 DEF LineageIds
    <3> QED BY <3>2, <3>3
  <2>4. PICK w \in Members(Targets(again)) : Lineage(u) \subseteq w.lineage
    <3>1. Represented(history[i], Targets(again))
      BY <1>3
    <3> QED BY <2>2, <3>1 DEF Represented
  <2>5. Lineage(w) = w.lineage
    BY <2>2, <2>4, LineageOf DEF Lineage
  <2>6. PICK v \in Members(Targets(b)) : Lineage(v) = Lineage(w) /\ v.status = Progress(ts, w)
    BY <1>7, <1>10
  <2>7. LineageIds(u) \subseteq LineageIds(w) /\ LineageIds(v) = LineageIds(w)
    BY <2>4, <2>5, <2>6 DEF LineageIds
  <2>8. u.status # "queued" => Progress(ts, w) # "queued"
    BY <1>1, <1>11, <2>3, <2>7, ProgressFacts
  <2> QED BY <2>3, <2>6, <2>7, <2>8
<1>13. Remembers(a, b)
  BY <1>12, AllRemembered DEF Remembered
<1>14. Progresses(a, b)
  <2>1. ASSUME NEW u \in Members(ts) PROVE u.id \in LineageIds(u) /\ Advanced(u, Targets(b))
    <3>1. PICK v \in Members(Targets(b)) : LineageIds(u) \subseteq LineageIds(v) /\ (u.status = "queued" \/ v.status # "queued")
      BY <1>12
    <3> QED BY <1>12, <3>1 DEF Advanced
  <2> QED BY <2>1, AllAdvanced
<1> QED BY <1>8, <1>13, <1>14 DEF b

LEMMA NormalizationFacts ==
  ASSUME IsArtifact(file), RefreshKeeps(NormalizedArtifact) \/ RefreshReselects(NormalizedArtifact)
  PROVE  LET b == Refresh(NormalizedArtifact)
         IN  IsArtifact(b) /\ Valid(b) /\ Remembers(file, b) /\ Progresses(file, b)
<1> DEFINE n == NormalizedArtifact
           b == Refresh(n)
<1>1. IsArtifact(n) /\ SameTargets(file, n)
  BY NormalizedIsSame
<1> HIDE DEF n
<1>2. CASE RefreshKeeps(n)
  <2>1. b = Preserve(n.active, n.deferred, n.summary) /\ Valid(b)
    BY <1>2 DEF Refresh, RefreshKeeps
  <2>2. IsArtifact(b) /\ SameTargets(n, b)
    BY <1>1, <2>1, PreservedIsSame
  <2> QED BY <1>1, <2>1, <2>2, SameIsEnough, SameThen DEF n
<1>3. CASE ~RefreshKeeps(n) /\ RefreshReselects(n)
  <2>1. b = Reselect(n) /\ Valid(b) /\ Applicable(Historical(Targets(n), n.summary))
    BY <1>3 DEF Refresh, RefreshReselects
  <2>2. IsArtifact(b) /\ Remembers(n, b) /\ Progresses(n, b)
    BY <1>1, <2>1, ReselectedFacts
  <2> QED BY <1>1, <2>1, <2>2, SameThen DEF n
<1> QED BY <1>2, <1>3 DEF n

-------------------------------------------------------------------------------
(* What the producers add *)

LEMMA AppendedFacts ==
  ASSUME NEW ts \in Seq(Target), NEW more \in Seq(Target),
         \A v \in Members(more) : v.lineage = {} /\ v.id \notin TargetIds(ts)
  PROVE  ts \o more \in Seq(Target) /\ Extends(ts, ts \o more)
<1>1. ts \o more \in Seq(Target) /\ Members(ts \o more) = Members(ts) \cup Members(more)
  BY JoinedMembers
<1> QED BY <1>1 DEF Extends

LEMMA OneAppended ==
  ASSUME NEW ts \in Seq(Target), NEW p \in Target, p.lineage = {}, p.id \notin TargetIds(ts)
  PROVE  Append(ts, p) \in Seq(Target) /\ Extends(ts, Append(ts, p))
<1>1. << p >> \in Seq(Target) /\ Append(ts, p) = ts \o << p >> /\ DOMAIN << p >> = {1} /\ << p >>[1] = p
  OBVIOUS
<1>2. \A v \in Members(<< p >>) : v = p
  BY <1>1 DEF Members
<1> QED BY <1>1, <1>2, AppendedFacts

LEMMA GapfillFacts ==
  ASSUME NEW ts \in Seq(Target), GapfillIds \subseteq Nat, IsFiniteSet(GapfillIds),
         Cardinality(InNeed(ts)) \in 1 .. Cardinality(GapfillIds \ TargetIds(ts))
  PROVE  WithGapfill(ts) \in Seq(Target) /\ Extends(ts, WithGapfill(ts))
<1> DEFINE places == InNeed(ts)
           R == {pair \in places \X places : ts[pair[1]].id < ts[pair[2]].id}
           needy == InOrder(places, R)
           ids == GapfillIds \ TargetIds(ts)
           free == InOrder(ids, Increasing(ids))
           n == Cardinality(places)
           more == [k \in DOMAIN needy |-> GapfillTarget(ts[needy[k]], free[k])]
<1>1. /\ Len(ts) \in Nat /\ DOMAIN ts = 1 .. Len(ts) /\ \A i \in DOMAIN ts : ts[i] \in Target
  OBVIOUS
<1>2. IsFiniteSet(places) /\ places \subseteq DOMAIN ts
  <2>1. places \subseteq DOMAIN ts
    BY DEF InNeed
  <2>2. IsFiniteSet(1 .. Len(ts))
    BY <1>1, FS_Interval
  <2> HIDE DEF places
  <2> QED BY <1>1, <2>1, <2>2, FS_Subset
<1>3. IsFiniteSet(ids) /\ ids \in SUBSET Nat
  BY FS_Subset
<1>4. n \in Nat /\ Cardinality(ids) \in Nat /\ n <= Cardinality(ids)
  BY <1>2, <1>3, FS_CardinalityType
<1>5. \A i, j \in places : i # j => ts[i].id # ts[j].id
  <2>1. ASSUME NEW i \in places, NEW j \in places, j < i PROVE ts[j].id # ts[i].id
    <3>1. j \in 1 .. (i - 1) /\ NeedsGapfill(ts, j)
      BY <1>1, <1>2, <2>1 DEF InNeed
    <3> QED BY <3>1 DEF InNeed
  <2>2. \A i, j \in places : i \in Nat /\ j \in Nat
    BY <1>1, <1>2
  <2>3. ASSUME NEW i \in places, NEW j \in places, i # j PROVE i < j \/ j < i
    BY <2>2, <2>3
  <2> HIDE DEF places
  <2> QED BY <2>1, <2>3
<1>6. \A i \in places : ts[i].id \in Nat
  BY <1>1, <1>2 DEF Target
<1>7. StrictOrder(places, R)
  <2>1. \A x, y : << x, y >> \in R <=> x \in places /\ y \in places /\ ts[x].id < ts[y].id
    OBVIOUS
  <2> HIDE DEF places, R
  <2>2. \A x, y \in places : << x, y >> \in R => << y, x >> \notin R
    BY <1>6, <2>1
  <2>3. \A x, y \in places : x # y => << x, y >> \in R \/ << y, x >> \in R
    BY <1>5, <1>6, <2>1
  <2>4. ASSUME NEW x \in places, NEW y \in places, NEW z \in places,
               << x, y >> \in R, << y, z >> \in R
        PROVE  << x, z >> \in R
    <3>1. ts[x].id < ts[y].id /\ ts[y].id < ts[z].id
      BY <2>1, <2>4
    <3>2. ts[x].id \in Nat /\ ts[y].id \in Nat /\ ts[z].id \in Nat
      BY <1>6
    <3>3. ts[x].id < ts[z].id
      BY <3>1, <3>2
    <3> QED BY <2>1, <3>3
  <2> QED BY <2>2, <2>3, <2>4 DEF StrictOrder
<1>8. StrictOrder(ids, Increasing(ids))
  BY <1>3, IncreasingIsStrict
<1>9. needy \in [1 .. n -> places] /\ free \in [1 .. Cardinality(ids) -> ids]
  <2> HIDE DEF places, R, ids
  <2> QED BY <1>2, <1>3, <1>7, <1>8, InOrderFacts
<1> HIDE DEF needy, free, places, ids, R, n
<1>10. ASSUME NEW k \in 1 .. n
       PROVE  /\ needy[k] \in DOMAIN ts /\ free[k] \in Nat /\ free[k] \notin TargetIds(ts)
              /\ more[k] = GapfillTarget(ts[needy[k]], free[k])
  <2>1. k \in 1 .. Cardinality(ids) /\ k \in DOMAIN needy
    BY <1>4, <1>9
  <2>2. needy[k] \in places /\ free[k] \in ids
    BY <1>9, <2>1
  <2> QED BY <1>2, <1>3, <2>1, <2>2 DEF ids
<1>11. ASSUME NEW t \in Target, NEW id \in Nat
       PROVE  GapfillTarget(t, id) \in Target /\ GapfillTarget(t, id).lineage = {} /\ GapfillTarget(t, id).id = id
  BY DEF GapfillTarget, Target, Fingerprints, Statuses, TargetSources
<1>12. DOMAIN more = 1 .. n
  BY <1>9
<1> HIDE DEF more
<1>13. \A k \in 1 .. n : more[k] \in Target /\ more[k].lineage = {} /\ more[k].id \notin TargetIds(ts)
  BY <1>1, <1>10, <1>11
<1>14. more \in Seq(Target)
  <2>1. more \in [1 .. n -> Target]
    BY <1>12, <1>13 DEF more
  <2> QED BY <1>4, <2>1 DEF n
<1>15. \A v \in Members(more) : v.lineage = {} /\ v.id \notin TargetIds(ts)
  BY <1>12, <1>13 DEF Members
<1>16. WithGapfill(ts) = ts \o more
  BY DEF WithGapfill, more, needy, free, ids, R, places
<1> QED BY <1>14, <1>15, <1>16, AppendedFacts

LEMMA BoundType == ASSUME NEW ts \in Seq(Target) PROVE Bound(ts) \in Seq(Target)
<1>1. Len(ts) \in Nat /\ DOMAIN ts = 1 .. Len(ts) /\ \A i \in DOMAIN ts : ts[i] \in Target
  OBVIOUS
<1>2. ASSUME NEW i \in DOMAIN ts PROVE Bound(ts)[i] \in Target
  <2>1. Bound(ts)[i] = [ts[i] EXCEPT !.source = "model_generated", !.fp = NoFp, !.lineage = {}]
    BY DEF Bound
  <2>2. ts[i] \in Target
    BY <1>1
  <2>3. "model_generated" \in TargetSources /\ NoFp \in Fingerprints
    BY DEF TargetSources, Fingerprints
  <2> QED BY <2>1, <2>2, <2>3 DEF Target
<1>3. Bound(ts) \in [1 .. Len(ts) -> Target]
  BY <1>1, <1>2 DEF Bound
<1> QED BY <1>1, <1>3

-------------------------------------------------------------------------------
(* What is stored and about to be stored is valid *)

QueueSound == QueueTypeOK /\ Valid(file) /\ \A t \in Tools : Valid(next[t])

LEMMA UnmanagedIsValid == ASSUME NEW ts PROVE Valid(Unmanaged(ts))
<1>1. ~Unmanaged(ts).managed
  BY DEF Unmanaged
<1> QED BY <1>1 DEF Valid

LEMMA InitIsSound == QueueInit => QueueSound
<1> SUFFICES ASSUME QueueInit PROVE QueueSound
  OBVIOUS
<1>1. PICK ts \in ModelLists : file = Unmanaged(ts)
  BY DEF QueueInit
<1>2. ts \in Seq(Target)
  BY <1>1, SettingIsFine DEF QueueInit
<1>3. IsArtifact(file) /\ Valid(file)
  BY <1>1, <1>2, UnmanagedIsArtifact, UnmanagedIsValid
<1>4. IsArtifact(Nothing) /\ Valid(Nothing)
  BY NothingIsArtifact, UnmanagedIsValid DEF Nothing
<1>5. \A t \in Tools : next[t] = Nothing
  BY DEF QueueInit
<1>6. loaded \in [Tools -> Seq(Target)]
  BY DEF QueueInit
<1>7. DOMAIN pc = Tools /\ DOMAIN op = Tools /\ DOMAIN next = Tools /\ setting \in DOMAIN Settings
  BY DEF QueueInit
<1> QED BY <1>3, <1>4, <1>5, <1>6, <1>7 DEF QueueSound, QueueTypeOK

LEMMA LoadsIsSound ==
  ASSUME QueueSound, NEW t \in Tools, NEW targets \in Seq(Target), Loads(t, targets),
         DOMAIN op' = Tools, UNCHANGED setting
  PROVE  QueueSound'
<1>1. /\ loaded' \in [Tools -> Seq(Target)] /\ DOMAIN pc' = Tools
      /\ next' = next /\ file' = file
  BY DEF Loads, Goto, QueueSound, QueueTypeOK
<1> QED BY <1>1 DEF QueueSound, QueueTypeOK

LEMMA PreparesIsSound ==
  ASSUME QueueSound, NEW t \in Tools, NEW artifact, IsArtifact(artifact), Valid(artifact), Prepares(t, artifact),
         DOMAIN op' = Tools, UNCHANGED setting
  PROVE  QueueSound'
<1>1. << >> \in Seq(Target)
  OBVIOUS
<1>2. /\ loaded' \in [Tools -> Seq(Target)] /\ DOMAIN pc' = Tools /\ DOMAIN next' = Tools
      /\ file' = file
      /\ \A s \in Tools : next'[s] = IF s = t THEN artifact ELSE next[s]
  BY <1>1 DEF Prepares, Goto, QueueSound, QueueTypeOK
<1>3. \A s \in Tools : IsArtifact(next'[s]) /\ Valid(next'[s])
  BY <1>2 DEF QueueSound, QueueTypeOK
<1> QED BY <1>2, <1>3 DEF QueueSound, QueueTypeOK

LEMMA QuitsIsSound ==
  ASSUME QueueSound, NEW t \in Tools, Quits(t), UNCHANGED setting
  PROVE  QueueSound'
<1>1. << >> \in Seq(Target)
  OBVIOUS
<1>2. /\ loaded' \in [Tools -> Seq(Target)] /\ DOMAIN pc' = Tools /\ DOMAIN next' = Tools /\ DOMAIN op' = Tools
      /\ file' = file
      /\ \A s \in Tools : next'[s] = IF s = t THEN Nothing ELSE next[s]
  BY <1>1 DEF Quits, Goto, QueueSound, QueueTypeOK
<1>3. IsArtifact(Nothing) /\ Valid(Nothing)
  BY NothingIsArtifact, UnmanagedIsValid DEF Nothing
<1>4. \A s \in Tools : IsArtifact(next'[s]) /\ Valid(next'[s])
  BY <1>2, <1>3 DEF QueueSound, QueueTypeOK
<1> QED BY <1>2, <1>4 DEF QueueSound, QueueTypeOK

\* A provider's list, or what was prepared, becomes the file.
LEMMA NewFileIsSound ==
  ASSUME QueueSound, IsArtifact(file'), Valid(file'), DOMAIN pc' = Tools, DOMAIN op' = Tools,
         UNCHANGED << setting, loaded, next >>
  PROVE  QueueSound'
  BY DEF QueueSound, QueueTypeOK

LEMMA StepIsSound ==
  ASSUME QueueSound, NEW t \in Working, Step(t), UNCHANGED setting
  PROVE  QueueSound'
<1>1. /\ setting \in DOMAIN Settings /\ DOMAIN pc = Tools /\ DOMAIN op = Tools /\ DOMAIN next = Tools
      /\ loaded \in [Tools -> Seq(Target)]
      /\ IsArtifact(file) /\ Valid(file) /\ file.active \in Seq(Target) /\ file.deferred \in Seq(Target)
  BY DEF QueueSound, QueueTypeOK, IsArtifact
<1>2. /\ t \in Tools /\ Marks \subseteq Statuses /\ ModelLists \subseteq Seq(Target)
      /\ Posture \subseteq {p \in Target : p.lineage = {}}
      /\ GapfillIds \subseteq Nat /\ IsFiniteSet(GapfillIds)
  BY <1>1, SettingIsFine
<1>3. ASSUME NEW name, NEW id, Do(t, name, id) PROVE DOMAIN op' = Tools
  BY <1>1, <1>3 DEF Do
<1>4. /\ loaded[t] \in Seq(Target)
      /\ IsArtifact(next[t]) /\ Valid(next[t]) /\ next[t].active \in Seq(Target)
  BY <1>1, <1>2 DEF QueueSound, QueueTypeOK, IsArtifact
<1>5. CASE Mark(t)
  <2>1. PICK id \in TargetIds(file.active), status \in Marks :
          Do(t, "mark", id) /\ Loads(t, Marked(file.active, id, status))
    BY <1>5 DEF Mark
  <2>2. Marked(file.active, id, status) \in Seq(Target)
    BY <1>1, <1>2, MarkedType
  <2> QED BY <1>2, <1>3, <2>1, <2>2, LoadsIsSound
<1>6. CASE Research(t)
  <2>1. PICK id \in TargetIds(file.active) :
          Do(t, "research", id) /\ Loads(t, Marked(file.active, id, "in_progress"))
    BY <1>6 DEF Research
  <2>2. Marked(file.active, id, "in_progress") \in Seq(Target)
    BY <1>1, MarkedType DEF Statuses
  <2> QED BY <1>2, <1>3, <2>1, <2>2, LoadsIsSound
<1>7. CASE FinishResearch(t)
  <2>1. PICK status \in Marks : Loads(t, Marked(file.active, op[t].id, status))
    BY <1>7 DEF FinishResearch
  <2>2. Marked(file.active, op[t].id, status) \in Seq(Target)
    BY <1>1, <1>2, MarkedType
  <2>3. Do(t, "outcome", op[t].id)
    BY <1>7 DEF FinishResearch
  <2> QED BY <1>2, <1>3, <2>1, <2>2, <2>3, LoadsIsSound
<1>8. CASE Gapfill(t)
  <2>1. /\ Cardinality(InNeed(file.active)) \in 1 .. Cardinality(GapfillIds \ TargetIds(file.active))
        /\ Do(t, "gapfill", NoId) /\ Loads(t, WithGapfill(file.active))
    BY <1>8 DEF Gapfill
  <2>2. WithGapfill(file.active) \in Seq(Target)
    BY <1>1, <1>2, <2>1, GapfillFacts
  <2> QED BY <1>2, <1>3, <2>1, <2>2, LoadsIsSound
<1>9. CASE Rebalance(t)
  <2>1. PICK budgets \in BudgetChoices, policy \in Policies :
          CanRebalance(file, budgets, policy) /\ Prepares(t, Rebalanced(file, budgets, policy))
    BY <1>9 DEF Rebalance
  <2>2. Applicable(Targets(file)) /\ Valid(Rebalanced(file, budgets, policy))
    BY <2>1 DEF CanRebalance
  <2>3. IsArtifact(Rebalanced(file, budgets, policy))
    BY <1>1, <2>2, RebalancedFacts
  <2>4. DOMAIN op' = Tools
    BY <1>3, <1>9 DEF Rebalance
  <2> QED BY <1>2, <2>1, <2>2, <2>3, <2>4, PreparesIsSound
<1>10. CASE RefuseRebalance(t)
  BY <1>2, <1>10, QuitsIsSound DEF RefuseRebalance
<1>11. CASE Normalize(t)
  <2>1. DOMAIN op' = Tools
    BY <1>3, <1>11 DEF Normalize
  <2>2. CASE file.managed
    <3>1. /\ RefreshKeeps(NormalizedArtifact) \/ RefreshReselects(NormalizedArtifact)
          /\ Prepares(t, Refresh(NormalizedArtifact))
      BY <1>11, <2>2 DEF Normalize
    <3>2. IsArtifact(Refresh(NormalizedArtifact)) /\ Valid(Refresh(NormalizedArtifact))
      BY <1>1, <3>1, NormalizationFacts
    <3> QED BY <1>2, <2>1, <3>1, <3>2, PreparesIsSound
  <2>3. CASE ~file.managed
    <3>1. Prepares(t, NormalizedArtifact)
      BY <1>11, <2>3 DEF Normalize
    <3>2. IsArtifact(NormalizedArtifact) /\ ~NormalizedArtifact.managed
      BY <1>1, <2>3, NormalizedIsSame
    <3>3. Valid(NormalizedArtifact)
      BY <3>2 DEF Valid
    <3> QED BY <1>2, <2>1, <3>1, <3>2, <3>3, PreparesIsSound
  <2> QED BY <2>2, <2>3
<1>12. CASE ProviderWrites(t)
  <2>1. PICK ts \in ModelLists : file' = Unmanaged(ts)
    BY <1>12 DEF ProviderWrites
  <2>2. IsArtifact(file') /\ Valid(file')
    BY <1>2, <2>1, UnmanagedIsArtifact, UnmanagedIsValid
  <2>3. /\ Do(t, "bind", NoId) /\ pc' = [pc EXCEPT ![t] = "generated"]
        /\ UNCHANGED << loaded, next >>
    BY <1>12 DEF ProviderWrites, Goto
  <2> QED BY <1>1, <1>3, <2>2, <2>3, NewFileIsSound
<1>13. CASE BindModelOutput(t)
  <2>1. Prepares(t, Unmanaged(Bound(Targets(file)))) /\ op' = op
    BY <1>13 DEF BindModelOutput
  <2>2. Bound(Targets(file)) \in Seq(Target)
    BY <1>1, ArtifactMembers, BoundType
  <2>3. IsArtifact(Unmanaged(Bound(Targets(file)))) /\ Valid(Unmanaged(Bound(Targets(file))))
    BY <2>2, UnmanagedIsArtifact, UnmanagedIsValid
  <2> QED BY <1>1, <1>2, <2>1, <2>3, PreparesIsSound
<1>14. CASE AppendPosture(t)
  <2>1. PICK p \in Posture : p.id \notin IdsWithLineage(Targets(file)) /\ Loads(t, Append(file.active, p))
    BY <1>14 DEF AppendPosture
  <2>2. Append(file.active, p) \in Seq(Target)
    BY <1>1, <1>2
  <2>3. Do(t, "append", NoId)
    BY <1>14 DEF AppendPosture
  <2> QED BY <1>2, <1>3, <2>1, <2>2, <2>3, LoadsIsSound
<1>15. CASE Triage(t)
  <2>1. /\ next' = [next EXCEPT ![t] = file] /\ Do(t, "restore", NoId) /\ pc' = [pc EXCEPT ![t] = "session"]
        /\ UNCHANGED << file, loaded >>
    BY <1>15 DEF Triage, Goto
  <2>2. \A s \in Tools : IsArtifact(next'[s]) /\ Valid(next'[s])
    BY <1>1, <2>1 DEF QueueSound, QueueTypeOK
  <2>3. DOMAIN next' = Tools /\ DOMAIN pc' = Tools /\ DOMAIN op' = Tools
    BY <1>1, <1>3, <2>1
  <2> QED BY <1>1, <2>1, <2>2, <2>3 DEF QueueSound, QueueTypeOK
<1>16. CASE TriageProvider(t)
  <2>1. PICK ts \in ModelLists : file' = Unmanaged(ts)
    BY <1>16 DEF TriageProvider
  <2>2. IsArtifact(file') /\ Valid(file')
    BY <1>2, <2>1, UnmanagedIsArtifact, UnmanagedIsValid
  <2>3. pc' = [pc EXCEPT ![t] = "ready"] /\ UNCHANGED << op, loaded, next >>
    BY <1>16 DEF TriageProvider, Goto
  <2> QED BY <1>1, <2>2, <2>3, NewFileIsSound
<1>17. CASE AppendTriaged(t)
  <2>1. PICK p \in Posture : Loads(t, Append(next[t].active, p))
    BY <1>17 DEF AppendTriaged
  <2>2. Append(next[t].active, p) \in Seq(Target)
    BY <1>2, <1>4
  <2>3. Do(t, "append", NoId)
    BY <1>17 DEF AppendTriaged
  <2> QED BY <1>2, <1>3, <2>1, <2>2, <2>3, LoadsIsSound
<1>18. CASE NothingTriaged(t)
  <2>1. pc' = [pc EXCEPT ![t] = "bound"] /\ UNCHANGED << file, op, loaded, next >>
    BY <1>18 DEF NothingTriaged, Goto
  <2> QED BY <1>1, <2>1, NewFileIsSound
<1>19. CASE ReadForWrite(t)
  <2>1. Writable(file, loaded[t]) /\ Prepares(t, Written(file, loaded[t])) /\ op' = op
    BY <1>19 DEF ReadForWrite
  <2>2. IsArtifact(Written(file, loaded[t])) /\ Valid(Written(file, loaded[t]))
    BY <1>1, <1>4, <2>1, WrittenType DEF Writable
  <2> QED BY <1>1, <1>2, <2>1, <2>2, PreparesIsSound
<1>20. CASE RefuseWrite(t)
  BY <1>2, <1>20, QuitsIsSound DEF RefuseWrite
<1>21. CASE Replace(t)
  <2>1. /\ file' = next[t] /\ loaded' = loaded
        /\ next' = IF op[t].name = "restore" THEN next ELSE [next EXCEPT ![t] = Nothing]
    BY <1>21 DEF Replace
  <2>2. DOMAIN pc' = Tools /\ DOMAIN op' = Tools
    BY <1>1, <1>21 DEF Replace, Goto
  <2>3. IsArtifact(Nothing) /\ Valid(Nothing)
    BY NothingIsArtifact, UnmanagedIsValid DEF Nothing
  <2>4. \A s \in Tools : IsArtifact(next'[s]) /\ Valid(next'[s])
    BY <1>1, <2>1, <2>3 DEF QueueSound, QueueTypeOK
  <2>5. DOMAIN next' = Tools
    BY <1>1, <2>1
  <2> QED BY <1>1, <1>4, <2>1, <2>2, <2>4, <2>5 DEF QueueSound, QueueTypeOK
<1>22. CASE Leave(t)
  BY <1>2, <1>22, QuitsIsSound DEF Leave
<1> QED BY <1>5, <1>6, <1>7, <1>8, <1>9, <1>10, <1>11, <1>12, <1>13, <1>14, <1>15, <1>16, <1>17,
           <1>18, <1>19, <1>20, <1>21, <1>22 DEF Step

LEMMA NextIsSound == QueueSound /\ [QueueNext]_queueVars => QueueSound'
<1> SUFFICES ASSUME QueueSound, [QueueNext]_queueVars PROVE QueueSound'
  OBVIOUS
<1>1. CASE QueueNext
  BY <1>1, StepIsSound DEF QueueNext
<1>2. CASE UNCHANGED queueVars
  BY <1>2 DEF queueVars, QueueSound, QueueTypeOK
<1> QED BY <1>1, <1>2

(* Any tools, lists, budgets and policies: the queue in targets.json and what each *)
(* tool is about to write are well-formed lists of targets that pass the validation *)
(* of gralib.py, whatever steps of other tools come between a read and a write.     *)
THEOREM QueueStaysSound == QueueSpec => []QueueSound
BY InitIsSound, NextIsSound, PTL DEF QueueSpec

(* A policy-managed queue in the file passes its own validation in every state: no *)
(* overlap of marks, appends, rebalances, normalizations and restores, and no death *)
(* of a tool, stores a queue the tools would refuse to read (gralib.py:296-332).    *)
THEOREM StoredQueueStaysValid == QueueSpec => []StoredQueueIsValid
<1>1. QueueSound => StoredQueueIsValid
  BY DEF QueueSound, StoredQueueIsValid
<1> QED BY <1>1, QueueStaysSound, PTL

-------------------------------------------------------------------------------
(* What a tool that works alone is about to do to the queue *)

QuietWrites == {"mark", "research", "outcome", "gapfill", "append"}
GrowingWrites == {"gapfill", "append"}

\* What it has loaded, what it has prepared, and that only it has touched the file.
Foreseen(t) ==
  /\ pc[t] = "loaded" =>
       /\ op[t].name \in QuietWrites /\ Keeps(file.active, loaded[t])
       /\ op[t].name \in GrowingWrites => Extends(file.active, loaded[t])
  /\ pc[t] = "ready" =>
       /\ op[t].name \in QuietWrites => Stable(file, next[t])
       /\ op[t].name \notin {"restore", "bind"} => Remembers(file, next[t])
       /\ op[t].name \in GrowingWrites \cup {"rebalance", "normalize", "preflight"} => Progresses(file, next[t])
       /\ op[t].name = "restore" => last = "provider"
  /\ pc[t] = "restored" => file = next[t]
  /\ pc[t] = "generated" => op[t].name = "bind"

LEMMA LoadsIsForeseen ==
  ASSUME QueueSound, NEW t \in Tools, NEW targets, NEW name \in QuietWrites, NEW id,
         Loads(t, targets), Do(t, name, id),
         Keeps(file.active, targets), name \in GrowingWrites => Extends(file.active, targets)
  PROVE  Foreseen(t)'
<1>1. /\ pc'[t] = "loaded" /\ op'[t].name = name /\ loaded'[t] = targets /\ file' = file
  BY DEF Loads, Goto, Do, QueueSound, QueueTypeOK
<1> QED BY <1>1 DEF Foreseen

LEMMA PreparesIsForeseen ==
  ASSUME QueueSound, NEW t \in Tools, NEW artifact, Prepares(t, artifact),
         op'[t].name # "restore",
         op'[t].name \in QuietWrites => Stable(file, artifact),
         op'[t].name # "bind" => Remembers(file, artifact),
         op'[t].name \in GrowingWrites \cup {"rebalance", "normalize", "preflight"} => Progresses(file, artifact)
  PROVE  Foreseen(t)'
<1>1. /\ pc'[t] = "ready" /\ next'[t] = artifact /\ file' = file
  BY DEF Prepares, Goto, QueueSound, QueueTypeOK
<1> QED BY <1>1 DEF Foreseen

LEMMA QuietIsForeseen ==
  ASSUME NEW t, pc'[t] \notin {"loaded", "ready", "restored", "generated"} PROVE Foreseen(t)'
  BY DEF Foreseen

LEMMA MarkedIsKept ==
  ASSUME NEW ts \in Seq(Target), NEW id, NEW status \in Statuses PROVE Keeps(ts, Marked(ts, id, status))
<1>1. /\ DOMAIN Marked(ts, id, status) = DOMAIN ts
      /\ \A i \in DOMAIN ts : /\ Marked(ts, id, status)[i].id = ts[i].id
                              /\ Lineage(Marked(ts, id, status)[i]) = Lineage(ts[i])
  BY MarkedType
<1> QED BY <1>1 DEF Keeps, Members

LEMMA NewHere ==
  ASSUME NEW a, IsArtifact(a), NEW id, id \notin IdsWithLineage(Targets(a)) PROVE id \notin TargetIds(a.active)
<1>1. Members(a.active) \subseteq Members(Targets(a))
  BY ArtifactMembers
<1> QED BY <1>1, MembersForm

LEMMA StepIsForeseen ==
  ASSUME QueueSound, NEW t \in Working, Foreseen(t), Step(t)
  PROVE  Foreseen(t)'
<1>1. /\ setting \in DOMAIN Settings /\ DOMAIN pc = Tools /\ DOMAIN op = Tools /\ DOMAIN next = Tools
      /\ loaded \in [Tools -> Seq(Target)]
      /\ IsArtifact(file) /\ Valid(file) /\ file.active \in Seq(Target) /\ file.deferred \in Seq(Target)
      /\ file.managed \in BOOLEAN
  BY DEF QueueSound, QueueTypeOK, IsArtifact
<1>2. /\ t \in Tools /\ Marks \subseteq Statuses /\ ModelLists \subseteq Seq(Target)
      /\ Posture \subseteq {p \in Target : p.lineage = {}}
      /\ GapfillIds \subseteq Nat /\ IsFiniteSet(GapfillIds)
  BY <1>1, SettingIsFine
<1>3. ASSUME NEW name, NEW id, Do(t, name, id) PROVE op'[t].name = name
  BY <1>1, <1>2, <1>3 DEF Do
<1>4. loaded[t] \in Seq(Target)
  BY <1>1, <1>2
<1>5. CASE Mark(t)
  <2>1. PICK id \in TargetIds(file.active), status \in Marks :
          Do(t, "mark", id) /\ Loads(t, Marked(file.active, id, status))
    BY <1>5 DEF Mark
  <2>2. Keeps(file.active, Marked(file.active, id, status))
    BY <1>1, <1>2, MarkedIsKept
  <2>3. "mark" \in QuietWrites /\ "mark" \notin GrowingWrites
    BY DEF QuietWrites, GrowingWrites
  <2> QED BY <1>2, <2>1, <2>2, <2>3, LoadsIsForeseen
<1>6. CASE Research(t)
  <2>1. PICK id \in TargetIds(file.active) :
          Do(t, "research", id) /\ Loads(t, Marked(file.active, id, "in_progress"))
    BY <1>6 DEF Research
  <2>2. Keeps(file.active, Marked(file.active, id, "in_progress"))
    BY <1>1, MarkedIsKept DEF Statuses
  <2>3. "research" \in QuietWrites /\ "research" \notin GrowingWrites
    BY DEF QuietWrites, GrowingWrites
  <2> QED BY <1>2, <2>1, <2>2, <2>3, LoadsIsForeseen
<1>7. CASE FinishResearch(t)
  <2>1. PICK status \in Marks : Loads(t, Marked(file.active, op[t].id, status))
    BY <1>7 DEF FinishResearch
  <2>2. Keeps(file.active, Marked(file.active, op[t].id, status))
    BY <1>1, <1>2, MarkedIsKept
  <2>3. Do(t, "outcome", op[t].id)
    BY <1>7 DEF FinishResearch
  <2>4. "outcome" \in QuietWrites /\ "outcome" \notin GrowingWrites
    BY DEF QuietWrites, GrowingWrites
  <2> QED BY <1>2, <2>1, <2>2, <2>3, <2>4, LoadsIsForeseen
<1>8. CASE Gapfill(t)
  <2>1. /\ Cardinality(InNeed(file.active)) \in 1 .. Cardinality(GapfillIds \ TargetIds(file.active))
        /\ Do(t, "gapfill", NoId) /\ Loads(t, WithGapfill(file.active))
    BY <1>8 DEF Gapfill
  <2>2. Extends(file.active, WithGapfill(file.active))
    BY <1>1, <1>2, <2>1, GapfillFacts
  <2>3. "gapfill" \in QuietWrites
    BY DEF QuietWrites
  <2> QED BY <1>2, <2>1, <2>2, <2>3, ExtendedIsKept, LoadsIsForeseen
<1>9. CASE Rebalance(t)
  <2>1. PICK budgets \in BudgetChoices, policy \in Policies :
          CanRebalance(file, budgets, policy) /\ Prepares(t, Rebalanced(file, budgets, policy))
    BY <1>9 DEF Rebalance
  <2>2. Applicable(Targets(file))
    BY <2>1 DEF CanRebalance
  <2>3. Remembers(file, Rebalanced(file, budgets, policy)) /\ Progresses(file, Rebalanced(file, budgets, policy))
    BY <1>1, <2>2, RebalancedFacts
  <2>4. op'[t].name = "rebalance" /\ "rebalance" \notin QuietWrites
    BY <1>3, <1>9 DEF Rebalance, QuietWrites
  <2> QED BY <1>2, <2>1, <2>3, <2>4, PreparesIsForeseen
<1>10. CASE Normalize(t)
  <2>1. op'[t].name \in {"normalize", "preflight"} /\ op'[t].name \notin QuietWrites
    BY <1>3, <1>10 DEF Normalize, QuietWrites
  <2>2. CASE file.managed
    <3>1. /\ RefreshKeeps(NormalizedArtifact) \/ RefreshReselects(NormalizedArtifact)
          /\ Prepares(t, Refresh(NormalizedArtifact))
      BY <1>10, <2>2 DEF Normalize
    <3>2. Remembers(file, Refresh(NormalizedArtifact)) /\ Progresses(file, Refresh(NormalizedArtifact))
      BY <1>1, <3>1, NormalizationFacts
    <3> QED BY <1>2, <2>1, <3>1, <3>2, PreparesIsForeseen
  <2>3. CASE ~file.managed
    <3>1. Prepares(t, NormalizedArtifact)
      BY <1>10, <2>3 DEF Normalize
    <3>2. SameTargets(file, NormalizedArtifact)
      BY <1>1, NormalizedIsSame
    <3>3. Remembers(file, NormalizedArtifact) /\ Progresses(file, NormalizedArtifact)
      BY <3>2, SameIsEnough
    <3> QED BY <1>2, <2>1, <3>1, <3>3, PreparesIsForeseen
  <2> QED BY <2>2, <2>3
<1>11. CASE ProviderWrites(t)
  <2>1. pc'[t] = "generated" /\ op'[t].name = "bind"
    BY <1>1, <1>2, <1>3, <1>11 DEF ProviderWrites, Goto
  <2> QED BY <2>1 DEF Foreseen
<1>12. CASE BindModelOutput(t)
  <2>1. Prepares(t, Unmanaged(Bound(Targets(file)))) /\ op' = op /\ op[t].name = "bind"
    BY <1>12 DEF BindModelOutput, Foreseen
  <2>2. "bind" \notin QuietWrites /\ "bind" \notin GrowingWrites
    BY DEF QuietWrites, GrowingWrites
  <2> QED BY <1>2, <2>1, <2>2, PreparesIsForeseen
<1>13. CASE AppendPosture(t)
  <2>1. PICK p \in Posture : p.id \notin IdsWithLineage(Targets(file)) /\ Loads(t, Append(file.active, p))
    BY <1>13 DEF AppendPosture
  <2>2. p \in Target /\ p.lineage = {} /\ p.id \notin TargetIds(file.active)
    BY <1>1, <1>2, <2>1, NewHere
  <2>3. Extends(file.active, Append(file.active, p))
    BY <1>1, <2>2, OneAppended
  <2>4. Do(t, "append", NoId) /\ "append" \in QuietWrites
    BY <1>13 DEF AppendPosture, QuietWrites
  <2> QED BY <1>2, <2>1, <2>3, <2>4, ExtendedIsKept, LoadsIsForeseen
<1>14. CASE AppendTriaged(t)
  <2>1. PICK p \in Posture : p.id \notin IdsWithLineage(Targets(file)) /\ Loads(t, Append(file.active, p))
    BY <1>14 DEF AppendTriaged, Foreseen
  <2>2. p \in Target /\ p.lineage = {} /\ p.id \notin TargetIds(file.active)
    BY <1>1, <1>2, <2>1, NewHere
  <2>3. Extends(file.active, Append(file.active, p))
    BY <1>1, <2>2, OneAppended
  <2>4. Do(t, "append", NoId) /\ "append" \in QuietWrites
    BY <1>14 DEF AppendTriaged, QuietWrites
  <2> QED BY <1>2, <2>1, <2>3, <2>4, ExtendedIsKept, LoadsIsForeseen
<1>15. CASE TriageProvider(t)
  <2>1. pc'[t] = "ready" /\ op' = op /\ op[t].name = "restore" /\ last' = "provider"
    BY <1>1, <1>2, <1>15 DEF TriageProvider, Goto
  <2> QED BY <2>1 DEF Foreseen, QuietWrites, GrowingWrites
<1>16. CASE ReadForWrite(t)
  <2> DEFINE artifact == Written(file, loaded[t])
  <2>1. /\ Writable(file, loaded[t]) /\ Prepares(t, artifact) /\ op' = op
        /\ op[t].name \in QuietWrites /\ Keeps(file.active, loaded[t])
        /\ op[t].name \in GrowingWrites => Extends(file.active, loaded[t])
    BY <1>16 DEF ReadForWrite, Foreseen
  <2>2. Stable(file, artifact) /\ Remembers(file, artifact)
    BY <1>1, <1>4, <2>1, WrittenIsStable, WrittenRemembers
  <2>3. op[t].name \in GrowingWrites => Progresses(file, artifact)
    BY <1>1, <1>4, <2>1, WrittenAdvances
  <2>4. op[t].name \notin {"restore", "rebalance", "normalize", "preflight"}
    BY <2>1 DEF QuietWrites
  <2> HIDE DEF artifact
  <2> QED BY <1>2, <2>1, <2>2, <2>3, <2>4, PreparesIsForeseen
<1>17. CASE Replace(t)
  <2>1. /\ pc'[t] = AfterWrite(op[t].name) /\ file' = next[t]
        /\ op[t].name = "restore" => next' = next
    BY <1>1, <1>2, <1>17 DEF Replace, Goto
  <2>2. AfterWrite(op[t].name) \in {"session", "restored", "bound", "idle"}
        /\ (AfterWrite(op[t].name) = "restored" => op[t].name = "restore")
    BY DEF AfterWrite
  <2> QED BY <2>1, <2>2 DEF Foreseen
<1>18. CASE Triage(t)
  <2>1. pc'[t] = "session"
    BY <1>1, <1>2, <1>18 DEF Triage, Goto
  <2> QED BY <2>1, QuietIsForeseen
<1>19. CASE NothingTriaged(t)
  <2>1. pc'[t] = "bound"
    BY <1>1, <1>2, <1>19 DEF NothingTriaged, Goto
  <2> QED BY <2>1, QuietIsForeseen
<1>20. CASE RefuseWrite(t) \/ RefuseRebalance(t) \/ Leave(t)
  <2>1. pc'[t] = "idle"
    BY <1>1, <1>2, <1>20 DEF RefuseWrite, RefuseRebalance, Leave, Quits, Goto
  <2> QED BY <2>1, QuietIsForeseen
<1> QED BY <1>5, <1>6, <1>7, <1>8, <1>9, <1>10, <1>11, <1>12, <1>13, <1>14, <1>15, <1>16, <1>17,
           <1>18, <1>19, <1>20 DEF Step

QueueInv == QueueSound /\ (OneTool => \A t \in Working : Foreseen(t))

LEMMA AloneMeans ==
  ASSUME QueueSound, OneTool, NEW s \in Working, NEW t \in Working PROVE s = t
<1>1. IsFiniteSet(Working)
  BY SettingIsFine, QueueAssumption, FS_Subset DEF QueueSound, QueueTypeOK
<1>2. PICK x : Working = {x}
  BY <1>1, FS_Singleton DEF OneTool
<1> QED BY <1>2

(* The inductive invariant: what a tool that works alone has loaded or prepared is *)
(* related to the file it will replace.                                             *)
LEMMA QueueIsForeseen == QueueSpec => []QueueInv
<1>1. QueueInit => QueueInv
  <2> SUFFICES ASSUME QueueInit PROVE QueueInv
    OBVIOUS
  <2>1. QueueSound
    BY InitIsSound
  <2>2. \A t \in Working : pc[t] = "idle"
    BY <2>1, SettingIsFine DEF QueueInit, QueueSound, QueueTypeOK
  <2> QED BY <2>1, <2>2 DEF QueueInv, Foreseen
<1>2. QueueInv /\ [QueueNext]_queueVars => QueueInv'
  <2> SUFFICES ASSUME QueueInv, [QueueNext]_queueVars PROVE QueueInv'
    OBVIOUS
  <2>1. QueueSound /\ QueueSound'
    BY NextIsSound DEF QueueInv
  <2>2. CASE QueueNext
    <3>1. UNCHANGED setting
      BY <2>2 DEF QueueNext
    <3>2. (OneTool' <=> OneTool) /\ Working' = Working
      BY <3>1 DEF OneTool, Working, UsesOf
    <3>3. PICK t \in Working : Step(t)
      BY <2>2 DEF QueueNext
    <3>4. OneTool => Foreseen(t)'
      BY <2>1, <3>3, StepIsForeseen DEF QueueInv
    <3>5. OneTool => \A s \in Working : s = t
      BY <2>1, AloneMeans
    <3> QED BY <2>1, <3>2, <3>4, <3>5 DEF QueueInv
  <2>3. CASE UNCHANGED queueVars
    BY <2>1, <2>3 DEF QueueInv, queueVars, Foreseen, OneTool, Working, UsesOf
  <2> QED BY <2>2, <2>3
<1> QED BY <1>1, <1>2, PTL DEF QueueSpec

LEMMA WritesAreForeseen ==
  ASSUME QueueInv, [QueueNext]_queueVars, file' # file, OneTool
  PROVE  \/ last' = "provider"
         \/ \E t \in Working : pc[t] = "ready" /\ file' = next[t] /\ last' = op[t].name /\ Foreseen(t)
<1>1. PICK t \in Working : Step(t)
  BY DEF QueueNext, queueVars
<1>2. CASE ProviderWrites(t) \/ TriageProvider(t)
  BY <1>2 DEF ProviderWrites, TriageProvider
<1>3. CASE Replace(t)
  BY <1>3 DEF Replace, QueueInv
<1>4. CASE Mark(t) \/ Research(t) \/ FinishResearch(t) \/ Gapfill(t) \/ AppendPosture(t) \/ AppendTriaged(t)
  BY <1>4 DEF Mark, Research, FinishResearch, Gapfill, AppendPosture, AppendTriaged, Loads
<1>5. CASE Rebalance(t) \/ Normalize(t) \/ BindModelOutput(t) \/ ReadForWrite(t)
  BY <1>5 DEF Rebalance, Normalize, BindModelOutput, ReadForWrite, Prepares
<1>6. CASE RefuseRebalance(t) \/ RefuseWrite(t) \/ Leave(t)
  BY <1>6 DEF RefuseRebalance, RefuseWrite, Leave, Quits
<1>7. CASE Triage(t) \/ NothingTriaged(t)
  BY <1>7 DEF Triage, NothingTriaged
<1> QED BY <1>1, <1>2, <1>3, <1>4, <1>5, <1>6, <1>7 DEF Step

(* write_targets keeps the decisions of the stored wave: marks, research, appended *)
(* seeds and gapfill leave the wave and the deferred targets as they are.           *)
THEOREM WaveStaysStable == QueueSpec => WaveIsStable
<1> DEFINE P == OneTool /\ file.managed /\ file'.managed /\ last' \in {"mark", "research", "outcome", "gapfill", "append"}
                  => /\ Selection(file') = Selection(file)
                     /\ TargetIds(file'.deferred) = TargetIds(file.deferred)
<1>1. QueueInv /\ [QueueNext]_queueVars => [P]_file
  <2> SUFFICES ASSUME QueueInv, [QueueNext]_queueVars, file' # file, OneTool, file.managed, file'.managed,
                      last' \in {"mark", "research", "outcome", "gapfill", "append"}
               PROVE  Stable(file, file')
    BY DEF Stable
  <2>1. PICK t \in Working : pc[t] = "ready" /\ file' = next[t] /\ last' = op[t].name /\ Foreseen(t)
    BY WritesAreForeseen
  <2> QED BY <2>1 DEF Foreseen, QuietWrites
<1> QED BY <1>1, QueueIsForeseen, PTL DEF WaveIsStable, QueueSpec

(* No write of a tool that works alone drops a target: its id is still that of a   *)
(* target or of a contributor, also after groups were merged by a rebalance or a    *)
(* normalization, for any list and any budgets.                                     *)
THEOREM NoTargetIsEverForgotten == QueueSpec => NoTargetIsForgotten
<1> DEFINE P == OneTool /\ last' # "provider" /\ last # "provider" /\ last' # "bind"
                  => IdsWithLineage(Targets(file)) \subseteq IdsWithLineage(Targets(file'))
<1>1. QueueInv /\ [QueueNext]_queueVars => [P]_file
  <2> SUFFICES ASSUME QueueInv, [QueueNext]_queueVars, file' # file, OneTool,
                      last' # "provider", last # "provider", last' # "bind"
               PROVE  Remembers(file, file')
    BY DEF Remembers
  <2>1. PICK t \in Working : pc[t] = "ready" /\ file' = next[t] /\ last' = op[t].name /\ Foreseen(t)
    BY WritesAreForeseen
  <2> QED BY <2>1 DEF Foreseen
<1> QED BY <1>1, QueueIsForeseen, PTL DEF NoTargetIsForgotten, QueueSpec

(* No rebalance, normalization, append or gapfill turns work that was begun back   *)
(* into queued work, also when its target was merged into another one.              *)
THEOREM ProgressStaysKept == QueueSpec => ProgressIsKept
<1> DEFINE P == OneTool /\ last' \in {"rebalance", "normalize", "preflight", "append", "gapfill"}
                  => \A id \in TargetIds(Targets(file)) :
                       "queued" \notin StatusOf(file, id) => StatusOf(file', id) # {"queued"}
<1>1. QueueInv /\ [QueueNext]_queueVars => [P]_file
  <2> SUFFICES ASSUME QueueInv, [QueueNext]_queueVars, file' # file, OneTool,
                      last' \in {"rebalance", "normalize", "preflight", "append", "gapfill"}
               PROVE  Progresses(file, file')
    BY DEF Progresses
  <2>1. PICK t \in Working : pc[t] = "ready" /\ file' = next[t] /\ last' = op[t].name /\ Foreseen(t)
    BY WritesAreForeseen
  <2> QED BY <2>1 DEF Foreseen, GrowingWrites
<1> QED BY <1>1, QueueIsForeseen, PTL DEF ProgressIsKept, QueueSpec
===============================================================================
