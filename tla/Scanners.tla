------------------------------- MODULE Scanners -------------------------------
(***************************************************************************)
(* The scanner pipeline of a run: gra-scan --readiness, gra-scan --execute  *)
(* (lib/scanner_runner.py, scanner_ingest.py, scanner_reporting.py) and     *)
(* gra-ingest, side by side on one run directory, with processes killed at  *)
(* any step and an operator who deletes normalized results.                 *)
(*                                                                         *)
(* A scan publishes its raw output under the adapter's name, once for the   *)
(* run; an import is named by a digest of its bytes.  The bytes a file      *)
(* holds are named by the scan that produced them or by the imported        *)
(* content.  The counts, formats and redactions made from the same bytes    *)
(* are the same, and are not told apart.                                    *)
(***************************************************************************)
EXTENDS ScannerReadiness

CONSTANTS
  Scans,       \* gra-scan --execute processes
  Past,        \* those of them that have come and gone before
  Checks,      \* gra-scan --readiness processes
  Imports,     \* gra-ingest processes
  AdapterOf,   \* the adapter each scan or check is asked for
  SourceOf,    \* the bytes each import is given
  Boms,        \* adapters and bytes that are bills of materials
  Advisories,  \* bytes that are one scanner's vulnerability results
  Worlds,      \* the worlds the machine and the run may be in
  Nobody, NoFile,
  MaxRuns,     \* MAX_SCANNER_RUNS
  MaxKills     \* bound on the processes killed

Processes == Scans \cup Checks \cup Imports
Adapters == {AdapterOf[s] : s \in Scans \cup Checks}
Names == Adapters \cup {SourceOf[i] : i \in Imports}
Bytes == Scans \cup {SourceOf[i] : i \in Imports}

ASSUME ScannersAssumption ==
  /\ Worlds \subseteq World /\ Past \subseteq Scans
  /\ MaxRuns \in Nat \ {0} /\ MaxKills \in Nat
  /\ Scans \cap Imports = {} /\ Checks \cap (Scans \cup Imports) = {}
  /\ Nobody \notin Processes /\ NoFile \notin Bytes
  /\ Adapters \cap {SourceOf[i] : i \in Imports} = {}

VARIABLES
  raw,          \* raw output files: the bytes each holds
  leads,        \* normalized files: the bytes each was made from
  index,        \* scanner-index.json
  dependencies, \* dependencies.json: the components' and the vulnerabilities' bytes
  queued,       \* the bytes whose vulnerabilities are in the target queue
  runs,         \* scanner-runs.json: its records
  summary,      \* and the summary of them
  readiness,    \* the states of the persisted readiness reports
  staging,      \* [root, of]: the staging directory and the scans with one in it
  ingestLock, reportLock,
  pc,           \* where each process is
  seen,         \* the index or the runs a process has loaded
  outcome,      \* how each process has fared so far
  removed,      \* history: the normalized files somebody deleted
  kills

vars == << raw, leads, index, dependencies, queued, runs, summary, readiness, staging,
           ingestLock, reportLock, pc, seen, outcome, removed, kills >>

artifacts == << raw, leads, index, dependencies, queued, runs, summary, readiness, removed >>

Places ==
  {"idle", "execute", "stage", "scan", "ingest", "normalize", "copied", "normalized",
   "indexing", "posture", "targets", "indexed", "record", "appending", "event", "done",
   "killed"}

Outcomes ==
  {"ok", "refused", "execution", "ingestion", "reporting", "event", "raised", "blocked",
   "unevaluated"}

(* A record of scanner-runs.json: how the scan ended, whether its scanner's   *)
(* results and their normalized form were counted, and whether it refers to  *)
(* the normalized file and the index.                                        *)
Statuses == {"succeeded", "failed"}
Record == [by : Scans, status : Statuses, counted : BOOLEAN, refers : BOOLEAN]

TypeOK ==
  /\ raw \in [Names -> Bytes \cup {NoFile}] /\ leads \in [Names -> Bytes \cup {NoFile}]
  /\ index \in Seq([name : Names, bytes : Bytes])
  /\ dependencies \in [components : SUBSET Bytes, vulnerabilities : SUBSET Bytes]
  /\ queued \subseteq Bytes /\ removed \subseteq Names
  /\ runs \in Seq(Record) /\ DOMAIN seen = Processes
  /\ staging \in [root : BOOLEAN, of : SUBSET Scans]
  /\ {ingestLock, reportLock} \subseteq Processes \cup {Nobody}
  /\ pc \in [Processes -> Places] /\ outcome \in [Processes -> Outcomes]
  /\ kills \in 0 .. MaxKills

FailedRun(s) == [by |-> s, status |-> "failed", counted |-> FALSE, refers |-> FALSE]

(* The results of a scan that could not be ingested are counted still.       *)
RunRecord(s) ==
  [FailedRun(s) EXCEPT !.status = IF outcome[s] = "ok" THEN "succeeded" ELSE "failed",
                       !.counted = outcome[s] \in {"ok", "ingestion"},
                       !.refers = (outcome[s] = "ok")]

Tally(records, Test(_)) == Cardinality({k \in DOMAIN records : Test(records[k])})

RunsSummary(records) ==
  [runs |-> Len(records),
   status |-> [st \in Statuses |-> Tally(records, LAMBDA r : r.status = st)],
   adapter |-> [a \in Adapters |-> Tally(records, LAMBDA r : AdapterOf[r.by] = a)],
   results |-> Tally(records, LAMBDA r : r.counted),
   normalized |-> Tally(records, LAMBDA r : r.refers)]

Init ==
  /\ raw = [n \in Names |-> NoFile] /\ leads = [n \in Names |-> NoFile]
  /\ index = << >>
  /\ runs \in {<< >>} \cup {<< FailedRun(s) >> : s \in Past} /\ summary = RunsSummary(runs)
  /\ dependencies = [components |-> {}, vulnerabilities |-> {}] /\ queued = {}
  /\ readiness = [a \in Adapters |-> "not_checked"]
  /\ staging = [root |-> FALSE, of |-> {}]
  /\ ingestLock = Nobody /\ reportLock = Nobody
  /\ pc = [p \in Processes |-> IF p \in Past THEN "done" ELSE "idle"]
  /\ seen = [p \in Processes |-> << >>]
  /\ outcome = [p \in Processes |-> IF p \in Past THEN "raised" ELSE "ok"]
  /\ removed = {} /\ kills = 0

Goto(p, place) == pc' = [pc EXCEPT ![p] = place]
Ends(p, result) == outcome' = [outcome EXCEPT ![p] = result]
NameOf(p) == IF p \in Imports THEN SourceOf[p] ELSE AdapterOf[p]

(* What the layout allows depends on the adapter's raw output being there.   *)
Present(present) == {w \in Worlds : (w.output = "present") = present}
LayoutVerdicts == [present \in BOOLEAN |-> {ExecutionLayout(w) : w \in Present(present)}]
GateVerdicts == [present \in BOOLEAN |-> {Executable(w) : w \in Present(present)}]
Evaluations ==
  [present \in BOOLEAN |->
     {[state |-> State(w), accepted |-> Accepted(Report(w)), persistent |-> PersistenceSafe(w)] :
        w \in Present(present)}]

HasRaw(a) == raw[a] # NoFile

(***************************************************************************)
(* gra-scan --readiness                                                     *)
(***************************************************************************)

CheckReadiness(c) ==
  /\ c \in Checks /\ pc[c] = "idle"
  /\ \E e \in Evaluations[HasRaw(AdapterOf[c])] :
       /\ Ends(c, CASE ~e.accepted -> "unevaluated"
                    [] e.accepted /\ e.state \in ReadyStates -> "ok"
                    [] OTHER -> "blocked")
       /\ readiness' = IF e.accepted /\ e.persistent
                       THEN [readiness EXCEPT ![AdapterOf[c]] = e.state] ELSE readiness
  /\ Goto(c, "done")
  /\ UNCHANGED << raw, leads, index, dependencies, queued, runs, summary, staging,
                  ingestLock, reportLock,
                  seen, removed, kills >>

(***************************************************************************)
(* gra-scan --execute: the checks, the container, the publication           *)
(***************************************************************************)

RunArtifactsExist(record) ==
  record.refers => leads[AdapterOf[record.by]] # NoFile /\ index # << >>

\* _load_existing refuses a report that takes no further record.
RoomIn(records) == Len(records) < MaxRuns

(* A success counts even when its files are gone; without one, every record  *)
(* of another adapter must still have its files.                             *)
Preflight(s) ==
  /\ s \in Scans /\ pc[s] = "idle"
  /\ \E layout \in LayoutVerdicts[HasRaw(AdapterOf[s])] :
       LET a == AdapterOf[s]
           mine == \E k \in DOMAIN runs :
                     runs[k].status = "succeeded" /\ AdapterOf[runs[k].by] = a
           intact == \A k \in DOMAIN runs : RunArtifactsExist(runs[k])
       IN  IF layout /\ RoomIn(runs) /\ ~mine /\ intact /\ ~HasRaw(a) /\ leads[a] = NoFile
           THEN Goto(s, "execute") /\ UNCHANGED outcome
           ELSE Goto(s, "done") /\ Ends(s, "refused")
  /\ UNCHANGED << artifacts, staging, ingestLock, reportLock, seen, kills >>

(* execute_scan looks again at the layout, the machine and the raw output,   *)
(* then creates the staging root.                                            *)
PassGate(s) ==
  /\ s \in Scans /\ pc[s] = "execute"
  /\ \E open \in GateVerdicts[HasRaw(AdapterOf[s])] :
       IF open /\ ~HasRaw(AdapterOf[s])
       THEN Goto(s, "stage") /\ staging' = [staging EXCEPT !.root = TRUE] /\ UNCHANGED outcome
       ELSE Goto(s, "record") /\ Ends(s, "raised") /\ UNCHANGED staging
  /\ UNCHANGED << artifacts, ingestLock, reportLock, seen, kills >>

(* The staging root may have gone: a scan that ends removes it when empty.   *)
MakeStaging(s) ==
  /\ s \in Scans /\ pc[s] = "stage"
  /\ IF staging.root
     THEN /\ staging' = [staging EXCEPT !.of = @ \cup {s}]
          /\ Goto(s, "scan") /\ UNCHANGED outcome
     ELSE Goto(s, "record") /\ Ends(s, "raised") /\ UNCHANGED staging
  /\ UNCHANGED << artifacts, ingestLock, reportLock, seen, kills >>

RemoveStaging(s) ==
  staging' = [root |-> staging.of # {s}, of |-> staging.of \ {s}]

(* The engine cannot be run, or SIGTERM, SIGHUP or an interrupt arrives.     *)
ContainerRaises(s) ==
  /\ s \in Scans /\ pc[s] = "scan"
  /\ RemoveStaging(s)
  /\ Goto(s, "record") /\ Ends(s, "raised")
  /\ UNCHANGED << artifacts, ingestLock, reportLock, seen, kills >>

(* A limit is exceeded, the exit code means failure, or the output is        *)
(* missing, unexpected, invalid or too much: nothing is retained.            *)
ContainerFails(s) ==
  /\ s \in Scans /\ pc[s] = "scan"
  /\ RemoveStaging(s)
  /\ Goto(s, "record") /\ Ends(s, "execution")
  /\ UNCHANGED << artifacts, ingestLock, reportLock, seen, kills >>

\* Mutant of Unpublished: the output is moved over what is there.
UnpublishedAnyway(a) == TRUE

(* os.link fails where the name exists.                                      *)
Unpublished(a) == ~HasRaw(a)

PublishOutput(s) ==
  /\ s \in Scans /\ pc[s] = "scan"
  /\ RemoveStaging(s)
  /\ IF Unpublished(AdapterOf[s])
     THEN /\ raw' = [raw EXCEPT ![AdapterOf[s]] = s]
          /\ Goto(s, "ingest") /\ UNCHANGED outcome
     ELSE Goto(s, "record") /\ Ends(s, "execution") /\ UNCHANGED raw
  /\ UNCHANGED << leads, index, dependencies, queued, runs, summary, readiness, ingestLock,
                  reportLock,
                  seen, removed, kills >>

(***************************************************************************)
(* Ingestion, of a scan's own output or by gra-ingest                       *)
(***************************************************************************)

(* A scan that could not ingest records that; gra-ingest ends by a traceback.*)
IngestionFails(p) ==
  /\ Ends(p, "ingestion")
  /\ Goto(p, IF p \in Scans THEN "record" ELSE "done")

PlanImport(i) ==
  /\ i \in Imports /\ pc[i] = "idle"
  /\ \/ Goto(i, "ingest") /\ UNCHANGED outcome
     \/ Goto(i, "done") /\ Ends(i, "refused")
  /\ UNCHANGED << artifacts, staging, ingestLock, reportLock, seen, kills >>

TakeIngestLock(p) ==
  /\ pc[p] = "ingest" /\ ingestLock = Nobody
  /\ ingestLock' = p
  /\ Goto(p, IF p \in Imports THEN "normalize" ELSE "copied")
  /\ UNCHANGED << artifacts, staging, reportLock, seen, outcome, kills >>

IngestLockTimesOut(p) ==
  /\ pc[p] = "ingest" /\ ingestLock # Nobody
  /\ IngestionFails(p)
  /\ UNCHANGED << artifacts, staging, ingestLock, reportLock, seen, kills >>

CopySource(i) ==
  /\ i \in Imports /\ pc[i] = "normalize"
  /\ raw' = [raw EXCEPT ![NameOf(i)] = SourceOf[i]]
  /\ Goto(i, "copied")
  /\ UNCHANGED << leads, index, dependencies, queued, runs, summary, readiness, staging,
                  ingestLock,
                  reportLock, seen, outcome, removed, kills >>

Normalize(p) ==
  /\ pc[p] = "copied"
  /\ IF p \in Scans /\ leads[NameOf(p)] # NoFile
     THEN IngestionFails(p) /\ ingestLock' = Nobody /\ UNCHANGED leads
     ELSE /\ leads' = [leads EXCEPT ![NameOf(p)] = raw[NameOf(p)]]
          /\ Goto(p, "normalized") /\ UNCHANGED << ingestLock, outcome >>
  /\ UNCHANGED << raw, index, dependencies, queued, runs, summary, readiness, staging,
                  reportLock, seen,
                  removed, kills >>

LoadIndex(p) ==
  /\ pc[p] = "normalized"
  /\ seen' = [seen EXCEPT ![p] = index]
  /\ Goto(p, "indexing")
  /\ UNCHANGED << artifacts, staging, ingestLock, reportLock, outcome, kills >>

HasPosture(p) == NameOf(p) \in Boms \cup Advisories

(* The counts of an entry are of the results in memory, made from the raw    *)
(* output, even when somebody has deleted the normalized file since.         *)
AppendEntry(p) ==
  /\ pc[p] = "indexing"
  /\ index' = Append(seen[p], [name |-> NameOf(p), bytes |-> raw[NameOf(p)]])
  /\ seen' = [seen EXCEPT ![p] = << >>]
  /\ Goto(p, IF HasPosture(p) THEN "posture" ELSE "indexed")
  /\ UNCHANGED << raw, leads, dependencies, queued, runs, summary, readiness, staging,
                  ingestLock,
                  reportLock, outcome, removed, kills >>

(* A bill of materials replaces what was known, the vulnerabilities other    *)
(* scanners reported included; a scanner's results replace its earlier ones. *)
WritePosture(p) ==
  /\ pc[p] = "posture"
  /\ dependencies' =
       LET b == raw[NameOf(p)] IN
       IF NameOf(p) \in Boms THEN [components |-> {b}, vulnerabilities |-> {b}]
       ELSE [components |-> dependencies.components \cup {b},
             vulnerabilities |-> (dependencies.vulnerabilities \ Advisories) \cup {b}]
  /\ Goto(p, "targets")
  /\ UNCHANGED << raw, leads, index, queued, runs, summary, readiness, staging, ingestLock,
                  reportLock,
                  seen, outcome, removed, kills >>

(* Every vulnerability of the file gets a target, unless it has one.         *)
AppendTargets(p) ==
  /\ pc[p] = "targets"
  /\ queued' = queued \cup dependencies.vulnerabilities
  /\ Goto(p, "indexed")
  /\ UNCHANGED << raw, leads, index, dependencies, runs, summary, readiness, staging,
                  ingestLock,
                  reportLock, seen, outcome, removed, kills >>

(* Reading or writing dependencies.json, or a targets.json that cannot be    *)
(* balanced, raises: the entry in the index stays.                           *)
PostureFails(p) ==
  /\ pc[p] \in {"posture", "targets"}
  /\ IngestionFails(p) /\ ingestLock' = Nobody
  /\ UNCHANGED << artifacts, staging, reportLock, seen, kills >>

ReleaseIngestLock(p) ==
  /\ pc[p] = "indexed"
  /\ ingestLock' = Nobody
  /\ Goto(p, IF p \in Scans THEN "record" ELSE "event")
  /\ UNCHANGED << artifacts, staging, reportLock, seen, outcome, kills >>

(***************************************************************************)
(* The record of the scan, and the end of the command                       *)
(***************************************************************************)

\* What a scan that raised while reporting still ends with.
ReportingFails(s) ==
  outcome' = [outcome EXCEPT ![s] = IF @ = "raised" THEN "raised" ELSE "reporting"]

TakeReportLock(s) ==
  /\ pc[s] = "record" /\ reportLock = Nobody
  /\ reportLock' = s
  /\ seen' = [seen EXCEPT ![s] = runs]
  /\ Goto(s, "appending")
  /\ UNCHANGED << artifacts, staging, ingestLock, outcome, kills >>

ReportLockTimesOut(s) ==
  /\ pc[s] = "record" /\ reportLock # Nobody
  /\ ReportingFails(s) /\ Goto(s, "event")
  /\ UNCHANGED << artifacts, staging, ingestLock, reportLock, seen, kills >>

(* Every record, this one included, must have its files.                     *)
AppendRun(s) ==
  /\ pc[s] = "appending"
  /\ LET report == Append(seen[s], RunRecord(s)) IN
     IF RoomIn(seen[s]) /\ \A k \in DOMAIN report : RunArtifactsExist(report[k])
     THEN runs' = report /\ summary' = RunsSummary(report) /\ UNCHANGED outcome
     ELSE ReportingFails(s) /\ UNCHANGED << runs, summary >>
  /\ reportLock' = Nobody
  /\ seen' = [seen EXCEPT ![s] = << >>]
  /\ Goto(s, "event")
  /\ UNCHANGED << raw, leads, index, dependencies, queued, readiness, staging, ingestLock,
                  removed, kills >>

(* The command event is a log of its own; failing to append it only costs    *)
(* a success its exit status.                                                *)
AppendEvent(p) ==
  /\ pc[p] = "event"
  /\ Goto(p, "done")
  /\ \/ UNCHANGED outcome
     \/ outcome[p] = "ok" /\ Ends(p, "event")
  /\ UNCHANGED << artifacts, staging, ingestLock, reportLock, seen, kills >>

ExitStatus(p) ==
  CASE outcome[p] = "ok" -> 0
    [] outcome[p] = "blocked" -> 1
    [] outcome[p] = "execution" -> 1
    [] outcome[p] \in {"ingestion", "event"} /\ p \in Imports -> 1
    [] OTHER -> 2

(***************************************************************************)
(* What else happens to the run                                             *)
(***************************************************************************)

Remove(n) ==
  /\ leads[n] # NoFile /\ n \notin removed
  /\ leads' = [leads EXCEPT ![n] = NoFile]
  /\ removed' = removed \cup {n}
  /\ UNCHANGED << raw, index, dependencies, queued, runs, summary, readiness, staging,
                  ingestLock,
                  reportLock, pc, seen, outcome, kills >>

Kill(p) ==
  /\ kills < MaxKills
  /\ pc[p] \notin {"idle", "done", "killed"}
  /\ Goto(p, "killed")
  /\ kills' = kills + 1
  /\ UNCHANGED << artifacts, staging, ingestLock, reportLock, seen, outcome >>

Next ==
  \/ \E p \in Processes :
       \/ CheckReadiness(p)
       \/ Preflight(p) \/ PassGate(p) \/ MakeStaging(p)
       \/ ContainerRaises(p) \/ ContainerFails(p) \/ PublishOutput(p)
       \/ PlanImport(p) \/ TakeIngestLock(p) \/ IngestLockTimesOut(p) \/ CopySource(p)
       \/ Normalize(p) \/ LoadIndex(p) \/ AppendEntry(p)
       \/ WritePosture(p) \/ AppendTargets(p) \/ PostureFails(p) \/ ReleaseIngestLock(p)
       \/ TakeReportLock(p) \/ ReportLockTimesOut(p) \/ AppendRun(p)
       \/ AppendEvent(p) \/ Kill(p)
  \/ \E n \in Names : Remove(n)

Spec == Init /\ [][Next]_vars

(***************************************************************************)
(* Properties                                                               *)
(***************************************************************************)

(* What gra-validate asks of an entry of the index: its files are there and  *)
(* its counts are those of the normalized file.                              *)
EntryAccepted(entry) ==
  raw[entry.name] # NoFile /\ leads[entry.name] = entry.bytes

Succeeded(a) == {k \in DOMAIN runs : runs[k].status = "succeeded" /\ AdapterOf[runs[k].by] = a}

(* What it asks of scanner-runs.json, as far as nobody deleted the files.     *)
RunsAccepted ==
  /\ Len(runs) <= MaxRuns /\ summary = RunsSummary(runs)
  /\ \A k \in DOMAIN runs : AdapterOf[runs[k].by] \notin removed => RunArtifactsExist(runs[k])

BackedRun(record) ==
  LET s == record.by
      a == AdapterOf[s]
      entry == [name |-> a, bytes |-> s]
  IN  /\ Succeeded(a) = {k \in DOMAIN runs : runs[k] = record}
      /\ raw[a] = s
      /\ \E k \in DOMAIN index : index[k] = entry
      /\ a \notin removed => EntryAccepted(entry)

(* Evidence of a scan is immutable (bin/gra-scan:147, scanner_runner.py:323): *)
(* the one success an adapter has in a run keeps the raw output its container *)
(* produced, a normalized file made from it and an entry in the index, while  *)
(* other scans, imports and dead processes work on the same files; and a scan *)
(* that exits with 0 has that success recorded, in a report gra-validate      *)
(* accepts.                                                                   *)
SuccessIsBacked ==
  /\ RunsAccepted
  /\ \A k \in DOMAIN runs : runs[k].status = "succeeded" => BackedRun(runs[k])
  /\ \A s \in Scans :
       pc[s] = "done" /\ ExitStatus(s) = 0 =>
         \E k \in DOMAIN runs : runs[k].by = s /\ runs[k].status = "succeeded"

(* The readiness evaluator passes its own report to the validator before it   *)
(* returns it (scanner_readiness.py:393): whatever the platform, the profile, *)
(* the paths, the engines and the environment are, the validator accepts it,  *)
(* so gra-scan --readiness answers and never fails with its own report.       *)
NoEvaluationFails ==
  \A c \in Checks : outcome[c] # "unevaluated"
===============================================================================
