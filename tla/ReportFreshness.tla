--------------------------- MODULE ReportFreshness ---------------------------
(***************************************************************************)
(* The derived reports of a run and report-freshness.json, the sidecar that *)
(* records what each of them was made from: lib/report_freshness.py, as the *)
(* seven commands that produce a tracked report use it.  A producer         *)
(* captures the state of its inputs, renders, replaces its report, checks   *)
(* that no input changed meanwhile and replaces its record under a lock     *)
(* directory; any reader may assess at any time what is still current.      *)
(*                                                                         *)
(* Content is a version number: no file returns to content it had before,   *)
(* and a file somebody creates is not removed again.  A report's two files  *)
(* are one, and a collection of files has one member.                       *)
(***************************************************************************)
EXTENDS Naturals, Sequences, FiniteSets

CONSTANTS
  Sources,     \* the input files in play, a subset of SourceNames
  Original,    \* those that exist at the beginning
  Producers,   \* the operators' sessions
  Restorers,   \* those that run the whole regeneration order
  Commands,    \* the artifacts of which the others produce one
  Nobody,      \* no session
  MaxEdits,    \* bound on the edits of sources
  MaxKills     \* bound on the commands killed

Artifacts ==
  {"sarif", "store_import_state", "issue_publication_plan", "metrics", "benchmark",
   "evidence_graph", "dashboard"}

\* Mutant of RegenerationOrder: metrics are not produced a second time.
ShortOrder ==
  << "sarif", "issue_publication_plan", "store_import_state", "metrics", "evidence_graph",
     "dashboard", "benchmark", "dashboard" >>

(* The documented order, by the artifact each command produces.              *)
RegenerationOrder ==
  << "sarif", "issue_publication_plan", "store_import_state", "metrics", "evidence_graph",
     "dashboard", "benchmark", "metrics", "dashboard" >>

(* The files that producers fingerprint by content, whoever writes them.     *)
StaticContent ==
  [sarif |-> {"findings"},
   store_import_state |-> {"findings", "targets", "scanner_index", "issue_ledger", "posture"},
   issue_publication_plan |->
     {"findings", "chains", "proofs", "validation", "traces", "known_findings", "remediation"},
   metrics |->
     {"findings", "targets", "validation", "chains", "proofs", "traces", "gapfill", "dry_run",
      "issue_ledger", "workflow", "scanner_index", "issue_publication_plan"},
   benchmark |-> {"findings", "proofs", "issue_ledger", "dry_run"},
   evidence_graph |->
     {"findings", "targets", "scanner_index", "chains", "proofs", "validation", "traces",
      "remediation", "workflow", "issue_publication_plan"},
   dashboard |->
     {"findings", "targets", "scanner_index", "posture", "gapfill", "remediation",
      "known_findings", "dry_run", "metrics", "benchmark", "evidence_graph"}]

(* The files whose presence alone is recorded, to avoid a cycle of digests.  *)
StaticPresence ==
  [a \in Artifacts |->
     CASE a = "metrics" -> {"evidence_graph", "benchmark"}
       [] a = "benchmark" -> {"metrics", "evidence_graph", "dashboard", "sarif"}
       [] a = "evidence_graph" -> {"metrics"}
       [] OTHER -> {}]

(* Collections of files: declared only as far as their members exist.        *)
Collections ==
  [a \in Artifacts |->
     CASE a = "metrics" -> {"readiness", "decisions"}
       [] a \in {"benchmark", "evidence_graph"} -> {"patch_validations"}
       [] a = "issue_publication_plan" -> {"patch_validations", "drafts"}
       [] OTHER -> {}]

SourceNames ==
  (UNION {StaticContent[a] \cup Collections[a] : a \in Artifacts}) \ Artifacts

ASSUME FreshnessAssumption ==
  /\ Sources \subseteq SourceNames
  /\ Original \subseteq Sources /\ "findings" \in Original
  /\ Restorers \subseteq Producers /\ Commands \subseteq Artifacts
  /\ Nobody \notin Producers
  /\ MaxEdits \in Nat /\ MaxKills \in Nat

Files == Sources \cup Artifacts
Required == {"findings"}
Absent == 0

(* The benchmark scans every report for secrets, the other derived ones only *)
(* as far as they exist.                                                     *)
Scanned(a) == IF a = "benchmark" THEN Sources ELSE {}
Peers(a) == IF a = "benchmark" THEN Artifacts \ {"benchmark"} ELSE {}

Content(a) == (StaticContent[a] \cup Collections[a] \cup Scanned(a)) \cap Files

VARIABLES
  file,        \* the version of each file, or Absent
  edits,       \* how often sources were edited
  sidecar,     \* report-freshness.json: whether it exists, and its records
  lock,        \* who made the lock directory
  pc, queue,   \* where each session is, and the artifacts it still has to produce
  stage,       \* "init" or "update": what the session takes the lock for
  captured,    \* the record it is about to make
  loaded,      \* the records it read under the lock
  view,        \* the content it rendered from
  made,        \* the content each report on disk was rendered from
  calm,        \* the sessions since whose beginning nobody else changed a file
  overlapped,  \* the artifacts two sessions have produced at the same time
  kills
vars == << file, edits, sidecar, lock, pc, queue, stage, captured, loaded, view, made,
           calm, overlapped, kills >>

NoRecord == [content |-> << >>, present |-> {}, absent |-> {}]
IsRecord(r) == r.content # << >>
NoRecords == [a \in Artifacts |-> NoRecord]

Ended == {"idle", "done", "failed", "killed"}
Art(p) == Head(queue[p])

-------------------------------------------------------------------------------
(* Dependencies                                                                *)

Present(f) == file[f] # Absent

(* artifact_dependencies and _benchmark_report_dependencies: what a record made *)
(* now declares, with the state of each file.                                   *)
Capture(a) ==
  LET dynamic == (Collections[a] \cup Scanned(a)) \ StaticContent[a]
      content == {f \in Content(a) : f \in dynamic => Present(f)}
      presence == StaticPresence[a] \cup {f \in Peers(a) : Present(f)}
  IN [content |-> [f \in content |-> file[f]],
      present |-> {f \in presence : Present(f)},
      absent  |-> {f \in presence : ~Present(f)}]

(* _current_state of every dependency is what the record says.                  *)
Unchanged(r) ==
  /\ \A f \in DOMAIN r.content : file[f] = r.content[f]
  /\ \A f \in r.present : Present(f)
  /\ \A f \in r.absent : ~Present(f)

(* _assess_record                                                               *)
Missing(a, r) ==
  \/ ~Present(a)
  \/ \E f \in DOMAIN r.content : ~Present(f) /\ (r.content[f] # Absent \/ f \in Required)
  \/ \E f \in r.present : ~Present(f)

Stale(r) ==
  \/ \E f \in DOMAIN r.content : Present(f) /\ file[f] # r.content[f]
  \/ \E f \in r.absent : Present(f)

Assessed(a) ==
  LET r == sidecar.records[a]
  IN IF ~IsRecord(r) THEN "not_applicable"
     ELSE IF Missing(a, r) THEN "missing_dependency"
     ELSE IF Stale(r) THEN "stale"
     ELSE "fresh"

-------------------------------------------------------------------------------

Init ==
  /\ file = [f \in Files |-> IF f \in Original THEN 1 ELSE Absent]
  /\ edits = 0
  /\ sidecar = [exists |-> FALSE, records |-> NoRecords]
  /\ lock = Nobody
  /\ pc = [p \in Producers |-> "idle"]
  /\ queue \in {q \in [Producers -> {RegenerationOrder} \cup {<< a >> : a \in Commands}] :
                 \A p \in Producers : p \in Restorers <=> q[p] = RegenerationOrder}
  /\ stage = [p \in Producers |-> "init"]
  /\ captured = [p \in Producers |-> NoRecord]
  /\ loaded = [p \in Producers |-> NoRecords]
  /\ view = [p \in Producers |-> << >>]
  /\ made = [a \in Artifacts |-> << >>]
  /\ calm = {} /\ overlapped = {} /\ kills = 0

\* A command that ends forgets what it held in memory.
Forget(p) ==
  /\ captured' = [captured EXCEPT ![p] = NoRecord]
  /\ loaded' = [loaded EXCEPT ![p] = NoRecords]
  /\ view' = [view EXCEPT ![p] = << >>]

Goto(p, place) == pc' = [pc EXCEPT ![p] = place]
Disturb(p) == calm' = calm \cap {p}

\* The next command of a session.
Start(p) ==
  /\ pc[p] = "idle" /\ queue[p] # << >>
  /\ Goto(p, "lock")
  /\ stage' = [stage EXCEPT ![p] = "init"]
  /\ calm' = IF queue[p] = RegenerationOrder THEN calm \cup {p} ELSE calm
  /\ overlapped' = overlapped \cup
       {Art(p) : q \in {q \in Producers \ {p} : pc[q] \notin Ended /\ Art(q) = Art(p)}}
  /\ UNCHANGED << file, edits, sidecar, lock, queue, captured, loaded, view, made, kills >>

Fail(p) ==
  /\ Goto(p, "failed") /\ Forget(p)
  /\ UNCHANGED << file, edits, sidecar, lock, queue, stage, made, calm, overlapped, kills >>

-------------------------------------------------------------------------------
(* The lock and the sidecar                                                    *)

\* Under the lock the command reads the sidecar.
Locked(p) ==
  /\ lock' = p
  /\ loaded' = [loaded EXCEPT ![p] = sidecar.records]
  /\ Goto(p, IF stage[p] = "init" /\ sidecar.exists THEN "release" ELSE "write sidecar")
  /\ UNCHANGED << file, edits, sidecar, queue, stage, captured, view, made, calm, overlapped, kills >>

\* Mutant of TakeLock: a lock directory that exists is taken for one's own.
TakeLockAnyway(p) == pc[p] = "lock" /\ Locked(p)

TakeLock(p) == pc[p] = "lock" /\ lock = Nobody /\ Locked(p)

\* The directory was there for ten seconds; nobody removes that of a dead command.
GiveUp(p) == pc[p] = "lock" /\ lock # Nobody /\ Fail(p)

\* initialize_freshness writes an empty sidecar, _update_sidecar the new record.
WriteSidecar(p) ==
  /\ pc[p] = "write sidecar"
  /\ sidecar' = [exists |-> TRUE,
                 records |-> IF stage[p] = "init" THEN NoRecords
                             ELSE [loaded[p] EXCEPT ![Art(p)] = captured[p]]]
  /\ Disturb(p)
  /\ Goto(p, "release")
  /\ UNCHANGED << file, edits, lock, queue, stage, captured, loaded, view, made,
                  overlapped, kills >>

\* gra-issues has its plan in memory before it looks at the inputs.
RendersFirst(a) == a = "issue_publication_plan"
Snapshots(a) == a \notin {"sarif", "store_import_state"}

Release(p) ==
  /\ pc[p] = "release"
  /\ lock' = Nobody
  /\ Goto(p, CASE stage[p] = "init" /\ RendersFirst(Art(p)) -> "render"
               [] stage[p] = "init" /\ ~RendersFirst(Art(p)) -> "preflight"
               [] stage[p] = "update" /\ Snapshots(Art(p)) -> "snapshot"
               [] OTHER -> "written")
  /\ UNCHANGED << file, edits, sidecar, queue, stage, captured, loaded, view, made, calm,
                  overlapped, kills >>

-------------------------------------------------------------------------------
(* Producing a report                                                          *)

Preflight(p) ==
  /\ pc[p] = "preflight" /\ \A f \in Required : Present(f)
  /\ captured' = [captured EXCEPT ![p] = Capture(Art(p))]
  /\ Goto(p, IF RendersFirst(Art(p)) THEN "write" ELSE "render")
  /\ UNCHANGED << file, edits, sidecar, lock, queue, stage, loaded, view, made, calm,
                  overlapped, kills >>

RefuseMissing(p) == pc[p] = "preflight" /\ (\E f \in Required : ~Present(f)) /\ Fail(p)

Render(p) ==
  /\ pc[p] = "render"
  /\ view' = [view EXCEPT ![p] = [f \in Content(Art(p)) |-> file[f]]]
  /\ Goto(p, IF RendersFirst(Art(p)) THEN "preflight" ELSE "write")
  /\ UNCHANGED << file, edits, sidecar, lock, queue, stage, captured, loaded, made, calm,
                  overlapped, kills >>

Replace(p, place) ==
  /\ file' = [file EXCEPT ![Art(p)] = @ + 1]
  /\ made' = [made EXCEPT ![Art(p)] = view[p]]
  /\ Disturb(p)
  /\ Goto(p, place)
  /\ UNCHANGED << edits, sidecar, lock, queue, captured, loaded, view, overlapped, kills >>

Write(p) == pc[p] = "write" /\ Replace(p, "record") /\ UNCHANGED stage

\* Mutant of Record: the inputs are captured when the report is there.
RecordLate(p) ==
  /\ pc[p] = "record" /\ Present(Art(p))
  /\ captured' = [captured EXCEPT ![p] = Capture(Art(p))]
  /\ stage' = [stage EXCEPT ![p] = "update"]
  /\ Goto(p, "lock")
  /\ UNCHANGED << file, edits, sidecar, lock, queue, loaded, view, made, calm,
                  overlapped, kills >>

\* record_artifact validates the snapshot of the preflight before it takes the lock.
Record(p) ==
  /\ pc[p] = "record" /\ Unchanged(captured[p]) /\ Present(Art(p))
  /\ stage' = [stage EXCEPT ![p] = "update"]
  /\ Goto(p, "lock")
  /\ UNCHANGED << file, edits, sidecar, lock, queue, captured, loaded, view, made, calm,
                  overlapped, kills >>

RefuseChanged(p) == pc[p] = "record" /\ ~Unchanged(captured[p]) /\ Fail(p)

\* The report is replaced once more, with the assessment of this moment in it.
Snapshot(p) ==
  /\ pc[p] = "snapshot"
  /\ Replace(p, "written") /\ UNCHANGED stage

\* gra-issues --plan writes the ledger last.
Finish(p) ==
  /\ pc[p] = "written"
  /\ IF RendersFirst(Art(p)) /\ "issue_ledger" \in Sources
     THEN file' = [file EXCEPT !["issue_ledger"] = @ + 1] /\ Disturb(p)
     ELSE UNCHANGED << file, calm >>
  /\ queue' = [queue EXCEPT ![p] = Tail(@)]
  /\ Goto(p, IF Len(queue[p]) = 1 THEN "done" ELSE "idle") /\ Forget(p)
  /\ UNCHANGED << edits, sidecar, lock, stage, made, overlapped, kills >>

-------------------------------------------------------------------------------
(* The world around                                                            *)

\* An audit stage writes a source, or somebody removes an original one; the
\* ledger is only ever written by gra-issues.
EditSource(f) ==
  /\ f # "issue_ledger" /\ edits < MaxEdits
  /\ edits' = edits + 1
  /\ \/ f \in Original /\ Present(f) /\ file' = [file EXCEPT ![f] = Absent]
     \/ (f \in Original => Present(f)) /\ file' = [file EXCEPT ![f] = @ + 1]
  /\ calm' = {}
  /\ UNCHANGED << sidecar, lock, pc, queue, stage, captured, loaded, view, made, overlapped, kills >>

Kill(p) ==
  /\ pc[p] \notin Ended /\ kills < MaxKills
  /\ kills' = kills + 1
  /\ Goto(p, "killed") /\ Forget(p)
  /\ UNCHANGED << file, edits, sidecar, lock, queue, stage, made, calm, overlapped >>

Step(p) ==
  \/ Start(p) \/ TakeLock(p) \/ GiveUp(p) \/ WriteSidecar(p) \/ Release(p)
  \/ Preflight(p) \/ RefuseMissing(p) \/ Render(p) \/ Write(p)
  \/ Record(p) \/ RefuseChanged(p) \/ Snapshot(p) \/ Finish(p)

Next ==
  \/ \E p \in Producers : Step(p) \/ Kill(p)
  \/ \E f \in Sources : EditSource(f)

Spec == Init /\ [][Next]_vars

-------------------------------------------------------------------------------
(* Properties                                                                  *)

(* A report that is assessed as fresh was rendered from the content its inputs *)
(* have now, whatever changed while it was rendered or since; the plan, which  *)
(* is rendered before its inputs are captured, and reports that two sessions   *)
(* produced at the same time are left out.                                     *)
FreshMeansCurrent ==
  \A a \in Artifacts \ (overlapped \cup {"issue_publication_plan"}) :
    Assessed(a) = "fresh" =>
      \A f \in DOMAIN sidecar.records[a].content : made[a][f] = file[f]

(* "concurrent report producers do not lose one another's records"             *)
(* (report_freshness.py:452): a record only ever changes into the one that a   *)
(* producer of that report made, whoever initializes or updates the sidecar at *)
(* the same time.                                                              *)
RecordsSurvive ==
  [][\A a \in Artifacts : sidecar'.records[a] # sidecar.records[a] =>
       \E p \in Producers :
         /\ pc[p] = "write sidecar" /\ stage[p] = "update" /\ Art(p) = a
         /\ sidecar'.records[a] = captured[p]]_vars

(* The documented order converges: whatever state the reports and the sidecar  *)
(* were in, a session that ran all of it while nobody else changed a file      *)
(* leaves every report fresh.                                                  *)
OrderConverges ==
  \A p \in Restorers \cap calm : pc[p] = "done" => \A a \in Artifacts : Assessed(a) = "fresh"
===============================================================================
