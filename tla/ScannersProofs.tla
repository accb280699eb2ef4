---------------------------- MODULE ScannersProofs ----------------------------
(***************************************************************************)
(* Proofs about the scanner pipeline, for any scans, checks and imports, any *)
(* worlds they may find, and any number of processes killed.                *)
(***************************************************************************)
EXTENDS Scanners, SequenceTheorems, TLAPS

-----------------------------------------------------------------------------
(* Readiness: the report of every world passes the validator. *)

\* The fields of a report, read off.
LEMMA ReportFields ==
  ASSUME NEW w \in World, NEW r, r = Report(w)
  PROVE  /\ r.support = Support(w.environment) /\ r.profile = w.profile /\ r.state = State(w)
         /\ r.policy = w.policy /\ r.environment = w.environment
         /\ r.reasons = IF Reasons(w) = {} THEN {"ready"} ELSE Reasons(w)
         /\ r.controls = Controls(w.profile, w.environment)
         /\ r.gvisor_available = w.runsc /\ r.selected = Selected(w) /\ r.paths = Layout(w)
         /\ r.environment_present = w.credentials /\ r.network_disabled = (w.policy = "disabled")
         /\ r.local_available = (Selected(w) # "none")
         /\ r.network_disabled <=> w.policy = "disabled"
         /\ r.local_only <=> ~w.remote
         /\ r.candidate_available <=> Candidates(w) # {}
         /\ r.probe_executed <=> Probing(w) /\ Candidates(w) # {}
         /\ r.healthy_available <=> Probing(w) /\ Healthy(w) # {}
         /\ r.local_available <=> Selected(w) # "none"
  BY DEF Report

LEMMA EngineFacts ==
  ASSUME NEW w \in World
  PROVE  /\ Stocked(w) \subseteq Healthy(w) /\ Healthy(w) \subseteq Candidates(w)
         /\ Selected(w) # "none" <=> Probing(w) /\ Stocked(w) # {}
  BY DEF Stocked, Healthy, Selected

\* What the report says of the engines agrees with the reasons for it.
LEMMA ReasonsAgree ==
  ASSUME NEW w \in World, NEW r, r = Report(w)
  PROVE  Reasons(w) = ExpectedReasons(r)
<1> SUFFICES ASSUME NEW x PROVE x \in Reasons(w) <=> x \in ExpectedReasons(r)
  OBVIOUS
<1>1. x \in RuntimeReasons(w) <=>
        \/ x = "runtime_missing" /\ ~r.candidate_available
        \/ x = "runtime_unavailable" /\ r.probe_executed /\ r.candidate_available
             /\ ~r.healthy_available
        \/ x = "image_not_local" /\ r.probe_executed /\ r.healthy_available
             /\ ~r.local_available
  BY ReportFields, EngineFacts DEF RuntimeReasons
<1>2. x \in Reasons(w) <=>
        \/ x \in RuntimeReasons(w)
        \/ x = "platform_unsupported" /\ Support(w.environment) = "unsupported"
        \/ x = "sandbox_unsupported" /\ ~Controls(w.profile, w.environment)
        \/ x = "network_policy_unsupported" /\ w.policy # "disabled"
        \/ x = "target_unsafe" /\ ~Layout(w).target_safe
        \/ x = "reports_path_unsafe" /\ ~Layout(w).reports_safe
        \/ x = "output_path_unsafe" /\ ~Layout(w).output_safe
        \/ x = "staging_path_unsafe" /\ ~Layout(w).staging_safe
        \/ x = "path_overlap" /\ Layout(w).overlap
        \/ x = "credential_environment_present" /\ w.credentials
        \/ x = "runtime_remote" /\ w.remote
        \/ x = "gvisor_missing" /\ w.profile = "gvisor" /\ ~w.runsc
        \/ x = "resource_limits_unavailable" /\ ~Controls(w.profile, w.environment)
  BY DEF Reasons, If
<1>3. x \in ExpectedReasons(r) <=>
        \/ x = "runtime_missing" /\ ~r.candidate_available
        \/ x = "runtime_unavailable" /\ r.probe_executed /\ r.candidate_available
             /\ ~r.healthy_available
        \/ x = "image_not_local" /\ r.probe_executed /\ r.healthy_available
             /\ ~r.local_available
        \/ x = "platform_unsupported" /\ r.support = "unsupported"
        \/ x = "sandbox_unsupported" /\ ~r.controls
        \/ x = "network_policy_unsupported" /\ ~r.network_disabled
        \/ x = "target_unsafe" /\ ~r.paths.target_safe
        \/ x = "reports_path_unsafe" /\ ~r.paths.reports_safe
        \/ x = "output_path_unsafe" /\ ~r.paths.output_safe
        \/ x = "staging_path_unsafe" /\ ~r.paths.staging_safe
        \/ x = "path_overlap" /\ r.paths.overlap
        \/ x = "credential_environment_present" /\ r.environment_present
        \/ x = "runtime_remote" /\ ~r.local_only
        \/ x = "gvisor_missing" /\ r.profile = "gvisor" /\ ~r.gvisor_available
        \/ x = "resource_limits_unavailable" /\ ~r.controls
  BY DEF ExpectedReasons, If
<1> QED BY <1>1, <1>2, <1>3, ReportFields

LEMMA NothingBlocks ==
  ASSUME NEW w \in World, Reasons(w) = {}
  PROVE  /\ Support(w.environment) # "unsupported" /\ Controls(w.profile, w.environment)
         /\ w.policy = "disabled" /\ Separate(Layout(w)) /\ ~w.credentials /\ ~w.remote
         /\ Probing(w) /\ Candidates(w) # {} /\ Healthy(w) # {} /\ Stocked(w) # {}
<1>1. /\ Support(w.environment) # "unsupported" /\ Controls(w.profile, w.environment)
      /\ w.policy = "disabled" /\ ~w.credentials /\ ~w.remote
      /\ Layout(w).target_safe /\ Layout(w).reports_safe /\ Layout(w).output_safe
      /\ Layout(w).staging_safe /\ ~Layout(w).overlap /\ RuntimeReasons(w) = {}
  BY DEF Reasons, If
<1>2. Separate(Layout(w)) /\ Probing(w)
  BY <1>1 DEF Separate, Probing
<1>3. Candidates(w) # {} /\ Healthy(w) # {} /\ Stocked(w) # {}
  BY <1>1, <1>2 DEF RuntimeReasons
<1> QED BY <1>1, <1>2, <1>3

LEMMA NoReasonIsReady ==
  ASSUME NEW w \in World
  PROVE  "ready" \notin Reasons(w)
  BY DEF Reasons, If, RuntimeReasons

LEMMA EveryReportIsAccepted ==
  ASSUME NEW w \in World
  PROVE  Accepted(Report(w))
<1> DEFINE r == Report(w)
<1>1. r = Report(w)
  OBVIOUS
<1> HIDE DEF r
<1>2. r.reasons \ {"ready"} = ExpectedReasons(r)
  BY <1>1, ReportFields, ReasonsAgree, NoReasonIsReady
<1>3. Support(w.environment) \in {"supported", "experimental", "unsupported"}
  BY DEF Support
<1>4. /\ r.support = Support(r.environment) /\ r.controls = Controls(r.profile, r.environment)
      /\ r.network_disabled = (r.policy = "disabled")
      /\ (r.selected # "none") = r.local_available
  BY <1>1, ReportFields
<1>5. /\ r.healthy_available => r.candidate_available
      /\ r.probe_executed => r.candidate_available
      /\ r.local_available => r.healthy_available
  BY <1>1, ReportFields, EngineFacts
<1>6. CASE Reasons(w) = {}
  <2>1. r.state = IF Support(w.environment) = "experimental" THEN "experimental" ELSE "ready"
    BY <1>1, <1>6, ReportFields, NothingBlocks DEF State
  <2>2. r.reasons = {"ready"} /\ r.state \in ReadyStates
    BY <1>1, <1>6, <2>1, ReportFields DEF ReadyStates
  <2>3. /\ r.network_disabled /\ r.controls /\ r.candidate_available /\ r.probe_executed
        /\ r.selected # "none" /\ r.local_only /\ r.local_available /\ Separate(r.paths)
        /\ ~r.environment_present
    BY <1>1, <1>6, ReportFields, NothingBlocks, EngineFacts
  <2>4. /\ r.state \in {"unsupported", "experimental"} => r.support = r.state
        /\ r.state = "ready" => r.support = "supported"
    BY <1>1, <1>3, <1>6, <2>1, ReportFields, NothingBlocks
  <2> QED BY <1>1, <1>2, <1>4, <1>5, <2>2, <2>3, <2>4 DEF Accepted
<1>7. CASE Reasons(w) # {}
  <2>1. r.state = IF Support(w.environment) = "unsupported" THEN "unsupported" ELSE "blocked"
    BY <1>1, <1>7, ReportFields DEF State
  <2>2. "ready" \notin r.reasons /\ r.state \notin ReadyStates
    BY <1>1, <1>7, <2>1, ReportFields, NoReasonIsReady DEF ReadyStates
  <2>3. /\ r.state \in {"unsupported", "experimental"} => r.support = r.state
        /\ r.state # "ready"
    BY <1>1, <2>1, ReportFields
  <2> QED BY <1>1, <1>2, <1>4, <1>5, <2>2, <2>3 DEF Accepted
<1> QED BY <1>6, <1>7
-----------------------------------------------------------------------------
(* The pipeline: the inductive invariant. *)

LockedPlaces == {"normalize", "copied", "normalized", "indexing", "posture", "targets", "indexed"}
ScanPlaces == {"execute", "stage", "scan", "record", "appending"}

\* Who works on the index or the runs has made the lock directory, and what it
\* has loaded is what is there.
LockInv ==
  \A p \in Processes :
    /\ pc[p] \in LockedPlaces => ingestLock = p
    /\ pc[p] = "appending" => reportLock = p
    /\ pc[p] = "indexing" => seen[p] = index
    /\ pc[p] = "appending" => seen[p] = runs
    /\ pc[p] \in ScanPlaces => p \in Scans
    /\ p \in Checks => pc[p] \in {"idle", "done"}

EntryOf(s) == [name |-> AdapterOf[s], bytes |-> s]
Indexed(s) == \E k \in DOMAIN index : index[k] = EntryOf(s)

\* Only a published output is normalized, and once only.
AdapterInv ==
  \A a \in Adapters :
    /\ raw[a] = NoFile => leads[a] = NoFile /\ a \notin removed
    /\ a \in removed => leads[a] = NoFile

\* The results of s are what its adapter's normalized file has, unless somebody
\* deleted that.
Kept(s) == raw[AdapterOf[s]] = s /\ (AdapterOf[s] \notin removed => leads[AdapterOf[s]] = s)

\* An import copies its source before anything reads the copy.
ImportInv ==
  \A i \in Imports : pc[i] \in LockedPlaces \ {"normalize"} => raw[SourceOf[i]] = SourceOf[i]

\* How far a scan that published its output has come.
OwnerInv ==
  \A s \in Scans :
    LET a == AdapterOf[s] IN
    /\ pc[s] \in {"ingest", "copied"} => raw[a] = s /\ leads[a] = NoFile /\ a \notin removed
    /\ pc[s] \in {"normalized", "indexing"} => Kept(s)
    /\ pc[s] \in {"posture", "targets", "indexed"} => Kept(s) /\ Indexed(s)
    /\ pc[s] \in {"record", "appending"} /\ outcome[s] = "ok" => Kept(s) /\ Indexed(s)
    /\ pc[s] \in {"event", "done"} /\ outcome[s] = "ok" =>
         \E k \in DOMAIN runs : runs[k].by = s /\ runs[k].status = "succeeded"

RunsInv ==
  /\ Len(runs) <= MaxRuns /\ summary = RunsSummary(runs)
  /\ \A k \in DOMAIN runs :
       /\ runs[k].refers <=> runs[k].status = "succeeded"
       /\ runs[k].counted \/ ~runs[k].refers
       /\ runs[k].status = "succeeded" => Kept(runs[k].by) /\ Indexed(runs[k].by)

IInv == TypeOK /\ LockInv /\ AdapterInv /\ ImportInv /\ OwnerInv /\ RunsInv /\ NoEvaluationFails

-----------------------------------------------------------------------------
(* The steps of one process. *)

Acts(p) ==
  \/ CheckReadiness(p)
  \/ Preflight(p) \/ PassGate(p) \/ MakeStaging(p)
  \/ ContainerRaises(p) \/ ContainerFails(p) \/ PublishOutput(p)
  \/ PlanImport(p) \/ TakeIngestLock(p) \/ IngestLockTimesOut(p) \/ CopySource(p)
  \/ Normalize(p) \/ LoadIndex(p) \/ AppendEntry(p)
  \/ WritePosture(p) \/ AppendTargets(p) \/ PostureFails(p) \/ ReleaseIngestLock(p)
  \/ TakeReportLock(p) \/ ReportLockTimesOut(p) \/ AppendRun(p)
  \/ AppendEvent(p) \/ Kill(p)

\* A process moves itself only.
LEMMA OwnMove ==
  ASSUME TypeOK, NEW p \in Processes, Acts(p)
  PROVE  /\ pc' = [pc EXCEPT ![p] = pc'[p]] /\ pc'[p] \in Places
         /\ outcome' = [outcome EXCEPT ![p] = outcome'[p]] /\ outcome'[p] \in Outcomes
<1>1. pc \in [Processes -> Places] /\ outcome \in [Processes -> Outcomes]
  BY DEF TypeOK
<1>2. \A x \in Places : Goto(p, x) => pc' = [pc EXCEPT ![p] = pc'[p]] /\ pc'[p] \in Places
  BY <1>1 DEF Goto
<1>3. \A x \in Outcomes : Ends(p, x) =>
        outcome' = [outcome EXCEPT ![p] = outcome'[p]] /\ outcome'[p] \in Outcomes
  BY <1>1 DEF Ends
<1>4. UNCHANGED outcome => outcome' = [outcome EXCEPT ![p] = outcome'[p]] /\ outcome'[p] \in Outcomes
  BY <1>1
<1>5. ReportingFails(p) => outcome' = [outcome EXCEPT ![p] = outcome'[p]] /\ outcome'[p] \in Outcomes
  BY <1>1 DEF ReportingFails, Outcomes
<1>6. pc' = [pc EXCEPT ![p] = pc'[p]] /\ pc'[p] \in Places
  BY <1>2 DEF Acts, 
    CheckReadiness, Preflight, PassGate, MakeStaging, ContainerRaises, ContainerFails, PublishOutput,
    PlanImport, TakeIngestLock, IngestLockTimesOut, CopySource, Normalize, LoadIndex, AppendEntry,
    WritePosture, AppendTargets, PostureFails, ReleaseIngestLock, TakeReportLock, ReportLockTimesOut,
    AppendRun, AppendEvent, Kill,
    IngestionFails, Places
<1>7. outcome' = [outcome EXCEPT ![p] = outcome'[p]] /\ outcome'[p] \in Outcomes
  BY <1>3, <1>4, <1>5 DEF Acts, 
    CheckReadiness, Preflight, PassGate, MakeStaging, ContainerRaises, ContainerFails, PublishOutput,
    PlanImport, TakeIngestLock, IngestLockTimesOut, CopySource, Normalize, LoadIndex, AppendEntry,
    WritePosture, AppendTargets, PostureFails, ReleaseIngestLock, TakeReportLock, ReportLockTimesOut,
    AppendRun, AppendEvent, Kill,
    IngestionFails, Outcomes
<1> QED BY <1>6, <1>7

LEMMA NameFacts ==
  ASSUME NEW p \in Processes
  PROVE  /\ NameOf(p) \in Names
         /\ p \in Imports => NameOf(p) = SourceOf[p] /\ NameOf(p) \notin Adapters /\ SourceOf[p] \in Bytes
         /\ p \in Scans => NameOf(p) = AdapterOf[p] /\ AdapterOf[p] \in Adapters /\ p \in Bytes
         /\ p \in Scans => p \notin Imports /\ p # NoFile
         /\ p \in Checks => p \notin Scans /\ p \notin Imports
         /\ p \in Scans \cup Imports \/ p \in Checks
  BY ScannersAssumption DEF Processes, NameOf, Names, Adapters, Bytes

\* Who has copied or published works on those bytes.
LEMMA OwnBytes ==
  ASSUME IInv, NEW p \in Processes, pc[p] \in LockedPlaces \ {"normalize"}
  PROVE  raw[NameOf(p)] = (IF p \in Scans THEN p ELSE SourceOf[p]) /\ raw[NameOf(p)] \in Bytes
<1>1. p \in Scans \/ p \in Imports
  BY NameFacts DEF IInv, LockInv, LockedPlaces
<1>2. CASE p \in Scans
  BY <1>2, NameFacts DEF IInv, OwnerInv, Kept, LockedPlaces
<1>3. CASE p \in Imports
  BY <1>3, NameFacts DEF IInv, ImportInv
<1> QED BY <1>1, <1>2, <1>3

\* The effects of a step on the files.
LEMMA FileEffects ==
  ASSUME TypeOK, NEW p \in Processes, Acts(p)
  PROVE  /\ removed' = removed
         /\ \/ raw' = raw
            \/ p \in Scans /\ pc[p] = "scan" /\ raw[AdapterOf[p]] = NoFile
                 /\ raw' = [raw EXCEPT ![AdapterOf[p]] = p] /\ pc'[p] = "ingest"
            \/ p \in Imports /\ pc[p] = "normalize"
                 /\ raw' = [raw EXCEPT ![SourceOf[p]] = SourceOf[p]] /\ pc'[p] = "copied"
         /\ \/ leads' = leads
            \/ pc[p] = "copied" /\ leads' = [leads EXCEPT ![NameOf(p)] = raw[NameOf(p)]]
                 /\ pc'[p] = "normalized" /\ raw' = raw
         /\ \/ index' = index
            \/ pc[p] = "indexing" /\ raw' = raw /\ leads' = leads
                 /\ index' = Append(seen[p], [name |-> NameOf(p), bytes |-> raw[NameOf(p)]])
                 /\ pc'[p] \in {"posture", "indexed"}
         /\ \/ runs' = runs /\ summary' = summary
            \/ pc[p] = "appending" /\ RoomIn(seen[p]) /\ pc'[p] = "event" /\ outcome' = outcome
                 /\ runs' = Append(seen[p], RunRecord(p)) /\ summary' = RunsSummary(runs')
                 /\ \A k \in DOMAIN runs' : RunArtifactsExist(runs'[k])
                 /\ UNCHANGED << raw, leads, index >>
<1> USE DEF artifacts
<1>0. pc \in [Processes -> Places]
  BY DEF TypeOK
<1>1. removed' = removed
  BY DEF Acts, 
    CheckReadiness, Preflight, PassGate, MakeStaging, ContainerRaises, ContainerFails, PublishOutput,
    PlanImport, TakeIngestLock, IngestLockTimesOut, CopySource, Normalize, LoadIndex, AppendEntry,
    WritePosture, AppendTargets, PostureFails, ReleaseIngestLock, TakeReportLock, ReportLockTimesOut,
    AppendRun, AppendEvent, Kill
<1>2. \/ raw' = raw
      \/ p \in Scans /\ pc[p] = "scan" /\ raw[AdapterOf[p]] = NoFile
           /\ raw' = [raw EXCEPT ![AdapterOf[p]] = p] /\ pc'[p] = "ingest"
      \/ p \in Imports /\ pc[p] = "normalize"
           /\ raw' = [raw EXCEPT ![SourceOf[p]] = SourceOf[p]] /\ pc'[p] = "copied"
  <2>1. CASE PublishOutput(p)
    BY <1>0, <2>1 DEF PublishOutput, Unpublished, HasRaw, Goto
  <2>2. CASE CopySource(p)
    BY <1>0, <2>2 DEF CopySource, NameOf, Goto
  <2>3. CASE ~PublishOutput(p) /\ ~CopySource(p)
    BY <2>3 DEF Acts, 
    CheckReadiness, Preflight, PassGate, MakeStaging, ContainerRaises, ContainerFails, PublishOutput,
    PlanImport, TakeIngestLock, IngestLockTimesOut, CopySource, Normalize, LoadIndex, AppendEntry,
    WritePosture, AppendTargets, PostureFails, ReleaseIngestLock, TakeReportLock, ReportLockTimesOut,
    AppendRun, AppendEvent, Kill
  <2> QED BY <2>1, <2>2, <2>3
<1>3. \/ leads' = leads
      \/ pc[p] = "copied" /\ leads' = [leads EXCEPT ![NameOf(p)] = raw[NameOf(p)]]
           /\ pc'[p] = "normalized" /\ raw' = raw
  <2>1. CASE Normalize(p)
    BY <1>0, <2>1 DEF Normalize, Goto
  <2>2. CASE ~Normalize(p)
    BY <2>2 DEF Acts, 
    CheckReadiness, Preflight, PassGate, MakeStaging, ContainerRaises, ContainerFails, PublishOutput,
    PlanImport, TakeIngestLock, IngestLockTimesOut, CopySource, Normalize, LoadIndex, AppendEntry,
    WritePosture, AppendTargets, PostureFails, ReleaseIngestLock, TakeReportLock, ReportLockTimesOut,
    AppendRun, AppendEvent, Kill
  <2> QED BY <2>1, <2>2
<1>4. \/ index' = index
      \/ pc[p] = "indexing" /\ raw' = raw /\ leads' = leads
           /\ index' = Append(seen[p], [name |-> NameOf(p), bytes |-> raw[NameOf(p)]])
           /\ pc'[p] \in {"posture", "indexed"}
  <2>1. CASE AppendEntry(p)
    BY <1>0, <2>1 DEF AppendEntry, Goto
  <2>2. CASE ~AppendEntry(p)
    BY <2>2 DEF Acts, 
    CheckReadiness, Preflight, PassGate, MakeStaging, ContainerRaises, ContainerFails, PublishOutput,
    PlanImport, TakeIngestLock, IngestLockTimesOut, CopySource, Normalize, LoadIndex, AppendEntry,
    WritePosture, AppendTargets, PostureFails, ReleaseIngestLock, TakeReportLock, ReportLockTimesOut,
    AppendRun, AppendEvent, Kill
  <2> QED BY <2>1, <2>2
<1>5. \/ runs' = runs /\ summary' = summary
      \/ pc[p] = "appending" /\ RoomIn(seen[p]) /\ pc'[p] = "event" /\ outcome' = outcome
           /\ runs' = Append(seen[p], RunRecord(p)) /\ summary' = RunsSummary(runs')
           /\ \A k \in DOMAIN runs' : RunArtifactsExist(runs'[k])
           /\ UNCHANGED << raw, leads, index >>
  <2>1. CASE AppendRun(p)
    BY <1>0, <2>1 DEF AppendRun, Goto
  <2>2. CASE ~AppendRun(p)
    BY <2>2 DEF Acts, 
    CheckReadiness, Preflight, PassGate, MakeStaging, ContainerRaises, ContainerFails, PublishOutput,
    PlanImport, TakeIngestLock, IngestLockTimesOut, CopySource, Normalize, LoadIndex, AppendEntry,
    WritePosture, AppendTargets, PostureFails, ReleaseIngestLock, TakeReportLock, ReportLockTimesOut,
    AppendRun, AppendEvent, Kill
  <2> QED BY <2>1, <2>2
<1> QED BY <1>1, <1>2, <1>3, <1>4, <1>5

\* The steps that take, drop and lose track of a lock, and what they load.
LEMMA LockEffects ==
  ASSUME TypeOK, NEW p \in Processes, Acts(p)
  PROVE  /\ \/ ingestLock' = ingestLock /\ (pc'[p] \in LockedPlaces => pc[p] \in LockedPlaces)
            \/ ingestLock = Nobody /\ ingestLock' = p
            \/ pc[p] \in LockedPlaces /\ ingestLock' = Nobody /\ pc'[p] \notin LockedPlaces
         /\ \/ reportLock' = reportLock /\ pc'[p] # "appending"
            \/ reportLock = Nobody /\ reportLock' = p
            \/ pc[p] = "appending" /\ reportLock' = Nobody /\ pc'[p] # "appending"
         /\ \/ seen' = seen /\ pc'[p] \notin {"indexing", "appending"}
            \/ seen' = [seen EXCEPT ![p] = index] /\ pc'[p] = "indexing" /\ index' = index
            \/ seen' = [seen EXCEPT ![p] = runs] /\ pc'[p] = "appending" /\ runs' = runs
            \/ seen' = [seen EXCEPT ![p] = << >>] /\ pc'[p] \notin {"indexing", "appending"}
         /\ pc'[p] \in ScanPlaces => p \in Scans \/ pc[p] \in ScanPlaces
         /\ p \in Checks => pc'[p] = "done" \/ pc[p] \notin {"idle", "done"}
<1> USE DEF artifacts, LockedPlaces, ScanPlaces
<1>0. pc \in [Processes -> Places]
  BY DEF TypeOK
<1>1. CASE CheckReadiness(p) \/ Preflight(p) \/ PassGate(p) \/ MakeStaging(p) \/ PlanImport(p)
  BY <1>0, <1>1, NameFacts DEF CheckReadiness, Preflight, PassGate, MakeStaging, PlanImport, Goto
<1>2. CASE ContainerRaises(p) \/ ContainerFails(p) \/ PublishOutput(p)
  BY <1>0, <1>2 DEF ContainerRaises, ContainerFails, PublishOutput, Goto
<1>3. CASE TakeIngestLock(p) \/ IngestLockTimesOut(p) \/ CopySource(p) \/ Normalize(p)
  BY <1>0, <1>3 DEF TakeIngestLock, IngestLockTimesOut, CopySource, Normalize, Goto, IngestionFails
<1>4. CASE LoadIndex(p) \/ AppendEntry(p) \/ WritePosture(p) \/ AppendTargets(p)
  BY <1>0, <1>4 DEF LoadIndex, AppendEntry, WritePosture, AppendTargets, Goto
<1>5. CASE PostureFails(p)
  <2>1. pc' = [pc EXCEPT ![p] = pc'[p]] /\ pc'[p] \in {"record", "done"}
    BY <1>0, <1>5 DEF PostureFails, Goto, IngestionFails
  <2> QED BY <1>0, <1>5, <2>1 DEF PostureFails, Goto, IngestionFails
<1>8. CASE ReleaseIngestLock(p)
  BY <1>0, <1>8 DEF ReleaseIngestLock, Goto
<1>6. CASE TakeReportLock(p) \/ ReportLockTimesOut(p) \/ AppendRun(p)
  BY <1>0, <1>6 DEF TakeReportLock, ReportLockTimesOut, AppendRun, Goto
<1>7. CASE AppendEvent(p) \/ Kill(p)
  BY <1>0, <1>7 DEF AppendEvent, Kill, Goto
<1> QED BY <1>1, <1>2, <1>3, <1>4, <1>5, <1>6, <1>7, <1>8 DEF Acts

\* Nobody but the owner of a lock touches what it guards, or the lock.
LEMMA LockKept ==
  ASSUME IInv, NEW p \in Processes, Acts(p)
  PROVE  LockInv'
<1> USE DEF LockedPlaces, ScanPlaces
<1>0. TypeOK /\ LockInv /\ pc \in [Processes -> Places] /\ DOMAIN seen = Processes /\ Nobody \notin Processes
  BY ScannersAssumption DEF IInv, TypeOK
<1>1. pc' = [pc EXCEPT ![p] = pc'[p]]
  BY <1>0, OwnMove
<1> SUFFICES ASSUME NEW q \in Processes
             PROVE  /\ pc'[q] \in LockedPlaces => ingestLock' = q
                    /\ pc'[q] = "appending" => reportLock' = q
                    /\ pc'[q] = "indexing" => seen'[q] = index'
                    /\ pc'[q] = "appending" => seen'[q] = runs'
                    /\ pc'[q] \in ScanPlaces => q \in Scans
                    /\ q \in Checks => pc'[q] \in {"idle", "done"}
  BY DEF LockInv
<1>2. CASE q = p
  <2>1. /\ pc'[p] \in LockedPlaces => ingestLock' = p
        /\ pc'[p] = "appending" => reportLock' = p
    BY <1>0, LockEffects DEF LockInv
  <2>2. pc'[p] = "indexing" => seen'[p] = index'
    BY <1>0, LockEffects
  <2>3. pc'[p] = "appending" => seen'[p] = runs'
    BY <1>0, LockEffects
  <2>4. pc'[p] \in ScanPlaces => p \in Scans
    BY <1>0, LockEffects DEF LockInv
  <2>5. p \in Checks => pc'[p] \in {"idle", "done"}
    BY <1>0, LockEffects DEF LockInv
  <2> QED BY <1>2, <2>1, <2>2, <2>3, <2>4, <2>5
<1>3. CASE q # p
  <2>1. pc'[q] = pc[q]
    BY <1>0, <1>1, <1>3
  <2>2. seen'[q] = seen[q]
    BY <1>0, <1>3, LockEffects
  <2>3. pc[q] \in LockedPlaces => ingestLock' = q
    BY <1>0, <1>3, LockEffects DEF LockInv
  <2>4. pc[q] = "appending" => reportLock' = q
    BY <1>0, <1>3, LockEffects DEF LockInv
  <2>5. pc[q] = "indexing" => index' = index
    BY <1>0, <1>3, FileEffects DEF LockInv
  <2>6. pc[q] = "appending" => runs' = runs
    BY <1>0, <1>3, FileEffects DEF LockInv
  <2> QED BY <1>0, <2>1, <2>2, <2>3, <2>4, <2>5, <2>6 DEF LockInv
<1> QED BY <1>2, <1>3

\* What holds of the files does not depend on who looks at them.
LEMMA RecordsAndEntries ==
  ASSUME IInv, NEW p \in Processes, Acts(p)
  PROVE  /\ \/ index' = index
            \/ index' = Append(index, [name |-> NameOf(p), bytes |-> raw[NameOf(p)]])
                 /\ pc[p] = "indexing" /\ raw' = raw /\ leads' = leads
                 /\ pc'[p] \in {"posture", "indexed"}
         /\ \/ runs' = runs /\ summary' = summary
            \/ pc[p] = "appending" /\ Len(runs) < MaxRuns /\ pc'[p] = "event" /\ outcome' = outcome
                 /\ runs' = Append(runs, RunRecord(p)) /\ summary' = RunsSummary(runs')
                 /\ \A k \in DOMAIN runs' : RunArtifactsExist(runs'[k])
                 /\ UNCHANGED << raw, leads, index >>
<1>1. TypeOK /\ (pc[p] = "indexing" => seen[p] = index) /\ (pc[p] = "appending" => seen[p] = runs)
  BY DEF IInv, LockInv
<1> QED BY <1>1, FileEffects DEF RoomIn

LEMMA TypesKept ==
  ASSUME IInv, NEW p \in Processes, Acts(p)
  PROVE  TypeOK'
<1> USE DEF artifacts
<1>0. TypeOK
  BY DEF IInv
<1>1. raw' \in [Names -> Bytes \cup {NoFile}]
  <2>0. raw \in [Names -> Bytes \cup {NoFile}]
    BY <1>0 DEF TypeOK
  <2>1. CASE raw' = raw
    BY <2>0, <2>1
  <2>2. CASE p \in Scans /\ raw' = [raw EXCEPT ![AdapterOf[p]] = p]
    BY <2>0, <2>2, NameFacts
  <2>3. CASE p \in Imports /\ raw' = [raw EXCEPT ![SourceOf[p]] = SourceOf[p]]
    BY <2>0, <2>3, NameFacts
  <2> QED BY <1>0, <2>1, <2>2, <2>3, FileEffects
<1>2. leads' \in [Names -> Bytes \cup {NoFile}]
  <2>1. CASE leads' = leads
    BY <1>0, <2>1 DEF TypeOK
  <2>2. CASE pc[p] = "copied" /\ leads' = [leads EXCEPT ![NameOf(p)] = raw[NameOf(p)]]
    BY <1>0, <2>2, NameFacts DEF TypeOK
  <2> QED BY <1>0, <2>1, <2>2, FileEffects
<1>3. index' \in Seq([name : Names, bytes : Bytes])
  <2>1. CASE index' = index
    BY <1>0, <2>1 DEF TypeOK
  <2>2. CASE index' = Append(index, [name |-> NameOf(p), bytes |-> raw[NameOf(p)]]) /\ pc[p] = "indexing"
    <3>1. raw[NameOf(p)] \in Bytes
      BY <2>2, OwnBytes DEF LockedPlaces
    <3>2. [name |-> NameOf(p), bytes |-> raw[NameOf(p)]] \in [name : Names, bytes : Bytes]
      BY <3>1, NameFacts
    <3> QED BY <1>0, <2>2, <3>2 DEF TypeOK
  <2> QED BY <2>1, <2>2, RecordsAndEntries
<1>4. dependencies' \in [components : SUBSET Bytes, vulnerabilities : SUBSET Bytes]
  <2>1. CASE WritePosture(p)
    <3>1. raw[NameOf(p)] \in Bytes
      BY <2>1, OwnBytes DEF LockedPlaces, WritePosture
    <3>2. /\ dependencies \in [components : SUBSET Bytes, vulnerabilities : SUBSET Bytes]
      BY <1>0 DEF TypeOK
    <3> QED BY <2>1, <3>1, <3>2 DEF WritePosture
  <2>2. CASE ~WritePosture(p)
    <3>1. dependencies' = dependencies
      BY <2>2 DEF Acts, 
    CheckReadiness, Preflight, PassGate, MakeStaging, ContainerRaises, ContainerFails, PublishOutput,
    PlanImport, TakeIngestLock, IngestLockTimesOut, CopySource, Normalize, LoadIndex, AppendEntry,
    WritePosture, AppendTargets, PostureFails, ReleaseIngestLock, TakeReportLock, ReportLockTimesOut,
    AppendRun, AppendEvent, Kill
    <3> QED BY <1>0, <3>1 DEF TypeOK
  <2> QED BY <2>1, <2>2
<1>5. queued' \subseteq Bytes
  <2>1. CASE AppendTargets(p)
    BY <1>0, <2>1 DEF TypeOK, AppendTargets
  <2>2. CASE ~AppendTargets(p)
    <3>1. queued' = queued
      BY <2>2 DEF Acts, 
    CheckReadiness, Preflight, PassGate, MakeStaging, ContainerRaises, ContainerFails, PublishOutput,
    PlanImport, TakeIngestLock, IngestLockTimesOut, CopySource, Normalize, LoadIndex, AppendEntry,
    WritePosture, AppendTargets, PostureFails, ReleaseIngestLock, TakeReportLock, ReportLockTimesOut,
    AppendRun, AppendEvent, Kill
    <3> QED BY <1>0, <3>1 DEF TypeOK
  <2> QED BY <2>1, <2>2
<1>6. removed' \subseteq Names
  BY <1>0, FileEffects DEF TypeOK
<1>7. runs' \in Seq(Record)
  <2>1. CASE runs' = runs
    BY <1>0, <2>1 DEF TypeOK
  <2>2. CASE pc[p] = "appending" /\ runs' = Append(runs, RunRecord(p))
    <3>1. p \in Scans
      BY <2>2 DEF IInv, LockInv, ScanPlaces
    <3>2. RunRecord(p) \in Record
      <4>1. ASSUME NEW x \in Statuses, NEW y \in BOOLEAN, NEW z \in BOOLEAN
            PROVE  [FailedRun(p) EXCEPT !.status = x, !.counted = y, !.refers = z] \in Record
        BY <3>1 DEF FailedRun, Record
      <4>2. (IF outcome[p] = "ok" THEN "succeeded" ELSE "failed") \in Statuses
        BY DEF Statuses
      <4>3. (outcome[p] \in {"ok", "ingestion"}) \in BOOLEAN /\ (outcome[p] = "ok") \in BOOLEAN
        OBVIOUS
      <4> HIDE DEF Statuses, Record
      <4> QED BY <4>1, <4>2, <4>3, Zenon DEF RunRecord
    <3> QED BY <1>0, <2>2, <3>2 DEF TypeOK
  <2> QED BY <2>1, <2>2, RecordsAndEntries
<1>8. DOMAIN seen' = Processes
  BY <1>0, LockEffects DEF TypeOK
<1>9. staging' \in [root : BOOLEAN, of : SUBSET Scans]
  <2>0. staging \in [root : BOOLEAN, of : SUBSET Scans]
    BY <1>0 DEF TypeOK
  <2>1. CASE PassGate(p) \/ MakeStaging(p)
    BY <2>0, <2>1 DEF PassGate, MakeStaging
  <2>2. CASE ContainerRaises(p) \/ ContainerFails(p) \/ PublishOutput(p)
    <3>1. ASSUME NEW b \in BOOLEAN, NEW S \in SUBSET Scans
          PROVE  [root |-> b, of |-> S] \in [root : BOOLEAN, of : SUBSET Scans]
      OBVIOUS
    <3>2. (staging.of # {p}) \in BOOLEAN
      OBVIOUS
    <3>3. staging.of \ {p} \in SUBSET Scans
      BY <2>0
    <3>4. [root |-> staging.of # {p}, of |-> staging.of \ {p}] \in [root : BOOLEAN, of : SUBSET Scans]
      BY <3>1, <3>2, <3>3, Zenon
    <3>5. RemoveStaging(p)
      BY <2>2 DEF ContainerRaises, ContainerFails, PublishOutput
    <3> QED BY <3>4, <3>5, Zenon DEF RemoveStaging
  <2>3. CASE ~(PassGate(p) \/ MakeStaging(p) \/ ContainerRaises(p) \/ ContainerFails(p) \/ PublishOutput(p))
    <3>1. staging' = staging
      BY <2>3 DEF Acts, 
    CheckReadiness, Preflight, PassGate, MakeStaging, ContainerRaises, ContainerFails, PublishOutput,
    PlanImport, TakeIngestLock, IngestLockTimesOut, CopySource, Normalize, LoadIndex, AppendEntry,
    WritePosture, AppendTargets, PostureFails, ReleaseIngestLock, TakeReportLock, ReportLockTimesOut,
    AppendRun, AppendEvent, Kill
    <3> QED BY <2>0, <3>1
  <2> QED BY <2>1, <2>2, <2>3
<1>10. {ingestLock, reportLock}' \subseteq Processes \cup {Nobody}
  BY <1>0, LockEffects DEF TypeOK
<1>11. pc' \in [Processes -> Places] /\ outcome' \in [Processes -> Outcomes]
  BY <1>0, OwnMove DEF TypeOK
<1>12. kills' \in 0 .. MaxKills
  <2>1. CASE Kill(p)
    BY <1>0, <2>1, ScannersAssumption DEF TypeOK, Kill
  <2>2. CASE ~Kill(p)
    <3>1. kills' = kills
      BY <2>2 DEF Acts, 
    CheckReadiness, Preflight, PassGate, MakeStaging, ContainerRaises, ContainerFails, PublishOutput,
    PlanImport, TakeIngestLock, IngestLockTimesOut, CopySource, Normalize, LoadIndex, AppendEntry,
    WritePosture, AppendTargets, PostureFails, ReleaseIngestLock, TakeReportLock, ReportLockTimesOut,
    AppendRun, AppendEvent, Kill
    <3> QED BY <1>0, <3>1 DEF TypeOK
  <2> QED BY <2>1, <2>2
<1> QED BY <1>1, <1>2, <1>3, <1>4, <1>5, <1>6, <1>7, <1>8, <1>9, <1>10, <1>11, <1>12 DEF TypeOK

-----------------------------------------------------------------------------
(* What a step leaves of what was there. *)

\* An adapter's raw output is published once.
LEMMA RawStays ==
  ASSUME IInv, NEW p \in Processes, Acts(p), NEW a \in Adapters
  PROVE  /\ raw[a] # NoFile => raw'[a] = raw[a]
         /\ raw'[a] # raw[a] => p \in Scans /\ pc[p] = "scan" /\ pc'[p] = "ingest"
                                  /\ a = AdapterOf[p] /\ raw'[a] = p
<1>0. TypeOK /\ raw \in [Names -> Bytes \cup {NoFile}] /\ a \in Names
  BY DEF IInv, TypeOK, Names
<1>1. CASE raw' = raw
  BY <1>1
<1>2. CASE p \in Scans /\ pc[p] = "scan" /\ raw[AdapterOf[p]] = NoFile
             /\ raw' = [raw EXCEPT ![AdapterOf[p]] = p] /\ pc'[p] = "ingest"
  BY <1>0, <1>2
<1>3. CASE p \in Imports /\ raw' = [raw EXCEPT ![SourceOf[p]] = SourceOf[p]]
  BY <1>0, <1>3, NameFacts
<1> QED BY <1>0, <1>1, <1>2, <1>3, FileEffects

\* Its normalized file is written by the scan that published it.
LEMMA LeadsStay ==
  ASSUME IInv, NEW p \in Processes, Acts(p), NEW a \in Adapters, leads'[a] # leads[a]
  PROVE  /\ p \in Scans /\ pc[p] = "copied" /\ pc'[p] = "normalized" /\ a = AdapterOf[p]
         /\ raw[a] = p /\ leads'[a] = p /\ raw' = raw /\ a \notin removed
<1>0. TypeOK /\ leads \in [Names -> Bytes \cup {NoFile}] /\ a \in Names
  BY DEF IInv, TypeOK, Names
<1>1. pc[p] = "copied" /\ leads' = [leads EXCEPT ![NameOf(p)] = raw[NameOf(p)]]
        /\ pc'[p] = "normalized" /\ raw' = raw
  BY <1>0, FileEffects
<1>2. a = NameOf(p)
  BY <1>0, <1>1
<1>3. p \notin Checks
  BY <1>1 DEF IInv, LockInv
<1>4. p \in Scans
  BY <1>2, <1>3, NameFacts
<1> QED BY <1>0, <1>1, <1>2, <1>4, NameFacts DEF IInv, OwnerInv

LEMMA KeptStays ==
  ASSUME IInv, NEW p \in Processes, Acts(p), NEW s \in Scans, Kept(s)
  PROVE  Kept(s)'
<1>1. AdapterOf[s] \in Adapters /\ s # NoFile
  BY NameFacts DEF Processes
<1>2. raw'[AdapterOf[s]] = s
  BY <1>1, RawStays DEF Kept
<1>3. removed' = removed
  BY FileEffects DEF IInv
<1>4. AdapterOf[s] \notin removed => leads'[AdapterOf[s]] = s
  BY <1>1, LeadsStay DEF Kept
<1> QED BY <1>2, <1>3, <1>4 DEF Kept

LEMMA AppendFacts ==
  ASSUME NEW S, NEW q \in Seq(S), NEW x \in S
  PROVE  /\ DOMAIN Append(q, x) = DOMAIN q \cup {Len(q) + 1} /\ Len(q) + 1 \notin DOMAIN q
         /\ Len(Append(q, x)) = Len(q) + 1
         /\ \A k \in DOMAIN q : Append(q, x)[k] = q[k]
         /\ Append(q, x)[Len(q) + 1] = x
  OBVIOUS

LEMMA IndexedStays ==
  ASSUME IInv, NEW p \in Processes, Acts(p), NEW s, Indexed(s)
  PROVE  Indexed(s)'
<1>0. index \in Seq([name : Names, bytes : Bytes])
  BY DEF IInv, TypeOK
<1>1. CASE index' = index
  BY <1>1 DEF Indexed, EntryOf
<1>2. CASE index' = Append(index, [name |-> NameOf(p), bytes |-> raw[NameOf(p)]]) /\ pc[p] = "indexing"
  <2>1. [name |-> NameOf(p), bytes |-> raw[NameOf(p)]] \in [name : Names, bytes : Bytes]
    BY <1>2, OwnBytes, NameFacts DEF LockedPlaces
  <2> QED BY <1>0, <1>2, <2>1, AppendFacts DEF Indexed, EntryOf
<1> QED BY <1>1, <1>2, RecordsAndEntries

LEMMA AdapterKept ==
  ASSUME IInv, NEW p \in Processes, Acts(p)
  PROVE  AdapterInv'
<1> SUFFICES ASSUME NEW a \in Adapters
             PROVE  /\ raw'[a] = NoFile => leads'[a] = NoFile /\ a \notin removed'
                    /\ a \in removed' => leads'[a] = NoFile
  BY DEF AdapterInv
<1>1. removed' = removed
  BY FileEffects DEF IInv
<1>2. /\ raw[a] = NoFile => leads[a] = NoFile /\ a \notin removed
      /\ a \in removed => leads[a] = NoFile
  BY DEF IInv, AdapterInv
<1>3. CASE leads'[a] = leads[a]
  BY <1>1, <1>2, <1>3, RawStays
<1>4. CASE leads'[a] # leads[a]
  BY <1>1, <1>4, LeadsStay, NameFacts
<1> QED BY <1>3, <1>4

LEMMA ImportKept ==
  ASSUME IInv, NEW p \in Processes, Acts(p)
  PROVE  ImportInv'
<1> SUFFICES ASSUME NEW i \in Imports, pc'[i] \in LockedPlaces \ {"normalize"}
             PROVE  raw'[SourceOf[i]] = SourceOf[i]
  BY DEF ImportInv
<1>0. TypeOK /\ i \in Processes /\ SourceOf[i] \in Names /\ SourceOf[i] \notin Adapters
  BY ScannersAssumption DEF IInv, Processes, Names
<1>a. raw \in [Names -> Bytes \cup {NoFile}] /\ pc \in [Processes -> Places]
  BY <1>0 DEF TypeOK
<1>1. raw[SourceOf[i]] = SourceOf[i] => raw'[SourceOf[i]] = SourceOf[i]
  <2>1. CASE raw' = raw
    BY <2>1
  <2>2. CASE p \in Scans /\ raw' = [raw EXCEPT ![AdapterOf[p]] = p]
    BY <1>0, <1>a, <2>2, NameFacts
  <2>3. CASE p \in Imports /\ raw' = [raw EXCEPT ![SourceOf[p]] = SourceOf[p]]
    BY <1>0, <1>a, <2>3
  <2> QED BY <1>0, <2>1, <2>2, <2>3, FileEffects
<1>2. CASE pc[i] \in LockedPlaces \ {"normalize"}
  BY <1>1, <1>2 DEF IInv, ImportInv
<1>3. CASE pc[i] \notin LockedPlaces \ {"normalize"}
  <2>1. i = p
    BY <1>0, <1>a, <1>3, OwnMove
  <2>2. CopySource(p)
    BY <1>0, <1>a, <1>3, <2>1, NameFacts DEF Acts, LockedPlaces, artifacts, Goto, 
    CheckReadiness, Preflight, PassGate, MakeStaging, ContainerRaises, ContainerFails, PublishOutput,
    PlanImport, TakeIngestLock, IngestLockTimesOut, CopySource, Normalize, LoadIndex, AppendEntry,
    WritePosture, AppendTargets, PostureFails, ReleaseIngestLock, TakeReportLock, ReportLockTimesOut,
    AppendRun, AppendEvent, Kill,
       IngestionFails
  <2> QED BY <1>0, <1>a, <2>1, <2>2 DEF CopySource, NameOf
<1> QED BY <1>2, <1>3

\* Where a scan comes from.
LEMMA ScanMoves ==
  ASSUME TypeOK, NEW p \in Scans, Acts(p)
  PROVE  /\ pc'[p] = "ingest" => pc[p] = "scan" /\ raw[AdapterOf[p]] = NoFile /\ leads' = leads
                                   /\ raw' = [raw EXCEPT ![AdapterOf[p]] = p]
         /\ pc'[p] = "copied" => pc[p] = "ingest" /\ UNCHANGED << raw, leads >>
         /\ pc'[p] = "normalized" => pc[p] = "copied" /\ raw' = raw
                                       /\ leads' = [leads EXCEPT ![AdapterOf[p]] = raw[AdapterOf[p]]]
         /\ pc'[p] = "indexing" => pc[p] = "normalized"
         /\ pc'[p] = "posture" => pc[p] = "indexing"
         /\ pc'[p] = "targets" => pc[p] = "posture"
         /\ pc'[p] = "indexed" => pc[p] \in {"indexing", "targets"}
         /\ pc'[p] = "record" /\ outcome'[p] = "ok" => pc[p] = "indexed"
         /\ pc'[p] = "appending" => pc[p] = "record" /\ outcome' = outcome
         /\ pc'[p] = "event" /\ outcome'[p] = "ok" =>
              pc[p] = "appending" /\ outcome[p] = "ok" /\ runs' = Append(seen[p], RunRecord(p))
         /\ pc'[p] = "done" /\ outcome'[p] = "ok" => pc[p] = "event" /\ outcome[p] = "ok" /\ runs' = runs
<1> USE DEF artifacts
<1>0. pc \in [Processes -> Places] /\ outcome \in [Processes -> Outcomes] /\ p \in Processes
  BY DEF TypeOK, Processes
<1>a. p \notin Checks /\ p \notin Imports /\ NameOf(p) = AdapterOf[p]
  BY <1>0, NameFacts
<1>1. CASE CheckReadiness(p) \/ PlanImport(p) \/ CopySource(p)
  BY <1>1, <1>a DEF CheckReadiness, PlanImport, CopySource
<1>2. CASE Preflight(p) \/ PassGate(p) \/ MakeStaging(p)
  BY <1>0, <1>2 DEF Preflight, PassGate, MakeStaging, Goto, Ends
<1>3. CASE ContainerRaises(p) \/ ContainerFails(p) \/ PublishOutput(p)
  BY <1>0, <1>3 DEF ContainerRaises, ContainerFails, PublishOutput, Goto, Ends, Unpublished, HasRaw
<1>4. CASE TakeIngestLock(p) \/ IngestLockTimesOut(p) \/ Normalize(p)
  BY <1>0, <1>a, <1>4 DEF TakeIngestLock, IngestLockTimesOut, Normalize, Goto, IngestionFails, Ends
<1>5. CASE LoadIndex(p) \/ AppendEntry(p) \/ WritePosture(p) \/ AppendTargets(p)
  BY <1>0, <1>5 DEF LoadIndex, AppendEntry, WritePosture, AppendTargets, Goto
<1>6. CASE PostureFails(p)
  BY <1>0, <1>a, <1>6 DEF PostureFails, Goto, Ends, IngestionFails
<1>7. CASE ReleaseIngestLock(p)
  BY <1>0, <1>a, <1>7 DEF ReleaseIngestLock, Goto
<1>8. CASE TakeReportLock(p) \/ ReportLockTimesOut(p) \/ AppendRun(p)
  BY <1>0, <1>8 DEF TakeReportLock, ReportLockTimesOut, AppendRun, Goto, ReportingFails
<1>9. CASE AppendEvent(p) \/ Kill(p)
  BY <1>0, <1>9 DEF AppendEvent, Kill, Goto, Ends
<1> QED BY <1>1, <1>2, <1>3, <1>4, <1>5, <1>6, <1>7, <1>8, <1>9 DEF Acts

\* A record that is in the report stays in it.
LEMMA RecordStays ==
  ASSUME IInv, NEW p \in Processes, Acts(p), NEW k \in DOMAIN runs
  PROVE  k \in DOMAIN runs' /\ runs'[k] = runs[k]
<1>0. runs \in Seq(Record)
  BY DEF IInv, TypeOK
<1>1. CASE runs' = runs
  BY <1>1
<1>2. CASE pc[p] = "appending" /\ runs' = Append(runs, RunRecord(p))
  <2>1. DOMAIN runs = 1 .. Len(runs) /\ Len(runs) \in Nat
    BY <1>0
  <2>2. DOMAIN runs' = 1 .. Len(runs) + 1 /\ runs'[k] = runs[k]
    BY <1>0, <1>2, <2>1
  <2> QED BY <2>1, <2>2
<1> QED BY <1>1, <1>2, RecordsAndEntries

LEMMA NewRecord ==
  ASSUME IInv, NEW p \in Processes, Acts(p), pc[p] = "appending", runs' = Append(runs, RunRecord(p))
  PROVE  /\ p \in Scans /\ DOMAIN runs' = DOMAIN runs \cup {Len(runs) + 1}
         /\ Len(runs') = Len(runs) + 1 /\ runs'[Len(runs) + 1] = RunRecord(p)
         /\ RunRecord(p).by = p
         /\ RunRecord(p).status = "succeeded" <=> outcome[p] = "ok"
         /\ RunRecord(p).counted <=> outcome[p] \in {"ok", "ingestion"}
         /\ RunRecord(p).refers <=> outcome[p] = "ok"
<1>1. p \in Scans
  BY DEF IInv, LockInv, ScanPlaces
<1>2. RunRecord(p) \in Record
  <2>1. ASSUME NEW x \in Statuses, NEW y \in BOOLEAN, NEW z \in BOOLEAN
        PROVE  [FailedRun(p) EXCEPT !.status = x, !.counted = y, !.refers = z] \in Record
    BY <1>1 DEF FailedRun, Record
  <2>2. (IF outcome[p] = "ok" THEN "succeeded" ELSE "failed") \in Statuses
    BY DEF Statuses
  <2>3. (outcome[p] \in {"ok", "ingestion"}) \in BOOLEAN /\ (outcome[p] = "ok") \in BOOLEAN
    OBVIOUS
  <2> QED BY <2>1, <2>2, <2>3, Zenon DEF RunRecord
<1>3. runs \in Seq(Record)
  BY DEF IInv, TypeOK
<1>4. /\ RunRecord(p).by = p
      /\ RunRecord(p).status = "succeeded" <=> outcome[p] = "ok"
      /\ RunRecord(p).counted <=> outcome[p] \in {"ok", "ingestion"}
      /\ RunRecord(p).refers <=> outcome[p] = "ok"
  BY DEF RunRecord, FailedRun
<1> QED BY <1>1, <1>2, <1>3, <1>4, AppendFacts

LEMMA OwnerKept ==
  ASSUME IInv, NEW p \in Processes, Acts(p)
  PROVE  OwnerInv'
<1>0. TypeOK /\ pc \in [Processes -> Places] /\ outcome \in [Processes -> Outcomes] /\ removed' = removed
  BY FileEffects DEF IInv, TypeOK
<1> SUFFICES ASSUME NEW s \in Scans
             PROVE  /\ pc'[s] \in {"ingest", "copied"} =>
                         raw'[AdapterOf[s]] = s /\ leads'[AdapterOf[s]] = NoFile /\ AdapterOf[s] \notin removed
                    /\ pc'[s] \in {"normalized", "indexing"} => Kept(s)'
                    /\ pc'[s] \in {"posture", "targets", "indexed"} => Kept(s)' /\ Indexed(s)'
                    /\ pc'[s] \in {"record", "appending"} /\ outcome'[s] = "ok" => Kept(s)' /\ Indexed(s)'
                    /\ pc'[s] \in {"event", "done"} /\ outcome'[s] = "ok" =>
                         \E k \in DOMAIN runs' : runs'[k].by = s /\ runs'[k].status = "succeeded"
  BY <1>0 DEF OwnerInv
<1> DEFINE a == AdapterOf[s]
<1>1. s \in Processes /\ a \in Adapters /\ s # NoFile /\ NameOf(s) = a /\ a \in Names
  BY NameFacts DEF Processes, Names
<1>2. /\ pc[s] \in {"ingest", "copied"} => raw[a] = s /\ leads[a] = NoFile /\ a \notin removed
      /\ pc[s] \in {"normalized", "indexing"} => Kept(s)
      /\ pc[s] \in {"posture", "targets", "indexed"} => Kept(s) /\ Indexed(s)
      /\ pc[s] \in {"record", "appending"} /\ outcome[s] = "ok" => Kept(s) /\ Indexed(s)
      /\ pc[s] \in {"event", "done"} /\ outcome[s] = "ok" =>
           \E k \in DOMAIN runs : runs[k].by = s /\ runs[k].status = "succeeded"
  BY DEF IInv, OwnerInv
<1>3. /\ Kept(s) => Kept(s)'
      /\ Indexed(s) => Indexed(s)'
  BY KeptStays, IndexedStays
<1>4. (\E k \in DOMAIN runs : runs[k].by = s /\ runs[k].status = "succeeded") =>
        (\E k \in DOMAIN runs' : runs'[k].by = s /\ runs'[k].status = "succeeded")
  BY RecordStays
<1>5. CASE s # p
  <2>1. pc'[s] = pc[s] /\ outcome'[s] = outcome[s]
    BY <1>0, <1>1, <1>5, OwnMove
  <2>2. pc[s] \in {"ingest", "copied"} => raw'[a] = s /\ leads'[a] = NoFile
    BY <1>1, <1>2, <1>5, RawStays, LeadsStay
  <2> HIDE DEF a
  <2> QED BY <1>2, <1>3, <1>4, <2>1, <2>2 DEF a
<1>6. CASE s = p
  <2>0. raw \in [Names -> Bytes \cup {NoFile}] /\ leads \in [Names -> Bytes \cup {NoFile}]
    BY <1>0 DEF TypeOK
  <2>1. pc'[p] = "ingest" => raw'[a] = s /\ leads'[a] = NoFile /\ a \notin removed
    BY <1>0, <1>1, <1>6, <2>0, ScanMoves DEF IInv, AdapterInv
  <2>2. pc'[p] = "copied" => raw'[a] = s /\ leads'[a] = NoFile /\ a \notin removed
    BY <1>0, <1>1, <1>2, <1>6, ScanMoves
  <2>3. pc'[p] = "normalized" => Kept(s)'
    BY <1>0, <1>1, <1>2, <1>6, <2>0, ScanMoves DEF Kept
  <2>4. pc'[p] = "indexing" => Kept(s)'
    BY <1>0, <1>2, <1>3, <1>6, ScanMoves
  <2>5. pc'[p] \in {"posture", "indexed"} /\ pc[p] = "indexing" => Kept(s)' /\ Indexed(s)'
    <3> SUFFICES ASSUME pc'[p] \in {"posture", "indexed"}, pc[p] = "indexing"
                 PROVE  Kept(s)' /\ Indexed(s)'
      OBVIOUS
    <3>1. AppendEntry(p)
      BY <1>0, <1>6 DEF Acts, artifacts, Goto, 
    CheckReadiness, Preflight, PassGate, MakeStaging, ContainerRaises, ContainerFails, PublishOutput,
    PlanImport, TakeIngestLock, IngestLockTimesOut, CopySource, Normalize, LoadIndex, AppendEntry,
    WritePosture, AppendTargets, PostureFails, ReleaseIngestLock, TakeReportLock, ReportLockTimesOut,
    AppendRun, AppendEvent, Kill,
         IngestionFails
    <3>2. index' = Append(index, [name |-> a, bytes |-> s])
      BY <1>1, <1>2, <1>6, <3>1 DEF AppendEntry, IInv, LockInv, Kept
    <3>3. [name |-> a, bytes |-> s] \in [name : Names, bytes : Bytes]
      BY <1>1 DEF Bytes
    <3>4. index \in Seq([name : Names, bytes : Bytes])
      BY <1>0 DEF TypeOK
    <3> QED BY <1>2, <1>3, <1>6, <3>2, <3>3, <3>4, AppendFacts DEF Indexed, EntryOf
  <2>6. pc'[p] \in {"posture", "targets", "indexed"} => Kept(s)' /\ Indexed(s)'
    BY <1>0, <1>2, <1>3, <1>6, <2>5, ScanMoves
  <2>7. pc'[p] \in {"record", "appending"} /\ outcome'[p] = "ok" => Kept(s)' /\ Indexed(s)'
    BY <1>0, <1>2, <1>3, <1>6, ScanMoves
  <2>8. pc'[p] \in {"event", "done"} /\ outcome'[p] = "ok" =>
           \E k \in DOMAIN runs' : runs'[k].by = s /\ runs'[k].status = "succeeded"
    <3>1. CASE pc'[p] = "event" /\ outcome'[p] = "ok"
      <4>1. pc[p] = "appending" /\ outcome[p] = "ok" /\ runs' = Append(runs, RunRecord(p))
        BY <1>0, <1>6, <3>1, ScanMoves DEF IInv, LockInv
      <4> QED BY <1>6, <4>1, NewRecord
    <3>2. CASE pc'[p] = "done" /\ outcome'[p] = "ok"
      BY <1>0, <1>2, <1>4, <1>6, <3>2, ScanMoves
    <3> QED BY <3>1, <3>2
  <2> QED BY <1>6, <2>1, <2>2, <2>3, <2>4, <2>6, <2>7, <2>8
<1> QED BY <1>5, <1>6

LEMMA RunsKept ==
  ASSUME IInv, NEW p \in Processes, Acts(p)
  PROVE  RunsInv'
<1>0. runs \in Seq(Record)
  BY DEF IInv, TypeOK
<1>1. ASSUME NEW k \in DOMAIN runs
      PROVE  /\ runs[k].by \in Scans
             /\ runs[k].refers <=> runs[k].status = "succeeded"
             /\ runs[k].counted \/ ~runs[k].refers
             /\ \A s \in Scans : runs[k].status = "succeeded" /\ runs[k].by = s => Kept(s)' /\ Indexed(s)'
  <2>1. runs[k].by \in Scans
    <3>1. runs[k] \in Record
      BY <1>0
    <3> QED BY <3>1 DEF Record
  <2>2. /\ runs[k].refers <=> runs[k].status = "succeeded"
        /\ runs[k].counted \/ ~runs[k].refers
        /\ runs[k].status = "succeeded" => Kept(runs[k].by) /\ Indexed(runs[k].by)
    BY DEF IInv, RunsInv
  <2>3. ASSUME NEW s \in Scans, runs[k].status = "succeeded", runs[k].by = s
        PROVE  Kept(s)' /\ Indexed(s)'
    <3>1. Kept(s) /\ Indexed(s)
      BY <2>2, <2>3
    <3> QED BY <3>1, KeptStays, IndexedStays
  <2> QED BY <2>1, <2>2, <2>3
<1>2. ASSUME \A k \in DOMAIN runs' :
               /\ runs'[k].by \in Scans
               /\ runs'[k].refers <=> runs'[k].status = "succeeded"
               /\ runs'[k].counted \/ ~runs'[k].refers
               /\ \A s \in Scans :
                    runs'[k].status = "succeeded" /\ runs'[k].by = s => Kept(s)' /\ Indexed(s)',
             Len(runs') <= MaxRuns, summary' = RunsSummary(runs')
      PROVE  RunsInv'
  BY <1>2 DEF RunsInv, Kept, Indexed, EntryOf
<1>3. CASE runs' = runs /\ summary' = summary
  <2>1. Len(runs') <= MaxRuns /\ summary' = RunsSummary(runs')
    BY <1>3 DEF IInv, RunsInv
  <2> QED BY <1>1, <1>2, <1>3, <2>1
<1>4. CASE pc[p] = "appending" /\ Len(runs) < MaxRuns /\ outcome' = outcome
             /\ runs' = Append(runs, RunRecord(p)) /\ summary' = RunsSummary(runs')
  <2>1. outcome[p] = "ok" => Kept(p) /\ Indexed(p)
    BY <1>4, NewRecord DEF IInv, OwnerInv
  <2>2. outcome[p] = "ok" => Kept(p)' /\ Indexed(p)'
    BY <1>4, <2>1, NewRecord, KeptStays, IndexedStays
  <2>3. Len(runs') <= MaxRuns /\ summary' = RunsSummary(runs')
    BY <1>0, <1>4, NewRecord, ScannersAssumption
  <2>4. ASSUME NEW k \in DOMAIN runs'
        PROVE  /\ runs'[k].by \in Scans
               /\ runs'[k].refers <=> runs'[k].status = "succeeded"
               /\ runs'[k].counted \/ ~runs'[k].refers
               /\ \A s \in Scans :
                    runs'[k].status = "succeeded" /\ runs'[k].by = s => Kept(s)' /\ Indexed(s)'
    <3>1. CASE k \in DOMAIN runs
      <4>1. runs'[k] = runs[k]
        BY <3>1, RecordStays
      <4> QED BY <1>1, <3>1, <4>1
    <3>2. CASE k = Len(runs) + 1
      <4>1. runs'[k] = RunRecord(p)
        BY <1>4, <3>2, NewRecord
      <4>2. RunRecord(p).refers <=> RunRecord(p).status = "succeeded"
        BY <1>4, NewRecord
      <4>3. RunRecord(p).counted \/ ~RunRecord(p).refers
        BY <1>4, NewRecord
      <4>4. RunRecord(p).status = "succeeded" => Kept(p)' /\ Indexed(p)'
        BY <1>4, <2>2, NewRecord
      <4>5. RunRecord(p).by = p /\ p \in Scans
        BY <1>4, NewRecord
      <4> QED BY <4>1, <4>2, <4>3, <4>4, <4>5
    <3> QED BY <1>4, <3>1, <3>2, NewRecord
  <2> QED BY <1>2, <2>3, <2>4
<1> QED BY <1>3, <1>4, RecordsAndEntries

\* A readiness check answers.
LEMMA EvaluationsKept ==
  ASSUME IInv, NEW p \in Processes, Acts(p)
  PROVE  NoEvaluationFails'
<1> SUFFICES ASSUME NEW c \in Checks PROVE outcome'[c] # "unevaluated"
  BY DEF NoEvaluationFails
<1>0. TypeOK /\ c \in Processes /\ outcome \in [Processes -> Outcomes] /\ outcome[c] # "unevaluated"
  BY DEF IInv, TypeOK, Processes, NoEvaluationFails
<1>1. CASE c # p
  BY <1>0, <1>1, OwnMove
<1>2. CASE c = p
  <2>1. pc[p] \in {"idle", "done"} /\ p \notin Scans /\ p \notin Imports
    BY <1>2, NameFacts DEF IInv, LockInv
  <2>2. CheckReadiness(p)
    BY <2>1 DEF Acts, 
    CheckReadiness, Preflight, PassGate, MakeStaging, ContainerRaises, ContainerFails, PublishOutput,
    PlanImport, TakeIngestLock, IngestLockTimesOut, CopySource, Normalize, LoadIndex, AppendEntry,
    WritePosture, AppendTargets, PostureFails, ReleaseIngestLock, TakeReportLock, ReportLockTimesOut,
    AppendRun, AppendEvent, Kill
  <2>3. HasRaw(AdapterOf[p]) \in BOOLEAN
    BY DEF HasRaw
  <2>4. PICK e \in Evaluations[HasRaw(AdapterOf[p])] :
          Ends(p, CASE ~e.accepted -> "unevaluated"
                    [] e.accepted /\ e.state \in ReadyStates -> "ok"
                    [] OTHER -> "blocked")
    BY <2>2 DEF CheckReadiness
  <2>5. PICK w \in Worlds :
          e = [state |-> State(w), accepted |-> Accepted(Report(w)), persistent |-> PersistenceSafe(w)]
    BY <2>3 DEF Evaluations, Present
  <2>6. e.accepted
    BY <2>5, EveryReportIsAccepted, ScannersAssumption
  <2>7. outcome'[p] \in {"ok", "blocked"}
    BY <1>0, <1>2, <2>4, <2>6 DEF Ends
  <2> QED BY <1>2, <2>7
<1> QED BY <1>1, <1>2

LEMMA ActsKeep ==
  ASSUME IInv, NEW p \in Processes, Acts(p)
  PROVE  IInv'
BY LockKept, TypesKept, AdapterKept, ImportKept, OwnerKept, RunsKept, EvaluationsKept DEF IInv

\* Deleting a normalized file.
LEMMA RemoveKeeps ==
  ASSUME IInv, NEW n \in Names, Remove(n)
  PROVE  IInv'
<1> USE DEF Remove
<1>0. /\ leads[n] # NoFile /\ n \notin removed
      /\ leads' = [leads EXCEPT ![n] = NoFile] /\ removed' = removed \cup {n}
      /\ UNCHANGED << raw, index, runs, summary, pc, seen, outcome, ingestLock, reportLock >>
  OBVIOUS
<1>1. TypeOK'
  BY DEF IInv, TypeOK
<1>a. leads \in [Names -> Bytes \cup {NoFile}]
  BY DEF IInv, TypeOK
<1> HIDE DEF Remove
<1>2. LockInv'
  BY <1>0 DEF IInv, LockInv
<1>3. ASSUME NEW a \in Adapters
      PROVE  /\ leads'[a] = IF a = n THEN NoFile ELSE leads[a]
             /\ a \in removed' <=> a = n \/ a \in removed
  BY <1>0, <1>a DEF Names
<1>4. AdapterInv'
  BY <1>0, <1>3 DEF IInv, AdapterInv
<1>5. ImportInv'
  BY <1>0 DEF IInv, ImportInv
<1>6. ASSUME NEW s \in Scans
      PROVE  /\ AdapterOf[s] \in Adapters
             /\ Kept(s) => Kept(s)'
             /\ Indexed(s) => Indexed(s)'
  <2>1. AdapterOf[s] \in Adapters
    BY DEF Adapters
  <2> QED BY <1>0, <1>3, <2>1 DEF Kept, Indexed, EntryOf
<1>7. OwnerInv'
  <2> SUFFICES ASSUME NEW s \in Scans
               PROVE  /\ pc'[s] \in {"ingest", "copied"} =>
                           /\ raw'[AdapterOf[s]] = s /\ leads'[AdapterOf[s]] = NoFile
                           /\ AdapterOf[s] \notin removed'
                      /\ pc'[s] \in {"normalized", "indexing"} => Kept(s)'
                      /\ pc'[s] \in {"posture", "targets", "indexed"} => Kept(s)' /\ Indexed(s)'
                      /\ pc'[s] \in {"record", "appending"} /\ outcome'[s] = "ok" => Kept(s)' /\ Indexed(s)'
                      /\ pc'[s] \in {"event", "done"} /\ outcome'[s] = "ok" =>
                           \E k \in DOMAIN runs' : runs'[k].by = s /\ runs'[k].status = "succeeded"
    BY DEF OwnerInv
  <2>1. /\ pc[s] \in {"ingest", "copied"} => /\ raw[AdapterOf[s]] = s /\ leads[AdapterOf[s]] = NoFile
                                             /\ AdapterOf[s] \notin removed
        /\ pc[s] \in {"normalized", "indexing"} => Kept(s)
        /\ pc[s] \in {"posture", "targets", "indexed"} => Kept(s) /\ Indexed(s)
        /\ pc[s] \in {"record", "appending"} /\ outcome[s] = "ok" => Kept(s) /\ Indexed(s)
        /\ pc[s] \in {"event", "done"} /\ outcome[s] = "ok" =>
             \E k \in DOMAIN runs : runs[k].by = s /\ runs[k].status = "succeeded"
    BY DEF IInv, OwnerInv
  <2>2. /\ pc[s] \in {"ingest", "copied"} =>
             /\ raw'[AdapterOf[s]] = s /\ leads'[AdapterOf[s]] = NoFile
             /\ AdapterOf[s] \notin removed'
    BY <1>0, <1>3, <1>6, <2>1
  <2> QED BY <1>0, <1>6, <2>1, <2>2
<1>8. RunsInv'
  <2>1. ASSUME NEW k \in DOMAIN runs
        PROVE  runs[k].by \in Scans
    <3>1. runs[k] \in Record
      BY DEF IInv, TypeOK
    <3> QED BY <3>1 DEF Record
  <2>2. /\ Len(runs) <= MaxRuns /\ summary = RunsSummary(runs)
        /\ \A k \in DOMAIN runs :
             /\ runs[k].refers <=> runs[k].status = "succeeded"
             /\ runs[k].counted \/ ~runs[k].refers
             /\ runs[k].status = "succeeded" => Kept(runs[k].by) /\ Indexed(runs[k].by)
    BY DEF IInv, RunsInv
  <2>3. summary' = RunsSummary(runs')
    BY <1>0, <2>2
  <2>4. ASSUME NEW k \in DOMAIN runs, NEW s \in Scans, runs[k].status = "succeeded", runs[k].by = s
        PROVE  Kept(s)' /\ Indexed(s)'
    <3>1. Kept(s) /\ Indexed(s)
      BY <2>2, <2>4
    <3> QED BY <1>6, <3>1
  <2> QED BY <1>0, <2>1, <2>2, <2>3, <2>4 DEF RunsInv, Kept, Indexed, EntryOf
<1>9. NoEvaluationFails'
  BY <1>0 DEF IInv, NoEvaluationFails
<1> QED BY <1>1, <1>2, <1>4, <1>5, <1>7, <1>8, <1>9 DEF IInv

LEMMA StutterKeeps ==
  ASSUME IInv, UNCHANGED vars
  PROVE  IInv'
<1> USE DEF vars
<1>1. TypeOK' /\ LockInv'
  BY DEF IInv, TypeOK, LockInv
<1>2. AdapterInv' /\ ImportInv' /\ NoEvaluationFails'
  BY DEF IInv, AdapterInv, ImportInv, NoEvaluationFails
<1>3. OwnerInv'
  BY DEF IInv, OwnerInv, Kept, Indexed, EntryOf
<1>4. RunsInv'
  <2>1. summary' = RunsSummary(runs')
    BY DEF IInv, RunsInv
  <2> QED BY <2>1 DEF IInv, RunsInv, Kept, Indexed, EntryOf
<1> QED BY <1>1, <1>2, <1>3, <1>4 DEF IInv

LEMMA InitEstablishes ==
  ASSUME Init
  PROVE  IInv
<1> USE DEF Init
<1>0. /\ Past \subseteq Scans /\ Scans \subseteq Processes /\ Checks \subseteq Processes
      /\ Imports \subseteq Processes /\ Scans \cap Imports = {} /\ Scans \cap Checks = {}
  BY ScannersAssumption DEF Processes
<1>1. /\ runs \in Seq(Record) /\ Len(runs) <= 1
      /\ \A k \in DOMAIN runs : runs[k].status = "failed" /\ ~runs[k].refers
  <2>1. CASE runs = << >>
    BY <2>1
  <2>2. CASE \E s \in Past : runs = << FailedRun(s) >>
    <3>1. PICK s \in Past : runs = << FailedRun(s) >>
      BY <2>2
    <3>2. FailedRun(s) \in Record /\ FailedRun(s).status = "failed" /\ ~FailedRun(s).refers
      BY <1>0 DEF FailedRun, Record, Statuses
    <3> QED BY <3>1, <3>2
  <2> QED BY <2>1, <2>2
<1>2. TypeOK
  <2>1. runs \in Seq(Record)
    BY <1>1
  <2>2. pc \in [Processes -> Places] /\ outcome \in [Processes -> Outcomes]
    BY DEF Places, Outcomes
  <2>3. index \in Seq([name : Names, bytes : Bytes]) /\ DOMAIN seen = Processes
    OBVIOUS
  <2>4. kills \in 0 .. MaxKills
    BY ScannersAssumption
  <2>5. raw \in [Names -> Bytes \cup {NoFile}] /\ leads \in [Names -> Bytes \cup {NoFile}]
    OBVIOUS
  <2>6. /\ dependencies \in [components : SUBSET Bytes, vulnerabilities : SUBSET Bytes]
        /\ queued \subseteq Bytes /\ removed \subseteq Names
        /\ staging \in [root : BOOLEAN, of : SUBSET Scans]
        /\ {ingestLock, reportLock} \subseteq Processes \cup {Nobody}
    OBVIOUS
  <2> QED BY <2>1, <2>2, <2>3, <2>4, <2>5, <2>6 DEF TypeOK
<1>3. \A p \in Processes : pc[p] = (IF p \in Past THEN "done" ELSE "idle")
                              /\ outcome[p] = (IF p \in Past THEN "raised" ELSE "ok")
  OBVIOUS
<1>4. LockInv
  BY <1>3 DEF LockInv, LockedPlaces, ScanPlaces
<1>5. AdapterInv /\ ImportInv
  BY <1>0, <1>3 DEF AdapterInv, ImportInv, LockedPlaces, Names
<1>6. OwnerInv
  BY <1>0, <1>3 DEF OwnerInv
<1>7. RunsInv
  BY <1>1, ScannersAssumption DEF RunsInv
<1>8. NoEvaluationFails
  BY <1>0, <1>3 DEF NoEvaluationFails
<1> QED BY <1>2, <1>4, <1>5, <1>6, <1>7, <1>8 DEF IInv

\* The invariant holds of every behaviour.
LEMMA Inductive == Spec => []IInv
<1>1. Init => IInv
  BY InitEstablishes
<1>2. IInv /\ [Next]_vars => IInv'
  BY ActsKeep, RemoveKeeps, StutterKeeps DEF Next, Acts
<1> QED BY <1>1, <1>2, PTL DEF Spec

-----------------------------------------------------------------------------

\* A success is the only one of its adapter: whoever else succeeded found the
\* same raw output, and there is one producer of that.
LEMMA OneSuccess ==
  ASSUME IInv, NEW k \in DOMAIN runs, runs[k].status = "succeeded"
  PROVE  BackedRun(runs[k])
<1> DEFINE s == runs[k].by
           a == AdapterOf[s]
<1>0. runs \in Seq(Record) /\ \A j \in DOMAIN runs : runs[j] \in Record
  BY DEF IInv, TypeOK
<1>1. s \in Scans /\ a \in Adapters /\ s # NoFile
  BY <1>0, NameFacts DEF Record, Processes
<1>2. \A j \in DOMAIN runs :
        /\ runs[j].refers <=> runs[j].status = "succeeded"
        /\ runs[j].counted \/ ~runs[j].refers
        /\ runs[j].status = "succeeded" => Kept(runs[j].by) /\ Indexed(runs[j].by)
  BY DEF IInv, RunsInv
<1>3. Kept(s) /\ Indexed(s)
  BY <1>2
<1>4. ASSUME NEW j \in DOMAIN runs, runs[j].status = "succeeded", AdapterOf[runs[j].by] = a
      PROVE  runs[j] = runs[k]
  <2>1. raw[a] = runs[j].by /\ raw[a] = s
    BY <1>2, <1>3, <1>4 DEF Kept
  <2>2. runs[j].by = runs[k].by /\ runs[j].status = runs[k].status
    BY <1>4, <2>1
  <2>3. (runs[j].counted <=> runs[k].counted) /\ (runs[j].refers <=> runs[k].refers)
    BY <1>2, <1>4
  <2>4. ASSUME NEW x \in Record, NEW y \in Record, x.by = y.by, x.status = y.status,
               x.counted <=> y.counted, x.refers <=> y.refers
        PROVE  x = y
    BY <2>4 DEF Record
  <2> QED BY <1>0, <2>2, <2>3, <2>4
<1>5. Succeeded(a) = {j \in DOMAIN runs : runs[j] = runs[k]}
  BY <1>4 DEF Succeeded
<1>6. a \notin removed => EntryAccepted([name |-> a, bytes |-> s])
  BY <1>1, <1>3 DEF EntryAccepted, Kept
<1>7. raw[a] = s /\ \E j \in DOMAIN index : index[j] = [name |-> a, bytes |-> s]
  BY <1>3 DEF Kept, Indexed, EntryOf
<1> QED BY <1>5, <1>6, <1>7 DEF BackedRun

LEMMA BackedFollows ==
  ASSUME IInv
  PROVE  SuccessIsBacked
<1>1. RunsAccepted
  <2>1. Len(runs) <= MaxRuns /\ summary = RunsSummary(runs)
    BY DEF IInv, RunsInv
  <2>2. ASSUME NEW k \in DOMAIN runs, AdapterOf[runs[k].by] \notin removed
        PROVE  RunArtifactsExist(runs[k])
    <3>1. runs[k].refers => Kept(runs[k].by) /\ Indexed(runs[k].by)
      BY DEF IInv, RunsInv
    <3>2. runs[k].by # NoFile
      <4>1. runs[k] \in Record
        BY DEF IInv, TypeOK
      <4> QED BY <4>1, NameFacts DEF Record, Processes
    <3>3. \A j \in DOMAIN index : index # << >>
      OBVIOUS
    <3> QED BY <2>2, <3>1, <3>2, <3>3 DEF RunArtifactsExist, Kept, Indexed
  <2> QED BY <2>1, <2>2 DEF RunsAccepted
<1>2. \A k \in DOMAIN runs : runs[k].status = "succeeded" => BackedRun(runs[k])
  BY OneSuccess
<1>3. ASSUME NEW s \in Scans, pc[s] = "done", ExitStatus(s) = 0
      PROVE  \E k \in DOMAIN runs : runs[k].by = s /\ runs[k].status = "succeeded"
  <2>1. outcome[s] = "ok"
    BY <1>3 DEF ExitStatus
  <2> QED BY <1>3, <2>1 DEF IInv, OwnerInv
<1> QED BY <1>1, <1>2, <1>3 DEF SuccessIsBacked

(* Whatever the platform, profile, paths, engines and environment are, the    *)
(* report the evaluator makes of them (scanner_readiness.py) passes the       *)
(* validator it is handed to before it is returned.                           *)
THEOREM ReadinessReportIsAccepted == \A w \in World : Accepted(Report(w))
BY EveryReportIsAccepted

(* The variables of the scanner pipeline keep their types, for any number of  *)
(* scans, checks and imports on one run.                                      *)
THEOREM TypeCorrect == Spec => []TypeOK
BY Inductive, PTL DEF IInv

(* However many scans and imports work on the run, and whoever is killed or   *)
(* deletes normalized results, a success an adapter is recorded with keeps    *)
(* its raw output, its normalized file and its entry in the index, and a scan *)
(* that exits with 0 is recorded (bin/gra-scan:147, scanner_runner.py:323).   *)
THEOREM SuccessStaysBacked == Spec => []SuccessIsBacked
<1>1. IInv => SuccessIsBacked
  BY BackedFollows
<1> QED BY <1>1, Inductive, PTL

(* gra-scan --readiness never fails with its own report                       *)
(* (scanner_readiness.py:393), whatever world it finds.                       *)
THEOREM EvaluationNeverFails == Spec => []NoEvaluationFails
BY Inductive, PTL DEF IInv
===============================================================================
