----------------------------- MODULE TargetQueue ------------------------------
(* reports/targets.json and the tools that change it: bin/gra-targets,          *)
(* gra-research, gra-gapfill, gra-taxonomy-preflight, gra-scanner-triage and    *)
(* the producers of posture targets, all through lib/gralib.py.                 *)
(*                                                                              *)
(* A tool reads the file, prepares what it will write and replaces the file     *)
(* atomically: three steps, with no lock around them, and a crash is a tool     *)
(* that takes no further step.                                                  *)
EXTENDS TargetPolicy

CONSTANTS
  Tools,        \* processes
  Settings      \* how the queue is used, by name: see UsesOf

\* Producers say nothing of lineage.
ASSUME QueueAssumption ==
  /\ IsFiniteSet(Tools)
  /\ \A s \in DOMAIN Settings :
       /\ Settings[s].tools \subseteq Tools /\ Settings[s].marks \subseteq Statuses
       /\ Settings[s].lists \subseteq Seq(Target)
       /\ Settings[s].posture \subseteq {t \in Target : t.lineage = {}}
       /\ Settings[s].gapfills \subseteq Nat /\ IsFiniteSet(Settings[s].gapfills)

VARIABLES
  setting,\* which of the settings this run directory is in
  file,   \* reports/targets.json
  pc,     \* where each tool is
  op,     \* what it is doing: [name, id]
  loaded,   \* the active targets it loaded and changed
  next,   \* the artifact it is about to write
  last    \* history: the kind of the last write

queueVars == << setting, file, pc, op, loaded, next, last >>

\* What a setting says: the tools that overlap in it, the commands that are run,
\* the lists a provider may leave in targets.json, the targets the posture
\* producers and the scanner triage add, the free gapfill ids, the budgets and
\* budget policies asked for, and the statuses operators set.
UsesOf == Settings[setting]
Working == UsesOf.tools
Jobs == UsesOf.jobs
ModelLists == UsesOf.lists
Posture == UsesOf.posture
GapfillIds == UsesOf.gapfills
BudgetChoices == UsesOf.budgets
Policies == UsesOf.policies
Marks == UsesOf.marks
OneTool == Cardinality(Working) = 1

Unmanaged(ts) == [managed |-> FALSE, active |-> ts, deferred |-> << >>, summary |-> NoSummary]

Idle == [name |-> "none", id |-> NoId]
Nothing == Unmanaged(<< >>)

QueueInit ==
  /\ setting \in DOMAIN Settings
  /\ \E ts \in ModelLists : file = Unmanaged(ts)
  /\ pc = [t \in Tools |-> "idle"]
  /\ op = [t \in Tools |-> Idle]
  /\ loaded = [t \in Tools |-> << >>]
  /\ next = [t \in Tools |-> Nothing]
  /\ last = "none"

Goto(t, place) == pc' = [pc EXCEPT ![t] = place]
Do(t, name, id) == op' = [op EXCEPT ![t] = [name |-> name, id |-> id]]

\* A step that only this tool sees.
Loads(t, targets) ==
  /\ loaded' = [loaded EXCEPT ![t] = targets]
  /\ Goto(t, "loaded")
  /\ UNCHANGED << file, next, last >>

Prepares(t, artifact) ==
  /\ next' = [next EXCEPT ![t] = artifact]
  /\ loaded' = [loaded EXCEPT ![t] = << >>]
  /\ Goto(t, "ready")
  /\ UNCHANGED << file, last >>

\* The tool ends and leaves the file alone.
Quits(t) ==
  /\ Goto(t, "idle")
  /\ op' = [op EXCEPT ![t] = Idle]
  /\ loaded' = [loaded EXCEPT ![t] = << >>]
  /\ next' = [next EXCEPT ![t] = Nothing]
  /\ UNCHANGED << file, last >>

Marked(targets, id, status) ==
  [i \in DOMAIN targets |->
     IF targets[i].id = id THEN [targets[i] EXCEPT !.status = status] ELSE targets[i]]

-------------------------------------------------------------------------------
(* write_targets                                                                *)

\* Mutant of Written: the wave is selected again on every write.
WrittenReselecting(artifact, targets) ==
  IF artifact.managed
  THEN Apply(targets \o artifact.deferred, artifact.summary.budgets, artifact.summary.policy)
  ELSE [artifact EXCEPT !.active = targets]

Written(artifact, targets) ==
  IF artifact.managed THEN Preserve(targets, artifact.deferred, artifact.summary)
  ELSE [artifact EXCEPT !.active = targets]

\* Mutant of Writable: what is about to be written is not validated.
WritableUnchecked(artifact, targets) ==
  /\ Valid(artifact)
  /\ artifact.managed => Preservable(targets, artifact.deferred, artifact.summary, FALSE)

\* The stored queue has to be valid, and the new one.
Writable(artifact, targets) ==
  /\ Valid(artifact)
  /\ artifact.managed => Preservable(targets, artifact.deferred, artifact.summary, FALSE)
  /\ Valid(Written(artifact, targets))

\* write_targets reads the artifact again, for its deferred targets and summary.
ReadForWrite(t) ==
  /\ pc[t] = "loaded" /\ Writable(file, loaded[t])
  /\ Prepares(t, Written(file, loaded[t]))
  /\ UNCHANGED op

RefuseWrite(t) ==
  /\ pc[t] = "loaded" /\ ~Writable(file, loaded[t])
  /\ Quits(t)

AfterWrite(name) ==
  CASE name \in {"research", "preflight"} -> "session"
    [] name = "restore" -> "restored"
    [] name \in {"bind", "append"} -> "bound"
    [] OTHER -> "idle"

Replace(t) ==
  /\ pc[t] = "ready"
  /\ file' = next[t]
  /\ last' = op[t].name
  /\ Goto(t, AfterWrite(op[t].name))
  /\ op' = IF AfterWrite(op[t].name) = "idle" THEN [op EXCEPT ![t] = Idle] ELSE op
  /\ next' = IF op[t].name = "restore" THEN next ELSE [next EXCEPT ![t] = Nothing]
  /\ UNCHANGED loaded

\* A prepared goal, a failed session or a crash: the tool ends where it is.
Leave(t) ==
  /\ pc[t] # "idle"
  /\ Quits(t)

-------------------------------------------------------------------------------
(* gra-targets --mark, gra-research                                             *)

Mark(t) ==
  /\ pc[t] = "idle" /\ "mark" \in Jobs
  /\ \E id \in TargetIds(file.active), status \in Marks :
       /\ Do(t, "mark", id)
       /\ Loads(t, Marked(file.active, id, status))

\* The target is reserved before the provider session starts.
Research(t) ==
  /\ pc[t] = "idle" /\ "research" \in Jobs
  /\ \E id \in TargetIds(file.active) :
       /\ Do(t, "research", id)
       /\ Loads(t, Marked(file.active, id, "in_progress"))

\* Session and preflight done, the queue is read once more for the outcome.
FinishResearch(t) ==
  /\ pc[t] = "session" /\ op[t].name \in {"research", "preflight"}
  /\ \E status \in {"reviewed", "needs_human_review"} \cap Marks :
       Loads(t, Marked(file.active, op[t].id, status))
  /\ Do(t, "outcome", op[t].id)

-------------------------------------------------------------------------------
(* gra-gapfill --generate                                                       *)

\* is_gapfill_candidate, existing_gapfill_target
NeedsGapfill(targets, i) ==
  /\ targets[i].gap
  /\ ~\E j \in DOMAIN targets :
        targets[j].gapOf = targets[i].id
          /\ (targets[j].source = "gapfill"
                \/ (targets[j].source = NoSource /\ targets[j].id \in GapfillIds))

\* build_gapfill_target
GapfillTarget(source, id) ==
  [id |-> id, source |-> "gapfill", risk |-> source.risk, status |-> "queued",
   shape |-> source.shape, fp |-> NoFp, lineage |-> {}, gapOf |-> source.id, gap |-> FALSE]

\* gapfill_candidates: in the order of their ids.  The next candidate with the
\* same id finds the gapfill target of the first.
InNeed(targets) ==
  {i \in DOMAIN targets :
     /\ NeedsGapfill(targets, i)
     /\ \A j \in 1..(i - 1) : NeedsGapfill(targets, j) => targets[j].id # targets[i].id}

\* next_gapfill_id: each gets the least id that is free.
WithGapfill(targets) ==
  LET places == InNeed(targets)
      needy == InOrder(places, {pair \in places \X places : targets[pair[1]].id < targets[pair[2]].id})
      ids   == GapfillIds \ TargetIds(targets)
      free  == InOrder(ids, Increasing(ids))
  IN targets \o [k \in DOMAIN needy |-> GapfillTarget(targets[needy[k]], free[k])]

Gapfill(t) ==
  /\ pc[t] = "idle" /\ "gapfill" \in Jobs
  /\ Cardinality(InNeed(file.active)) \in 1..Cardinality(GapfillIds \ TargetIds(file.active))
  /\ Do(t, "gapfill", NoId)
  /\ Loads(t, WithGapfill(file.active))

-------------------------------------------------------------------------------
(* gra-targets --rebalance, gra-taxonomy-preflight --fix                        *)

Rebalanced(artifact, budgets, policy) == Apply(Targets(artifact), budgets, policy)

CanRebalance(artifact, budgets, policy) ==
  Applicable(Targets(artifact)) /\ Valid(Rebalanced(artifact, budgets, policy))

\* Without options the stored budgets and policy are used again.
Rebalance(t) ==
  /\ pc[t] = "bound" \/ (pc[t] = "idle" /\ "rebalance" \in Jobs)
  /\ \E budgets \in BudgetChoices, policy \in Policies :
       /\ (file.managed /\ pc[t] = "bound") =>
             budgets = file.summary.budgets /\ policy = file.summary.policy
       /\ CanRebalance(file, budgets, policy)
       /\ Prepares(t, Rebalanced(file, budgets, policy))
  /\ Do(t, "rebalance", NoId)

RefuseRebalance(t) ==
  /\ pc[t] = "bound"
  /\ \A budgets \in BudgetChoices, policy \in Policies : ~CanRebalance(file, budgets, policy)
  /\ Quits(t)

NormalizedArtifact ==
  [file EXCEPT !.active = Normalized(@), !.deferred = Normalized(@)]

\* An operator, or gra-research after its session, normalizes the taxonomies.
Normalize(t) ==
  /\ "normalize" \in Jobs
  /\ pc[t] = "idle" \/ (pc[t] = "session" /\ op[t].name = "research")
  /\ Do(t, IF pc[t] = "idle" THEN "normalize" ELSE "preflight", op[t].id)
  /\ NormalizedArtifact # file /\ Valid(file)
  /\ IF file.managed
     THEN /\ RefreshKeeps(NormalizedArtifact) \/ RefreshReselects(NormalizedArtifact)
          /\ Prepares(t, Refresh(NormalizedArtifact))
     ELSE Prepares(t, NormalizedArtifact)

-------------------------------------------------------------------------------
(* Producers: gra-targets --generate and --bind-model-output, posture targets,  *)
(* gra-scanner-triage                                                           *)

\* write_model_generated_targets: the provider's marks and lineage are dropped.
Bound(ts) ==
  [i \in DOMAIN ts |-> [ts[i] EXCEPT !.source = "model_generated", !.fp = NoFp, !.lineage = {}]]

\* run_codex_exec: the provider writes a list of its own, or leaves the file.
ProviderWrites(t) ==
  /\ pc[t] = "idle" /\ "generate" \in Jobs
  /\ \E ts \in ModelLists : file' = Unmanaged(ts)
  /\ last' = "provider"
  /\ Goto(t, "generated")
  /\ Do(t, "bind", NoId)
  /\ UNCHANGED << loaded, next >>

BindModelOutput(t) ==
  /\ pc[t] = "generated"
  /\ Prepares(t, Unmanaged(Bound(Targets(file))))
  /\ UNCHANGED op

\* append_*_targets: a target whose id is new, even among contributors.
AppendPosture(t) ==
  /\ pc[t] = "bound" \/ (pc[t] = "idle" /\ "append" \in Jobs)
  /\ \E p \in Posture :
       /\ p.id \notin IdsWithLineage(Targets(file))
       /\ Loads(t, Append(file.active, p))
  /\ Do(t, "append", NoId)

\* gra-scanner-triage keeps the queue as it was before its session ...
Triage(t) ==
  /\ pc[t] = "idle" /\ "triage" \in Jobs /\ Valid(file)
  /\ next' = [next EXCEPT ![t] = file]
  /\ Goto(t, "session")
  /\ Do(t, "restore", NoId)
  /\ UNCHANGED << file, loaded, last >>

\* ... which may leave any list in the file ...
TriageProvider(t) ==
  /\ pc[t] = "session" /\ op[t].name = "restore"
  /\ \E ts \in ModelLists : file' = Unmanaged(ts)
  /\ last' = "provider"
  /\ Goto(t, "ready")
  /\ UNCHANGED << op, loaded, next >>

\* append_source_generated_targets: of the session's list only what is new.
AppendTriaged(t) ==
  /\ pc[t] = "restored"
  /\ \E p \in Posture :
       /\ p.source = "scanner" /\ p.id \notin IdsWithLineage(Targets(next[t]))
       /\ Loads(t, Append(next[t].active, p))
  /\ Do(t, "append", NoId)

NothingTriaged(t) ==
  /\ pc[t] = "restored"
  /\ Goto(t, "bound")
  /\ UNCHANGED << file, op, loaded, next, last >>

Step(t) ==
  \/ Mark(t) \/ Research(t) \/ FinishResearch(t)
  \/ Gapfill(t) \/ Rebalance(t) \/ RefuseRebalance(t) \/ Normalize(t)
  \/ ProviderWrites(t) \/ BindModelOutput(t)
  \/ AppendPosture(t) \/ Triage(t) \/ TriageProvider(t) \/ AppendTriaged(t) \/ NothingTriaged(t)
  \/ ReadForWrite(t) \/ RefuseWrite(t) \/ Replace(t) \/ Leave(t)

QueueNext == (\E t \in Working : Step(t)) /\ UNCHANGED setting

QueueSpec == QueueInit /\ [][QueueNext]_queueVars

-------------------------------------------------------------------------------

Selection(artifact) == Canonicals(artifact.summary.decisions, "active")

(* Whatever the tools do, and however they overlap, a policy-managed queue in   *)
(* the file passes its own validation: bound lineage, decisions that agree with *)
(* the lists, budgets, and a wave the policy would select once more             *)
(* (gralib.py:296-332, 474-495).                                                *)
StoredQueueIsValid == Valid(file)

(* Only an explicit rebalance, or a normalization that makes targets            *)
(* equivalent, changes which targets are in the wave or deferred: marks,        *)
(* research, appended seeds and gapfill do not (docs/TARGET_QUEUE.md:95-99).    *)
WaveIsStable ==
  [][(OneTool /\ file.managed /\ file'.managed /\ last' \in {"mark", "research", "outcome", "gapfill", "append"})
       => /\ Selection(file') = Selection(file)
          /\ TargetIds(file'.deferred) = TargetIds(file.deferred)]_file

(* No tool forgets a target: its id stays that of a target or of a contributor, *)
(* until a provider's new list is bound (target_queue.py:262-280).              *)
NoTargetIsForgotten ==
  [][(OneTool /\ last' # "provider" /\ last # "provider" /\ last' # "bind")
       => IdsWithLineage(Targets(file)) \subseteq IdsWithLineage(Targets(file'))]_file

StatusOf(artifact, id) ==
  {Targets(artifact)[i].status : i \in {j \in DOMAIN Targets(artifact) :
     id \in LineageIds(Targets(artifact)[j])}}

(* Work that was begun never becomes queued again by itself, not even when the  *)
(* normalization of taxonomies merges its target into another one               *)
(* (target_queue.py:873-896).                                                   *)
ProgressIsKept ==
  [][(OneTool /\ last' \in {"rebalance", "normalize", "preflight", "append", "gapfill"})
       => \A id \in TargetIds(Targets(file)) :
            "queued" \notin StatusOf(file, id) => StatusOf(file', id) # {"queued"}]_file

\* More contributors than a lineage holds, or lists that the unions and cuts of
\* _merge leave with another fingerprint than the target was grouped by.
TooManyMerge(ts) == \E g \in Groups(ts) : Cardinality(Merge(ts, g).lineage) > MaxLineage
MergingLosesContent(ts) ==
  \E g \in Groups(ts) \cup {{i} : i \in DOMAIN ts} : Merge(ts, g).fp # Fingerprint(Merge(ts, g))

(* A rebalance of a valid queue is refused for two reasons only: a merge goes   *)
(* beyond MAX_LINEAGE, or it changes what the fingerprint is made of.  In all   *)
(* other cases what the policy selects satisfies the validation and its replay, *)
(* whatever the budgets and the history of the queue                            *)
(* (target_queue.py:230, 268-273, 283-392, 534-794).                            *)
OnlyLimitsRefuseRebalance ==
  (file.managed /\ ~TooManyMerge(Targets(file)) /\ ~MergingLosesContent(Targets(file)))
    => \A budgets \in BudgetChoices, policy \in Policies : CanRebalance(file, budgets, policy)
===============================================================================
