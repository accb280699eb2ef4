----------------------------- MODULE TargetPolicy -----------------------------
(* The deterministic target queue policy: lib/target_queue.py.                  *)
(*                                                                              *)
(* A target is [id, source, risk, status, shape, fp, lineage, gapOf, gap].      *)
(* "shape" stands for the structured fields as they are written, Signature for  *)
(* what the fingerprint takes of them.  "lineage" is a set of <<source, id>>    *)
(* and {} where the field is absent, gapOf is source_target_id.  Ids are        *)
(* numbers, as only their order matters; priorities are equal.  The counts of a *)
(* summary are left out, being determined by its decisions.                     *)
EXTENDS Naturals, Sequences, FiniteSets

CONSTANTS
  Signature,        \* each shape with its lists normalized, "weak" without a signal
  CanonicalShape,   \* what taxonomy normalization makes of each shape
  MergedShape,      \* a shape with the lists of a group of shapes united and cut
  MaxLineage        \* MAX_LINEAGE

Shapes == DOMAIN CanonicalShape

\* Nothing is assumed of what a union or a cut does to a signature.
ASSUME PolicyAssumption ==
  /\ DOMAIN Signature = Shapes
  /\ CanonicalShape \in [Shapes -> Shapes]
  /\ MergedShape \in [Shapes -> [SUBSET Shapes -> Shapes]]

TargetSources ==
  {"model_generated", "agent_surface", "provenance", "scorecard", "dependency", "scanner", "gapfill"}
BudgetedSources == TargetSources \ {"gapfill"}
Statuses == {"queued", "in_progress", "reviewed", "skipped", "needs_human_review"}

NoSource == "unmarked"
NoFp == << >>
NoId == 0
Fingerprints == {NoFp} \cup ({"id"} \X Nat) \cup ({"shape"} \X {Signature[s] : s \in Shapes})
Target ==
  [id : Nat, source : TargetSources \cup {NoSource}, risk : Nat, status : Statuses, shape : Shapes,
   fp : Fingerprints, lineage : SUBSET (TargetSources \X Nat), gapOf : Nat, gap : BOOLEAN]

NoDecision == [action |-> "none", reason |-> "none"]
NoSummary == [policy |-> "none", budgets |-> << >>, inputs |-> {}, decisions |-> {}]

\* Trusted producers come before model prose.
CanonicalSourceOrder ==
  << "scanner", "dependency", "agent_surface", "provenance", "scorecard", "gapfill", "model_generated" >>
SourceRank(s) == CHOOSE i \in DOMAIN CanonicalSourceOrder : CanonicalSourceOrder[i] = s

\* An unmarked target counts as model generated, whatever its id looks like.
Source(t) == IF t.source \in TargetSources THEN t.source ELSE "model_generated"

Fingerprint(t) ==
  IF Signature[t.shape] = "weak" THEN << "id", t.id >> ELSE << "shape", Signature[t.shape] >>

Lineage(t) == IF t.lineage = {} THEN {<< Source(t), t.id >>} ELSE t.lineage
LineageIds(t) == {entry[2] : entry \in Lineage(t)}

High(t) == t.risk <= 1

Targets(art) == art.active \o art.deferred
TargetIds(ts) == {ts[i].id : i \in DOMAIN ts}
IdsWithLineage(ts) == TargetIds(ts) \cup UNION {LineageIds(ts[i]) : i \in DOMAIN ts}

\* Every id is that of one target, or of one contributor to one target.
LineageIsUnique(ts) ==
  /\ \A i \in DOMAIN ts :
       /\ Cardinality(LineageIds(ts[i])) = Cardinality(Lineage(ts[i]))
       /\ << Source(ts[i]), ts[i].id >> \in Lineage(ts[i])
  /\ \A i, j \in DOMAIN ts : i # j => LineageIds(ts[i]) \cap LineageIds(ts[j]) = {}

-------------------------------------------------------------------------------
(* apply_target_queue_policy                                                    *)

\* _canonical_key
CanonicalBefore(t, u) ==
  \/ SourceRank(Source(t)) < SourceRank(Source(u))
  \/ /\ Source(t) = Source(u)
     /\ t.risk < u.risk \/ (t.risk = u.risk /\ t.id < u.id)

\* _union_strings and _union_taxonomies over the group, put into one of its targets.
United(ts, group, lead) == MergedShape[ts[lead].shape][{ts[i].shape : i \in group}]

\* Mutant of Merge: the lineage of the other contributors is not taken over.
MergeForgetful(ts, group) ==
  LET lead == CHOOSE i \in group : \A j \in group \ {i} : CanonicalBefore(ts[i], ts[j])
  IN [ts[lead] EXCEPT !.source = Source(ts[lead]), !.shape = United(ts, group, lead),
                      !.fp = Fingerprint(ts[lead]), !.lineage = Lineage(ts[lead])]

\* The first of the group in canonical order stands for all, at the highest risk
\* and with the lists of all; the fingerprint is the one they were grouped by.
Merge(ts, group) ==
  LET lead == CHOOSE i \in group : \A j \in group \ {i} : CanonicalBefore(ts[i], ts[j])
      least == CHOOSE i \in group : \A j \in group : ts[i].risk <= ts[j].risk
  IN [ts[lead] EXCEPT !.source = Source(ts[lead]),
                      !.risk = ts[least].risk,
                      !.shape = United(ts, group, lead),
                      !.fp = Fingerprint(ts[lead]),
                      !.lineage = UNION {Lineage(ts[i]) : i \in group}]

\* Queued seeds compete; what an operator acted on, and gapfill, does not.
Competing(t) == t.status = "queued" /\ Source(t) \in BudgetedSources

Groups(ts) ==
  LET competing == {i \in DOMAIN ts : Competing(ts[i])}
  IN {{j \in competing : Fingerprint(ts[j]) = Fingerprint(ts[i])} : i \in competing}

First(group) == CHOOSE i \in group : \A j \in group : i <= j

\* The members of S in the order R, a set of pairs: the k-th has k - 1 before it.
Ahead(S, R, x) == {y \in S : << y, x >> \in R}
InOrder(S, R) == [k \in 1..Cardinality(S) |-> CHOOSE x \in S : Cardinality(Ahead(S, R, x)) = k - 1]

Increasing(I) == {pair \in I \X I : pair[1] < pair[2]}

PolicyOrder(ts, policy) ==
  {pair \in Groups(ts) \X Groups(ts) :
     IF policy = "strict" THEN First(pair[1]) < First(pair[2])
     ELSE CanonicalBefore(Merge(ts, pair[1]), Merge(ts, pair[2]))}

Ordered(ts, policy) == InOrder(Groups(ts), PolicyOrder(ts, policy))

\* What a list has at these places, in the order of the list.
Sublist(ts, I) ==
  LET places == InOrder(I, Increasing(I)) IN [k \in DOMAIN places |-> ts[places[k]]]

\* The places in I, a part of the wave, that a source has taken.
OfSource(ts, I, s) == Cardinality({i \in I : ts[i].source = s})

\* Mutant of Fits: the last place of a budget is given away twice.
FitsOneMore(seeds, wave, k, budgets) ==
  /\ OfSource(seeds, wave, seeds[k].source) <= budgets.of[seeds[k].source]
  /\ Cardinality(wave) <= budgets.total

Fits(seeds, wave, k, budgets) ==
  /\ OfSource(seeds, wave, seeds[k].source) < budgets.of[seeds[k].source]
  /\ Cardinality(wave) < budgets.total

DeferReason(seeds, wave, k, budgets) ==
  IF OfSource(seeds, wave, seeds[k].source) < budgets.of[seeds[k].source] THEN "total_budget_exhausted"
  ELSE "source_budget_exhausted"

RetainReason(t) == IF t.source = "gapfill" THEN "workflow_target_retained" ELSE "status_retained"

Decision(id, canonical, source, action, reason) ==
  [target |-> id, canonical |-> canonical, source |-> source, action |-> action, reason |-> reason]

\* record_group: one decision for the target, one for each other contributor.
DecisionsFor(t, action, reason) ==
  {IF entry[2] = t.id THEN Decision(t.id, t.id, entry[1], action, reason)
   ELSE Decision(entry[2], t.id, entry[1], "merged", "structured_fingerprint_match") :
     entry \in Lineage(t)}

\* Seeds in order, each taken into the wave while its budgets last.
Before(I, k) == {i \in I : i < k}

Taken(seeds, budgets) ==
  CHOOSE wave \in SUBSET DOMAIN seeds :
    \A k \in DOMAIN seeds : k \in wave <=> Fits(seeds, Before(wave, k), k, budgets)

Select(seeds, budgets) ==
  LET wave == Taken(seeds, budgets)
      rest == DOMAIN seeds \ wave
      reason(k) == DeferReason(seeds, Before(wave, k), k, budgets)
  IN [active |-> Sublist(seeds, wave), deferred |-> Sublist(seeds, rest),
      decisions |-> UNION ({DecisionsFor(seeds[k], "active", "selected") : k \in wave}
                             \cup {DecisionsFor(seeds[k], "deferred", reason(k)) : k \in rest})]

Applicable(ts) ==
  /\ Cardinality(TargetIds(ts)) = Len(ts)
  /\ LineageIsUnique(ts)
  /\ \A g \in Groups(ts) : Cardinality(Merge(ts, g).lineage) <= MaxLineage

\* apply_target_queue_policy
Apply(ts, budgets, policy) ==
  LET groups == Ordered(ts, policy)
      wave == Select([k \in DOMAIN groups |-> Merge(ts, groups[k])], budgets)
      others == {i \in DOMAIN ts : ~Competing(ts[i])}
      retained == Sublist([i \in DOMAIN ts |-> Merge(ts, {i})], others)
      decisions == wave.decisions \cup
        UNION {DecisionsFor(retained[k], "retained", RetainReason(retained[k])) : k \in DOMAIN retained}
  IN [managed |-> TRUE, active |-> wave.active \o retained, deferred |-> wave.deferred,
      summary |-> [policy |-> policy, budgets |-> budgets,
                   inputs |-> {d.target : d \in decisions}, decisions |-> decisions]]

-------------------------------------------------------------------------------
(* preserve_target_queue_membership                                             *)

DecisionOf(summary, id) ==
  IF \E d \in summary.decisions : d.target = id
  THEN CHOOSE d \in summary.decisions : d.target = id
  ELSE NoDecision

\* refresh_one
Refreshed(t) == [t EXCEPT !.source = Source(t), !.fp = Fingerprint(t), !.lineage = Lineage(t)]

Preservable(active, deferred, summary, newFingerprints) ==
  /\ \A t \in {(active \o deferred)[i] : i \in DOMAIN (active \o deferred)} :
       t.fp \in {NoFp, Fingerprint(t)} \/ newFingerprints
  /\ \A i \in DOMAIN deferred : DecisionOf(summary, deferred[i].id).action = "deferred"
  /\ \A i \in DOMAIN active : DecisionOf(summary, active[i].id).action # "deferred"
  /\ LineageIsUnique(active \o deferred)

\* What stays keeps its decision; what is new is retained outside the budgets.
KeptDecision(summary, t) ==
  LET old == DecisionOf(summary, t.id)
  IN IF old.action \in {"active", "retained", "deferred"}
     THEN DecisionsFor(t, old.action, old.reason)
     ELSE DecisionsFor(t, "retained",
            IF t.source = "gapfill" THEN "workflow_target_retained" ELSE "added_after_selection")

Preserve(active, deferred, summary) ==
  LET newActive == [i \in DOMAIN active |-> Refreshed(active[i])]
      newDeferred == [i \in DOMAIN deferred |-> Refreshed(deferred[i])]
      all == newActive \o newDeferred
  IN [managed |-> TRUE, active |-> newActive, deferred |-> newDeferred,
      summary |-> [summary EXCEPT !.decisions =
                     UNION {KeptDecision(summary, all[i]) : i \in DOMAIN all}]]

-------------------------------------------------------------------------------
(* validate_target_queue_artifact                                               *)

\* The wave as it was selected: later progress does not take part in it.
Historical(ts, summary) ==
  [i \in DOMAIN ts |->
     LET d == DecisionOf(summary, ts[i].id)
     IN [ts[i] EXCEPT !.status =
           IF d.action \in {"active", "deferred"} THEN "queued"
           ELSE IF d.action = "retained" /\ d.reason = "added_after_selection" THEN "in_progress"
           ELSE @]]

Canonicals(decisions, action) ==
  {d.canonical : d \in {e \in decisions : e.target = e.canonical /\ e.action = action}}

\* The stored policy selects the stored wave once more.
ReplayAgrees(art) ==
  LET history == Historical(Targets(art), art.summary)
      again == Apply(history, art.summary.budgets, art.summary.policy).summary.decisions
  IN /\ Applicable(history)
     /\ \A action \in {"active", "deferred"} :
          Canonicals(again, action) = Canonicals(art.summary.decisions, action)

\* A decision is about a target where it says, and about the wave it says.
DecisionIsSound(art, d) ==
  /\ d.canonical \in CASE d.action \in {"active", "retained"} -> TargetIds(art.active)
                       [] d.action = "deferred" -> TargetIds(art.deferred)
                       [] OTHER -> TargetIds(Targets(art))
  /\ (d.action # "retained" \/ d.reason = "status_retained") => d.target \in art.summary.inputs
  /\ d.reason = "added_after_selection" => d.target \notin art.summary.inputs

WithinBudgets(summary) ==
  LET taken(s) == {d \in summary.decisions : d.action = "active" /\ d.source \in s}
  IN /\ Cardinality(taken(TargetSources)) <= summary.budgets.total
     /\ \A s \in BudgetedSources : Cardinality(taken({s})) <= summary.budgets.of[s]

Valid(art) ==
  art.managed =>
    /\ Cardinality(TargetIds(Targets(art))) = Len(Targets(art))
    /\ \A i \in DOMAIN Targets(art) :
         LET t == Targets(art)[i]
         IN /\ t.source \in TargetSources
            /\ t.fp = Fingerprint(t)
            /\ Cardinality(t.lineage) \in 1..MaxLineage
    /\ \A d \in art.summary.decisions : DecisionIsSound(art, d)
    /\ art.summary.inputs \subseteq {d.target : d \in art.summary.decisions}
    /\ WithinBudgets(art.summary)
    /\ Preservable(art.active, art.deferred, art.summary, FALSE)
    /\ Preserve(art.active, art.deferred, art.summary) = art
    /\ ReplayAgrees(art)

-------------------------------------------------------------------------------
(* refresh_target_queue_after_semantic_normalization                            *)

Normalized(ts) == [i \in DOMAIN ts |-> [ts[i] EXCEPT !.shape = CanonicalShape[ts[i].shape]]]

StatusPrecedence == << "needs_human_review", "in_progress", "reviewed", "skipped" >>

\* The progress of everything that was merged into t, the most cautious first.
Progress(ts, t) ==
  LET progressed == {ts[i].status : i \in {j \in DOMAIN ts : ts[j].id \in LineageIds(t)}} \ {"queued"}
  IN IF progressed = {} THEN t.status
     ELSE StatusPrecedence[CHOOSE k \in DOMAIN StatusPrecedence :
            /\ StatusPrecedence[k] \in progressed
            /\ \A j \in 1..(k - 1) : StatusPrecedence[j] \notin progressed]

WithProgress(ts, list) ==
  [i \in DOMAIN list |-> [list[i] EXCEPT !.status = Progress(ts, list[i])]]

\* Mutant of Reselect: the statuses of the replay are kept.
ReselectQueued(art) ==
  Apply(Historical(Targets(art), art.summary), art.summary.budgets, art.summary.policy)

\* Targets became equivalent: select again as of the stored wave, then put the
\* operators' progress back.
Reselect(art) ==
  LET again == Apply(Historical(Targets(art), art.summary), art.summary.budgets, art.summary.policy)
  IN [again EXCEPT !.active = WithProgress(Targets(art), @),
                   !.deferred = WithProgress(Targets(art), @)]

RefreshKeeps(art) ==
  /\ Preservable(art.active, art.deferred, art.summary, TRUE)
  /\ Valid(Preserve(art.active, art.deferred, art.summary))

RefreshReselects(art) ==
  /\ ~RefreshKeeps(art)
  /\ Preservable(art.active, art.deferred, art.summary, TRUE)
  /\ Applicable(Historical(Targets(art), art.summary))
  /\ Valid(Reselect(art))

Refresh(art) ==
  IF RefreshKeeps(art) THEN Preserve(art.active, art.deferred, art.summary) ELSE Reselect(art)
===============================================================================
