---------------------------- MODULE WorkflowPlan ----------------------------
(***************************************************************************)
(* The plan gra-run works on and the part of it one execution selects.     *)
(*                                                                         *)
(* A plan is the ordered stage list workflow_orchestrator.build_plan makes *)
(* from a validated profile.  Stages are named by their position 1..N in   *)
(* that order, which is a topological order: every dependency of a stage   *)
(* comes before it.                                                        *)
(***************************************************************************)
EXTENDS Naturals, FiniteSets

CONSTANTS
  N,          \* number of stages in the plan
  DependsOn,  \* DependsOn[s]: the stages s declares in depends_on
  Inputs,     \* Inputs[s]: the stages that produce a required input of s
  Producers,  \* the stages that declare at least one output file
  Skipped     \* the stages the operator left out with --skip

Stage == 1..N

\* None for an optional stage: --from or --until not given, no resume stage.
NoStage == 0

Executable == Stage \ Skipped

\* The stages s depends on, directly or not.
Ancestors[s \in Stage] ==
  DependsOn[s] \cup UNION {Ancestors[d] : d \in DependsOn[s]}

Descendants(s) == {t \in Stage : s \in Ancestors[t]}

\* What validate_profile and build_plan guarantee of every plan they return.
ASSUME PlanAssumption ==
  /\ N \in Nat \ {0}
  /\ DependsOn \in [Stage -> SUBSET Stage]
  /\ \A s \in Stage : \A d \in DependsOn[s] : d < s
  /\ Inputs \in [Stage -> SUBSET Stage]
  /\ Producers \subseteq Stage
  /\ \A s \in Executable : Inputs[s] \subseteq Producers \cap (Ancestors[s] \cup Skipped)
  /\ Skipped \subseteq Stage
  /\ \A s \in Executable : DependsOn[s] \cap Skipped = {}

First(S) == CHOOSE s \in S : \A t \in S : s <= t

\* The first stage of a set in plan order, None when the set is empty.
ResumePoint(S) == IF S = {} THEN NoStage ELSE First(S)

-----------------------------------------------------------------------------
(* The range --from / --until selects. *)

FromClosure(from) ==
  IF from = NoStage THEN Stage ELSE {from} \cup Descendants(from)

UntilClosure(until) ==
  IF until = NoStage THEN Stage ELSE {until} \cup Ancestors[until]

ValidRange(from, until) ==
  /\ Executable # {}
  /\ {from, until} \subseteq Executable \cup {NoStage}
  /\ from # NoStage /\ until # NoStage => until \in {from} \cup Descendants(from)

Selected(from, until) ==
  Executable \cap FromClosure(from) \cap UntilClosure(until)

\* Stages outside the range whose results the range takes for granted.
Prerequisites(from, until) ==
  (UNION {Ancestors[s] : s \in Selected(from, until)}) \ Selected(from, until)

\* Stages an --until run leaves pending for a later --resume.
Continuation(until) ==
  IF until = NoStage THEN {} ELSE Descendants(until) \cap Executable

InitialStatus(s, from, until) ==
  CASE s \in Skipped -> "skipped_by_scope"
    [] s \in Executable \cap Prerequisites(from, until) -> "external_prerequisite"
    [] s \in Selected(from, until) \cup Continuation(until) -> "pending"
    [] OTHER -> "out_of_range"
=============================================================================
