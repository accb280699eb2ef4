--------------------------- MODULE StagedWorkflow ---------------------------
(***************************************************************************)
(* What a workflow execution promises, however many times gra-run is       *)
(* paused, interrupted, killed and resumed: the range is fixed once, every *)
(* stage of it succeeds at most once and only after everything it depends  *)
(* on, and the workflow is declared complete only when the whole range is. *)
(***************************************************************************)
CONSTANTS Stage, DependsOn

VARIABLES
  phase,   \* "unplanned", "open" or "closed"
  scope,   \* the stages this workflow has to carry out
  given,   \* the stages whose results it takes for granted
  done     \* the stages that have succeeded

vars == <<phase, scope, given, done>>

TypeOK ==
  /\ phase \in {"unplanned", "open", "closed"}
  /\ scope \subseteq Stage
  /\ given \subseteq Stage
  /\ done \subseteq scope

Init ==
  /\ phase = "unplanned"
  /\ scope = {}
  /\ given = {}
  /\ done = {}

\* The range is chosen, once and for all.
Open(S, G) ==
  /\ phase = "unplanned"
  /\ S # {}
  /\ S \cap G = {}
  /\ phase' = "open"
  /\ scope' = S
  /\ given' = G
  /\ UNCHANGED done

\* A stage succeeds, for the first and only time.
Complete(s) ==
  /\ phase = "open"
  /\ s \in scope \ done
  /\ DependsOn[s] \subseteq done \cup given
  /\ done' = done \cup {s}
  /\ UNCHANGED <<phase, scope, given>>

\* Nothing of the range is left.
Close ==
  /\ phase = "open"
  /\ scope = done
  /\ phase' = "closed"
  /\ UNCHANGED <<scope, given, done>>

Next ==
  \/ \E S, G \in SUBSET Stage : Open(S, G)
  \/ \E s \in Stage : Complete(s)
  \/ Close

Spec == Init /\ [][Next]_vars
=============================================================================
