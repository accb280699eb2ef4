------------------------- MODULE MCWorkflowExecutor -------------------------
(***************************************************************************)
(* Small plans for TLC.                                                    *)
(***************************************************************************)
EXTENDS WorkflowReport, TLC

\* Stage 3 needs two stages, and the output of one of them.
MeetDeps   == <<{}, {}, {1, 2}>>
MeetInputs == <<{}, {}, {1}>>

\* A join: stage 4 needs two stages that do not need each other.
JoinDeps   == <<{}, {1}, {1}, {2, 3}>>
JoinInputs == <<{}, {1}, {}, {2}>>

\* Stage 2 is skipped; stage 5 needs the output of an earlier run of it.  With
\* --until 1 stage 3 is out of range: stage 4 is a dead end and stops stage 5.
StopDeps   == <<{}, {1}, {}, {1, 3}, {1}>>
StopInputs == <<{}, {1}, {}, {1}, {2}>>

ProcSymmetry == Permutations(Procs)
=============================================================================
