---------------------------- MODULE MCCommandEvents ----------------------------
(* Instance of CommandEvents for TLC.  One text matches two provider classes    *)
(* and names a delay beyond the bound.                                          *)
EXTENDS CommandEvents, TLC

Delayed(n, u) == << [n |-> n, unit |-> u] >>

MCTexts ==
  { [context |-> TRUE, matches |-> {"rate_limit", "timeout"}, delays |-> Delayed(25, "h")],
    [context |-> TRUE, matches |-> {"timeout"}, delays |-> << >>] }

\* A stage's command without a preflight beside one with any: one that reserves the
\* log, one that withdraws the file it created, or none.
MCPreflights ==
  [p \in Procs |-> IF p \in Attempts THEN {"none"} ELSE {"none", "reserve", "release"}]

===============================================================================
