------------------------------- MODULE RunState -------------------------------
(* The pause and block state of a run: reports/run-state.json, the commands of  *)
(* bin/gra-run-state that change it, and the two gates that read it: the one of *)
(* the deep-review tools (run_state.paused_error) and the one of the workflow   *)
(* executor (_run_state_gate), which stops at a block too.                      *)
(*                                                                              *)
(* The file is rewritten in place: it is truncated and then written, so a       *)
(* reader in between, and every reader after a crash in between, finds no JSON. *)
(* And it is read without a lock: between a look at it and what the look allows *)
(* others may rewrite it.                                                       *)
EXTENDS Naturals, Sequences

CONSTANTS
  Operators,   \* gra-run-state processes
  Tools,       \* gra-research, gra-gapfill, gra-targets
  Stages       \* stages of a workflow execution

ASSUME UsersDiffer == Operators \cap (Tools \cup Stages) = {} /\ Tools \cap Stages = {}

Gated == Tools \cup Stages
Statuses == {"active", "paused", "blocked"}
Contents == Statuses \cup {"missing", "torn"}
Commands == {"pause", "block", "clear"}

VARIABLES
  file,      \* what reports/run-state.json holds
  command,   \* what each gra-run-state process was asked to do
  pc,        \* where each process is
  log,       \* history: the states recorded so far, each with the length the log
             \* had when the --clear-pause that wrote it found the run paused
  found,     \* history: that length, for each gra-run-state process
  looked     \* history: the length of the log at the last look of each other one

vars == << file, command, pc, log, found, looked >>

OperatorPlaces == {"idle", "write", "truncated", "done", "refused", "crashed"}
GatedPlaces == {"begun", "permitted", "prepared", "entering", "session", "refused"}

TypeOK ==
  /\ file \in Contents
  /\ command \in [Operators -> Commands]
  /\ DOMAIN pc = Operators \cup Gated
  /\ \A o \in Operators : pc[o] \in OperatorPlaces
  /\ \A g \in Gated : pc[g] \in GatedPlaces
  /\ log \in Seq([status : Statuses, found : Nat])
  /\ found \in [Operators -> Nat] /\ looked \in [Gated -> Nat]

Goto(p, place) == pc' = [pc EXCEPT ![p] = place]

\* Mutant of Readable: a file without JSON counts as none.
ReadableLenient(content) == TRUE

\* load_run_state raises for a file without JSON, or with another status.
Readable(content) == content # "torn"

\* The status load_run_state returns: empty_state() where there is no file.
Status(content) ==
  IF content = "missing" \/ ~Readable(content) THEN "active" ELSE content

\* paused_error: unreadable and paused runs are refused, blocked ones are not.
ToolGateOpen == Readable(file) /\ Status(file) # "paused"

\* _run_state_gate
StageGateOpen == Readable(file) /\ Status(file) = "active"

GateOpen(g) == IF g \in Tools THEN ToolGateOpen ELSE StageGateOpen

\* The statuses at which g has to wait.
Stops(g) == IF g \in Tools THEN {"paused"} ELSE {"paused", "blocked"}

Init ==
  /\ file \in {"missing"} \cup Statuses
  /\ command \in [Operators -> Commands]
  /\ pc = [p \in Operators \cup Gated |-> IF p \in Operators THEN "idle" ELSE "begun"]
  /\ log = << [status |-> Status(file), found |-> 0] >>
  /\ found = [o \in Operators |-> 0]
  /\ looked = [g \in Gated |-> 0]

-------------------------------------------------------------------------------
(* gra-run-state                                                                *)

\* --pause and --block build a fresh state and write it whatever is there.
Stop(o) ==
  /\ pc[o] = "idle" /\ command[o] # "clear"
  /\ Goto(o, "write")
  /\ UNCHANGED << file, command, log, found, looked >>

\* Mutant of FoundPaused: --clear-pause lifts whatever is there.
FoundReadable(content) == Readable(content)

FoundPaused(content) == Readable(content) /\ Status(content) = "paused"

\* --clear-pause goes on only from a paused state, which it reads here.
ReadPaused(o) ==
  /\ pc[o] = "idle" /\ command[o] = "clear" /\ FoundPaused(file)
  /\ found' = [found EXCEPT ![o] = Len(log)]
  /\ Goto(o, "write")
  /\ UNCHANGED << file, command, log, looked >>

NotPaused(o) ==
  /\ pc[o] = "idle" /\ command[o] = "clear" /\ ~FoundPaused(file)
  /\ Goto(o, "refused")
  /\ UNCHANGED << file, command, log, found, looked >>

\* write_run_state: write_text opens the file and thereby empties it ...
Truncate(o) ==
  /\ pc[o] = "write"
  /\ file' = "torn"
  /\ Goto(o, "truncated")
  /\ UNCHANGED << command, log, found, looked >>

\* pause_run, block_run, clear_pause
Written(c) == CASE c = "pause" -> "paused" [] c = "block" -> "blocked" [] c = "clear" -> "active"

\* ... and writes the state.
Write(o) ==
  /\ pc[o] = "truncated"
  /\ file' = Written(command[o])
  /\ log' = Append(log, [status |-> Written(command[o]), found |-> found[o]])
  /\ Goto(o, "done")
  /\ UNCHANGED << command, found, looked >>

Crash(o) ==
  /\ pc[o] \in {"write", "truncated"}
  /\ Goto(o, "crashed")
  /\ UNCHANGED << file, command, log, found, looked >>

-------------------------------------------------------------------------------
(* The processes behind a gate                                                  *)

\* A tool looks at the state before it prepares its target, and run_codex_exec
\* does so again before the provider session; a stage's session is looked for once.
Looks(g, from, to) ==
  /\ pc[g] = from /\ GateOpen(g)
  /\ looked' = [looked EXCEPT ![g] = Len(log)]
  /\ Goto(g, to)
  /\ UNCHANGED << file, command, log, found >>

LookFirst(g) == g \in Tools /\ Looks(g, "begun", "permitted")

\* The prompt and the target's status are written on the strength of that look.
Prepare(g) ==
  /\ pc[g] = "permitted"
  /\ Goto(g, "prepared")
  /\ UNCHANGED << file, command, log, found, looked >>

LookAgain(g) == Looks(g, IF g \in Tools THEN "prepared" ELSE "begun", "entering")

StartSession(g) ==
  /\ pc[g] = "entering"
  /\ Goto(g, "session")
  /\ UNCHANGED << file, command, log, found, looked >>

Refuse(g) ==
  /\ pc[g] \in {"begun", "prepared"} /\ ~GateOpen(g)
  /\ Goto(g, "refused")
  /\ UNCHANGED << file, command, log, found, looked >>

Operate(o) == Stop(o) \/ ReadPaused(o) \/ NotPaused(o) \/ Truncate(o) \/ Write(o)

Gate(g) == LookFirst(g) \/ Prepare(g) \/ LookAgain(g) \/ StartSession(g) \/ Refuse(g)

Next ==
  \/ \E o \in Operators : Operate(o) \/ Crash(o)
  \/ \E g \in Gated : Gate(g)

Spec == Init /\ [][Next]_vars

-------------------------------------------------------------------------------
\* The n-th state recorded lifted a stop of g recorded as the i-th: by taking its
\* place (a block does not stop a tool), or as a --clear-pause that found the run
\* paused since then, or that had looked before the stop was recorded.
LiftedBy(n, g, i) ==
  /\ log[n].status \notin Stops(g)
  /\ log[n].status = "active" =>
       log[n].found < i \/ \E k \in i..log[n].found : log[k].status = "paused"

(* Whoever prepares a target or starts a session found every stop lifted that   *)
(* had been recorded when it looked, however many gra-run-state processes       *)
(* overlap or die while they rewrite the file.  A block in particular is lifted *)
(* by nothing but a clearing that overlapped it, or a pause recorded over it    *)
(* and cleared (run_state.py:79-107, 179-187, gra-run-state:125-130).           *)
StopsAreHeeded ==
  \A g \in Gated : pc[g] \notin {"begun", "refused"} =>
    \A i \in 1..looked[g] : log[i].status \in Stops(g) =>
      \E n \in (i + 1)..looked[g] : LiftedBy(n, g, i)
===============================================================================
