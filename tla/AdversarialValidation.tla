------------------------ MODULE AdversarialValidation ------------------------
(***************************************************************************)
(* gra-adversarial-validate: independent votes of an agent on findings and  *)
(* chains, one agent pass per vote, aggregated into reports/validation.json *)
(* under a policy; or a single pass that writes the report itself.          *)
(*                                                                         *)
(* A report of votes is what the report of one pass says of each subject.   *)
(* Severities, confidences, summaries and owner routes are copied along and *)
(* are not told apart.                                                      *)
(***************************************************************************)
EXTENDS Naturals, Sequences, FiniteSets

CONSTANTS
  Voters,     \* gra-adversarial-validate processes
  Subjects,   \* the findings and chains of the run
  Chosen,     \* the subjects each process selects
  Passes,     \* --votes of each process
  Policy,     \* --policy of each process
  Ballots,    \* the reports the agent of a pass may write
  NoReport

Decisions == {"confirm", "downgrade", "invalidate", "needs-human-review"}
Policies == {"human-review-on-split", "precision-biased", "recall-biased"}

Reports == UNION {[S -> Decisions \cup {"other"}] : S \in SUBSET Subjects}
ValidationReports ==
  [requested : Nat, policy : Policies, votes : Seq(Reports), decisions : Reports]
Missing == "needs-human-review"

ASSUME VotingAssumption ==
  /\ Chosen \in [Voters -> SUBSET Subjects]
  /\ Passes \in [Voters -> Nat \ {0}]
  /\ Policy \in [Voters -> Policies]
  /\ Ballots \subseteq Reports
  /\ NoReport \notin Reports \cup ValidationReports

-----------------------------------------------------------------------------
(* The decision of a sequence of votes. *)

Count(votes, decision) == Cardinality({i \in DOMAIN votes : votes[i] = decision})

VotedBefore(votes, d, e) == \E i \in DOMAIN votes : votes[i] = d /\ \A j \in 1 .. i - 1 : votes[j] # e

(* The most frequent decision; of several, the one voted first. *)
Leading(votes) ==
  CHOOSE d \in Decisions : \A e \in Decisions \ {d} :
    \/ Count(votes, e) < Count(votes, d)
    \/ Count(votes, e) = Count(votes, d) /\ VotedBefore(votes, d, e)

Cautious == << "invalidate", "downgrade", "needs-human-review", "confirm" >>
Eager == << "confirm", "downgrade", "needs-human-review", "invalidate" >>

Preferred(order, votes) ==
  order[CHOOSE i \in DOMAIN order :
          /\ Count(votes, order[i]) > 0
          /\ \A j \in 1 .. i - 1 : Count(votes, order[j]) = 0]

Split(votes) == \E i, j \in DOMAIN votes : votes[i] # votes[j]

Undecided(votes, policy) ==
  IF policy = "precision-biased" THEN Preferred(Cautious, votes)
  ELSE IF policy = "recall-biased" THEN Preferred(Eager, votes)
  ELSE "needs-human-review"

(* A mutant of Aggregate: half of the votes decide. *)
AggregateByHalf(votes, policy) ==
  IF votes = << >> \/ (policy = "human-review-on-split" /\ Split(votes))
  THEN "needs-human-review"
  ELSE IF 2 * Count(votes, Leading(votes)) >= Len(votes) THEN Leading(votes)
  ELSE Undecided(votes, policy)

(* What the command records. *)
Aggregate(votes, policy) ==
  IF votes = << >> \/ (policy = "human-review-on-split" /\ Split(votes))
  THEN "needs-human-review"
  ELSE IF 2 * Count(votes, Leading(votes)) > Len(votes) THEN Leading(votes)
  ELSE Undecided(votes, policy)

(* What the report validator expects: of several most frequent decisions, any. *)
Winner(votes) ==
  CHOOSE d \in Decisions : \A e \in Decisions : Count(votes, e) <= Count(votes, d)

Expected(votes, policy) ==
  IF votes = << >> \/ (policy = "human-review-on-split" /\ Split(votes))
  THEN "needs-human-review"
  ELSE IF 2 * Count(votes, Winner(votes)) > Len(votes) THEN Winner(votes)
  ELSE Undecided(votes, policy)

-----------------------------------------------------------------------------

VARIABLES
  validation,  \* reports/validation.json
  voteFiles,   \* the report of each pass of a selection
  voting,      \* where each process is
  pass,        \* the pass a process is in
  gathered     \* the reports a process has read

votingVars == << validation, voteFiles, voting, pass, gathered >>

VotingPlaces == {"idle", "single", "ensure", "vote", "agent", "read", "compose", "done", "dead"}

(* A report of one pass, without votes; or an aggregate. *)
Single(report) ==
  [requested |-> 1, policy |-> "human-review-on-split", votes |-> << >>, decisions |-> report]

(* What a pass says of a subject: the normalised decision of its first record on it. *)
VoteOf(report, subject) ==
  IF report # NoReport /\ subject \in DOMAIN report /\ report[subject] \in Decisions
  THEN report[subject] ELSE Missing

VotesOn(reports, subject) == [k \in DOMAIN reports |-> VoteOf(reports[k], subject)]

Composed(p) ==
  [requested |-> Passes[p], policy |-> Policy[p], votes |-> gathered[p],
   decisions |-> [s \in Chosen[p] |-> Aggregate(VotesOn(gathered[p], s), Policy[p])]]

Slot(p) == << Chosen[p], pass[p] >>

VotingInit ==
  /\ validation = NoReport
  /\ voteFiles =
       [slot \in UNION {{<<Chosen[p], n>> : n \in 1 .. Passes[p]} : p \in Voters} |-> NoReport]
  /\ voting \in [Voters -> {"idle", "done"}]
  /\ pass = [p \in Voters |-> 1]
  /\ gathered = [p \in Voters |-> << >>]

(* Select the subjects; with none, an empty report is written and the command is done. *)
StartVoting(p) ==
  /\ voting[p] = "idle"
  /\ IF Chosen[p] = {}
     THEN /\ voting' = [voting EXCEPT ![p] = "done"]
          /\ validation' = [requested |-> Passes[p], policy |-> Policy[p],
                            votes |-> << >>, decisions |-> << >>]
     ELSE /\ voting' = [voting EXCEPT ![p] = IF Passes[p] = 1 THEN "single" ELSE "vote"]
          /\ UNCHANGED validation
  /\ UNCHANGED << voteFiles, pass, gathered >>

(* The agent of a single pass rewrites the report, or leaves it as it is. *)
SinglePass(p) ==
  /\ voting[p] = "single"
  /\ voting' = [voting EXCEPT ![p] = "ensure"]
  /\ \/ \E report \in Ballots : validation' = Single(report)
     \/ UNCHANGED validation
  /\ UNCHANGED << voteFiles, pass, gathered >>

(* The command loads the report, fills in what the agent omitted and writes it back. *)
LoadSingle(p) ==
  /\ voting[p] = "ensure" /\ gathered[p] = << >>
  /\ IF validation = NoReport
     THEN voting' = [voting EXCEPT ![p] = "done"] /\ UNCHANGED gathered
     ELSE gathered' = [gathered EXCEPT ![p] = << validation >>] /\ UNCHANGED voting
  /\ UNCHANGED << validation, voteFiles, pass >>

StoreSingle(p) ==
  /\ voting[p] = "ensure" /\ gathered[p] # << >>
  /\ validation' = gathered[p][1]
  /\ voting' = [voting EXCEPT ![p] = "done"]
  /\ UNCHANGED << voteFiles, pass, gathered >>

(* Before a pass, the report of the pass before it, or of an earlier command, is removed. *)
BeginPass(p) ==
  /\ voting[p] = "vote"
  /\ validation' = NoReport
  /\ voting' = [voting EXCEPT ![p] = "agent"]
  /\ UNCHANGED << voteFiles, pass, gathered >>

(* The agent writes the file of its pass, or the shared report, or nothing: it fails, *)
(* or the run is paused and it is not started.                                        *)
AgentVotes(p) ==
  /\ voting[p] = "agent"
  /\ voting' = [voting EXCEPT ![p] = "read"]
  /\ \/ /\ \E report \in Ballots : voteFiles' = [voteFiles EXCEPT ![Slot(p)] = report]
        /\ UNCHANGED validation
     \/ /\ \E report \in Ballots : validation' = Single(report)
        /\ UNCHANGED voteFiles
     \/ UNCHANGED << validation, voteFiles >>
  /\ UNCHANGED << pass, gathered >>

(* The file of the pass is read whoever wrote it; without one, the shared report is *)
(* taken and kept as the file of the pass.                                          *)
ReadPass(p) ==
  /\ voting[p] = "read"
  /\ LET shared == IF validation = NoReport THEN << >> ELSE validation.decisions
         report == IF voteFiles[Slot(p)] # NoReport THEN voteFiles[Slot(p)] ELSE shared
     IN  /\ voteFiles' = [voteFiles EXCEPT ![Slot(p)] = report]
         /\ gathered' = [gathered EXCEPT ![p] = Append(@, report)]
  /\ pass' = [pass EXCEPT ![p] = @ + 1]
  /\ voting' = [voting EXCEPT ![p] = IF pass[p] = Passes[p] THEN "compose" ELSE "vote"]
  /\ UNCHANGED validation

(* The aggregate replaces the report, whatever the passes exited with. *)
Compose(p) ==
  /\ voting[p] = "compose"
  /\ validation' = Composed(p)
  /\ voting' = [voting EXCEPT ![p] = "done"]
  /\ UNCHANGED << voteFiles, pass, gathered >>

(* The process is killed, or stopped by a report it cannot parse. *)
VoterDies(p) ==
  /\ voting[p] \notin {"idle", "done", "dead"}
  /\ voting' = [voting EXCEPT ![p] = "dead"]
  /\ UNCHANGED << validation, voteFiles, pass, gathered >>

VotingStep ==
  \E p \in Voters :
    \/ StartVoting(p) \/ SinglePass(p) \/ LoadSingle(p) \/ StoreSingle(p)
    \/ BeginPass(p) \/ AgentVotes(p) \/ ReadPass(p) \/ Compose(p) \/ VoterDies(p)

-----------------------------------------------------------------------------
(* What gra-validate-report accepts of reports/validation.json. *)

ValidationAccepted(report) ==
  \/ report = NoReport
  \/ \A s \in DOMAIN report.decisions :
       /\ report.decisions[s] \in Decisions
       /\ IF report.votes = << >> THEN report.requested = 1
          ELSE /\ report.requested > 1 => Len(report.votes) = report.requested
               /\ report.decisions[s] = Expected(VotesOn(report.votes, s), report.policy)
=============================================================================
