--------------------------- MODULE PatchValidation ---------------------------
(***************************************************************************)
(* gra-remediate: an agent drafts candidate patches for findings, and       *)
(* gra-remediate --validate (lib/patch_validation.py) tries each of them in *)
(* a disposable workspace and reports on it.  Validations overlap with each *)
(* other and with redrafts, and may be killed at any step; nothing locks    *)
(* the workspace of a patch, its patch file or the report of its finding.   *)
(***************************************************************************)
EXTENDS Naturals, Sequences, FiniteSets, Functions

CONSTANTS
  Validators,   \* gra-remediate --validate processes
  Drafters,     \* gra-remediate processes that generate candidates
  Findings,     \* the ids of reports/findings.json
  Severe,       \* those that are Critical or High and not dismissed
  Patches,      \* patch ids
  Texts,        \* patches' contents
  Touches,      \* the files each text changes
  Inside,       \* files below the target repository
  Metadata,     \* files in its .git
  Applicable,   \* texts that apply to the target repository
  MaxPaths,     \* --max-changed-paths
  Asked,        \* the finding each process is asked for, or Everything
  Everything,   \* --all-critical-high
  Drafts,       \* what an agent may write: candidates and the patch files
  Given,        \* the kinds of commands each validator is given
  NoPatch, NoDir,
  MaxDeaths     \* bound on the processes killed

Kinds == {"build", "test"}
Candidates == [id : Patches, finding : Findings, declared : SUBSET Inside]

ASSUME PatchAssumption ==
  /\ Severe \subseteq Findings
  /\ Metadata \subseteq Inside /\ Applicable \subseteq Texts
  /\ Everything \notin Findings
  /\ \A draft \in Drafts : /\ draft.candidates \in Seq(Candidates) \ {<< >>}
                            /\ draft.patches \in [Patches -> Texts \cup {NoPatch}]
  /\ Given \in [Validators -> SUBSET Kinds]
  /\ NoPatch \notin Texts /\ MaxPaths \in Nat
  /\ NoDir \notin [target : BOOLEAN, applied : SUBSET Texts, used : BOOLEAN]
  /\ Validators \cap Drafters = {}

VARIABLES
  candidates,  \* remediation-candidates.json, empty before the first draft
  patches,     \* the text each patch file holds
  workspaces,  \* validation-workspaces: what each directory holds
  reports,     \* the patch-validation.json of each finding
  at,          \* where each process is
  todo,        \* the candidates a process has loaded, and the places of those left to try
  trial,       \* what a validator has found out of the first of them
  exit,        \* exit status of each validator
  ran,         \* history: the commands each validator ran on its candidate
  alone,       \* history: nobody else touched the workspace or the patch of its candidate
  deaths

patchVars == << candidates, patches, workspaces, reports, at, todo, trial, exit, ran, alone,
                deaths >>

-----------------------------------------------------------------------------

Scope(text, declared) ==
  LET paths == Touches[text] IN
  IF paths = {} THEN "needs-human-review"
  ELSE IF \/ ~ paths \subseteq Inside
          \/ paths \cap Metadata # {}
          \/ Cardinality(paths) > MaxPaths THEN "too-broad"
  ELSE IF declared # {} /\ ~ paths \subseteq declared THEN "needs-human-review"
  ELSE "bounded"

Untried == [applied |-> FALSE, scope |-> "needs-human-review", text |-> NoPatch,
            build |-> "not-run", test |-> "not-run"]

(* A mutant of FinalStatus: commands that did not run do not count. *)
FinalStatusLenient(t) ==
  IF ~ t.applied THEN "failed"
  ELSE IF t.scope # "bounded" THEN (IF t.scope = "needs-human-review" THEN t.scope ELSE "failed")
  ELSE IF "failed" \in {t.build, t.test} THEN "failed"
  ELSE "validated"

FinalStatus(t) ==
  IF ~ t.applied THEN "failed"
  ELSE IF t.scope # "bounded" THEN (IF t.scope = "needs-human-review" THEN t.scope ELSE "failed")
  ELSE IF "failed" \in {t.build, t.test} THEN "failed"
  ELSE IF "not-run" \in {t.build, t.test} THEN "needs-human-review"
  ELSE "validated"

Copy == [target |-> TRUE, applied |-> {}, used |-> FALSE]
Bare == [target |-> FALSE, applied |-> {}, used |-> FALSE]

NoWork == [list |-> << >>, left |-> {}]

First(p) == CHOOSE k \in todo[p].left : \A l \in todo[p].left : k <= l
Current(p) == todo[p].list[First(p)]
Place(c) == << c.finding, c.id >>
Here(p) == workspaces[Place(Current(p))]
Trying == {"prepare", "copy", "init", "check", "apply", "build", "test", "dispose"}

(* Another validator works on the same patch of the same finding. *)
Sharing(p) ==
  {q \in Validators \ {p} : at[q] \in Trying /\ Place(Current(q)) = Place(Current(p))}

(* p changes the workspace of its candidate: those who share it are not alone any more. *)
Leave(p, contents) ==
  /\ workspaces' = [workspaces EXCEPT ![Place(Current(p))] = contents]
  /\ alone' = [q \in Validators |-> alone[q] /\ q \notin Sharing(p)]

(* Making the environment of a command creates its directories in the workspace. *)
Entered(dir) == IF dir = NoDir THEN Bare ELSE dir

PatchInit ==
  /\ \/ candidates = << >> /\ patches = [c \in Patches |-> NoPatch]
     \/ \E draft \in Drafts : candidates = draft.candidates /\ patches = draft.patches
  /\ workspaces = [w \in Findings \X Patches |-> NoDir]
  /\ reports = [f \in Findings |-> {}]
  /\ at \in [Validators \cup Drafters -> {"idle", "done"}]
  /\ todo = [p \in Validators \cup Drafters |-> NoWork]
  /\ trial = [p \in Validators |-> Untried]
  /\ exit = [p \in Validators |-> 0]
  /\ ran = [p \in Validators |-> {}]
  /\ alone = [p \in Validators |-> TRUE]
  /\ deaths = 0

Moves(p, from, to) == at[p] = from /\ at' = [at EXCEPT ![p] = to]

-----------------------------------------------------------------------------
(* gra-remediate --validate *)

Selected(p) == IF Asked[p] = Everything THEN Severe ELSE {Asked[p]}
Matching(p) == {k \in DOMAIN candidates : candidates[k].finding \in Selected(p)}

(* Nothing to remediate is success, a finding nobody knows or without a candidate is not. *)
StartValidation(p) ==
  /\ LET known == Selected(p) \subseteq Findings
         tried == known /\ Matching(p) # {}
     IN  /\ Moves(p, "idle", IF tried THEN "judge" ELSE "done")
         /\ todo' = [todo EXCEPT ![p] = IF tried THEN [list |-> candidates, left |-> Matching(p)]
                                                 ELSE NoWork]
         /\ exit' = [exit EXCEPT ![p] = IF tried \/ Selected(p) = {} THEN 0 ELSE 2]
  /\ UNCHANGED << candidates, patches, workspaces, reports, trial, ran, alone, deaths >>

(* Is the sandbox ready, is there a patch, and does it stay in scope? *)
Judge(p) ==
  /\ LET text == patches[Current(p).id]
         scope == Scope(text, Current(p).declared)
     IN  \/ /\ Moves(p, "judge", "dispose")
            /\ trial' = [trial EXCEPT ![p] = Untried]
         \/ /\ at[p] = "judge" /\ text # NoPatch
            /\ Moves(p, "judge", IF scope = "bounded" THEN "prepare" ELSE "dispose")
            /\ trial' = [trial EXCEPT ![p] = [Untried EXCEPT !.scope = scope]]
  /\ ran' = [ran EXCEPT ![p] = {}]
  /\ alone' = [alone EXCEPT ![p] = TRUE]
  /\ UNCHANGED << candidates, patches, workspaces, reports, todo, exit, deaths >>

(* A step that fails, or times out, ends the trial. *)
StepFails(p) ==
  /\ at[p] \in {"init", "check", "apply"} \/ (at[p] = "prepare" /\ Sharing(p) # {})
  /\ at' = [at EXCEPT ![p] = "dispose"]
  /\ UNCHANGED << candidates, patches, workspaces, reports, todo, trial, exit, ran, alone,
                  deaths >>

(* What an earlier validation left is removed ... *)
Prepare(p) ==
  /\ Moves(p, "prepare", "copy")
  /\ Leave(p, NoDir)
  /\ UNCHANGED << candidates, patches, reports, todo, trial, exit, ran, deaths >>

(* ... and the target is copied into a new directory. *)
MakeCopy(p) ==
  /\ Moves(p, "copy", IF Here(p) = NoDir THEN "init" ELSE "dispose")
  /\ Leave(p, IF Here(p) = NoDir THEN Copy ELSE Here(p))
  /\ UNCHANGED << candidates, patches, reports, todo, trial, exit, ran, deaths >>

InitGit(p) ==
  /\ Moves(p, "init", "check")
  /\ Leave(p, Entered(Here(p)))
  /\ UNCHANGED << candidates, patches, reports, todo, trial, exit, ran, deaths >>

(* git apply reads the patch file as it is now. *)
Applies(p) ==
  LET text == patches[Current(p).id] IN
  Here(p) # NoDir /\ Here(p).target /\ text \in Applicable \ Here(p).applied

CheckPatch(p) ==
  /\ Moves(p, "check", IF Applies(p) THEN "apply" ELSE "dispose")
  /\ UNCHANGED << candidates, patches, workspaces, reports, todo, trial, exit, ran, alone,
                  deaths >>

ApplyPatch(p) ==
  /\ at[p] = "apply"
  /\ LET text == patches[Current(p).id] IN
     IF Applies(p)
     THEN /\ Moves(p, "apply", "build")
          /\ Leave(p, [Here(p) EXCEPT !.applied = @ \cup {text}])
          /\ trial' = [trial EXCEPT ![p].applied = TRUE, ![p].text = text]
     ELSE Moves(p, "apply", "dispose") /\ UNCHANGED << workspaces, alone, trial >>
  /\ UNCHANGED << candidates, patches, reports, todo, exit, ran, deaths >>

(* No command of the kind is given, or one is not a command that may run, and fails. *)
NothingRuns(p, kind, next) ==
  /\ Moves(p, kind, next)
  /\ \/ kind \notin Given[p] /\ UNCHANGED trial
     \/ kind \in Given[p] /\ trial' = [trial EXCEPT ![p][kind] = "failed"]
  /\ UNCHANGED << candidates, patches, workspaces, reports, todo, exit, ran, alone, deaths >>

(* The commands of one kind run in the workspace, each in an environment made for it:    *)
(* they all pass, or one fails.  One that times out ends the trial, its kind "not-run".  *)
RunCommands(p, kind, next) ==
  /\ kind \in Given[p]
  /\ \E outcome \in {"passed", "failed", "timeout"} :
       /\ Moves(p, kind, IF outcome = "timeout" THEN "dispose" ELSE next)
       /\ trial' = [trial EXCEPT ![p][kind] = IF outcome = "timeout" THEN @ ELSE outcome]
       /\ ran' = [ran EXCEPT ![p] =
                    @ \cup {[kind |-> kind, on |-> Entered(Here(p)), outcome |-> outcome]}]
  /\ Leave(p, [Entered(Here(p)) EXCEPT !.used = TRUE])
  /\ UNCHANGED << candidates, patches, reports, todo, exit, deaths >>

(* Whatever happened, the workspace is removed ... *)
Dispose(p) ==
  /\ Moves(p, "dispose", "report")
  /\ Leave(p, NoDir)
  /\ UNCHANGED << candidates, patches, reports, todo, trial, exit, ran, deaths >>

(* ... and the report of the finding written, the one of another patch replaced. *)
WriteReport(p) ==
  /\ LET left == todo[p].left \ {First(p)} IN
     /\ Moves(p, "report", IF left = {} THEN "done" ELSE "judge")
     /\ todo' = [todo EXCEPT ![p] = IF left = {} THEN NoWork ELSE [@ EXCEPT !.left = left]]
  /\ reports' = [reports EXCEPT ![Current(p).finding] =
                   {[patch |-> Current(p).id, status |-> FinalStatus(trial[p]), trial |-> trial[p],
                     declared |-> Current(p).declared, ran |-> ran[p], alone |-> alone[p]]}]
  /\ exit' = [exit EXCEPT ![p] = IF FinalStatus(trial[p]) = "failed" THEN 1 ELSE @]
  /\ UNCHANGED << candidates, patches, workspaces, trial, ran, alone, deaths >>

-----------------------------------------------------------------------------
(* gra-remediate *)

StartDraft(d) ==
  /\ Moves(d, "idle", IF Selected(d) \subseteq Findings /\ Selected(d) # {} THEN "agent" ELSE "done")
  /\ UNCHANGED << candidates, patches, workspaces, reports, todo, trial, exit, ran, alone,
                  deaths >>

(* The agent writes candidates and patch files under names it may have used before. *)
AgentDrafts(d) ==
  /\ Moves(d, "agent", "load")
  /\ \/ \E draft \in Drafts :
          /\ candidates' = draft.candidates /\ patches' = draft.patches
          /\ alone' = [p \in Validators |->
                         alone[p] /\ (at[p] \in Trying => LET c == Current(p).id
                                                          IN  draft.patches[c] = patches[c])]
     \/ UNCHANGED << candidates, patches, alone >>
  /\ UNCHANGED << workspaces, reports, todo, trial, exit, ran, deaths >>

(* The command loads the candidates, fills in what is missing and writes them back. *)
LoadDraft(d) ==
  /\ Moves(d, "load", "store")
  /\ todo' = [todo EXCEPT ![d] = [list |-> candidates, left |-> {}]]
  /\ UNCHANGED << candidates, patches, workspaces, reports, trial, exit, ran, alone, deaths >>

StoreDraft(d) ==
  /\ Moves(d, "store", "done")
  /\ candidates' = IF todo[d].list = << >> THEN candidates ELSE todo[d].list
  /\ UNCHANGED << patches, workspaces, reports, todo, trial, exit, ran, alone, deaths >>

Dies(p) ==
  /\ at[p] \notin {"idle", "done", "dead"} /\ deaths < MaxDeaths
  /\ at' = [at EXCEPT ![p] = "dead"]
  /\ deaths' = deaths + 1
  /\ UNCHANGED << candidates, patches, workspaces, reports, todo, trial, exit, ran, alone >>

PatchStep ==
  \/ \E p \in Validators :
       \/ StartValidation(p) \/ Judge(p) \/ StepFails(p) \/ Prepare(p) \/ MakeCopy(p)
       \/ InitGit(p) \/ CheckPatch(p) \/ ApplyPatch(p)
       \/ NothingRuns(p, "build", "test") \/ NothingRuns(p, "test", "dispose")
       \/ RunCommands(p, "build", "test") \/ RunCommands(p, "test", "dispose")
       \/ Dispose(p) \/ WriteReport(p)
  \/ \E d \in Drafters : StartDraft(d) \/ AgentDrafts(d) \/ LoadDraft(d) \/ StoreDraft(d)
  \/ \E p \in Validators \cup Drafters : Dies(p)

-----------------------------------------------------------------------------
(* What gra-validate-report accepts. *)

CandidatesAccepted ==
  \A k \in DOMAIN candidates :
    /\ \A n \in 1 .. k - 1 : candidates[n].id # candidates[k].id
    /\ candidates[k].finding \in Findings
    /\ patches[candidates[k].id] # NoPatch

ReportAccepted(f, r) ==
  /\ candidates # << >> => \E k \in DOMAIN candidates : candidates[k].id = r.patch
                                                     /\ candidates[k].finding = f
  /\ patches[r.patch] # NoPatch
  /\ r.status = "validated" => /\ r.trial.applied /\ r.trial.scope = "bounded"
                               /\ "failed" \notin {r.trial.build, r.trial.test}

-----------------------------------------------------------------------------

(* What a trial shows: the patch t.text stays in scope, and the build and the test *)
(* commands all passed with it alone added to a copy of the target.                *)
PassedOn(run, text) ==
  /\ run.outcome = "passed" /\ run.on.target /\ run.on.applied = {text}
  /\ run.kind = "build" => ~ run.on.used

Earned(t, declared, runs) ==
  /\ Scope(t.text, declared) = "bounded"
  /\ \A kind \in Kinds : \E run \in runs : run.kind = kind
  /\ \A run \in runs : PassedOn(run, t.text)

(* A report that says "validated" means that the patch it was given stays in scope, and *)
(* that it was the only thing added to a fresh copy of the target in which the build and *)
(* the test commands all passed, as long as no other command worked on the same patch    *)
(* meanwhile: whatever killed validations left in the workspace, and whatever timed out. *)
ValidatedIsEarned ==
  \A f \in Findings : \A r \in reports[f] :
    r.status = "validated" /\ r.alone => Earned(r.trial, r.declared, r.ran)
=============================================================================
