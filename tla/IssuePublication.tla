--------------------------- MODULE IssuePublication ---------------------------
(***************************************************************************)
(* gra-issues publishes the findings of a run as GitHub issues.  It is a    *)
(* process that reads findings.json and the issue drafts, optionally writes *)
(* a publication plan for a human to review, later applies it, and keeps a  *)
(* ledger of what was published.  Three things are to keep one finding from *)
(* getting two issues: the ledger, the fingerprint search, and the plan.    *)
(* None of them is locked and issue creation cannot be undone, so this      *)
(* module cuts an invocation at every point where it reads or writes one of *)
(* them, and lets the process die or a request fail in between.             *)
(*                                                                         *)
(* A finding is its id and its fingerprint; everything else an issue says   *)
(* of it (title, labels, text) is its body, taken from findings.json and    *)
(* issue-drafts.  Which findings an invocation selects depends on options   *)
(* and on severity, status and novelty: any subset, here.                   *)
(***************************************************************************)
EXTENDS Naturals, Sequences

CONSTANTS
  Id,           \* finding ids
  Fingerprint,  \* stable fingerprints
  Key,          \* the findings that may occur, pairs of the two
  Body,         \* what an issue can say
  Carried,      \* the fingerprint marker a draft already carries, or NoMarker
  NoMarker,
  NoPlan,
  Process,      \* invocations of gra-issues
  Invoked,      \* bound: the modes they are invoked in
  IndexLag,     \* whether the issue search may lag behind creation
  MaxIssues,    \* bound: issues ever created
  MaxFaults     \* bound: crashes, failed requests, edits, closed issues

ASSUME PublicationAssumption ==
  /\ Key \subseteq Id \X Fingerprint
  /\ Carried \in [Body -> Fingerprint \cup {NoMarker}]
  /\ NoMarker \notin Fingerprint
  /\ NoPlan \notin UNION {[S -> Body] : S \in SUBSET Key}
  /\ IndexLag \in BOOLEAN
  /\ MaxIssues \in Nat /\ MaxFaults \in Nat

VARIABLES
  findings,   \* the findings in findings.json
  draft,      \* the body each finding would be published with
  plan,       \* issue-publication-plan.json: the reviewed body of each entry
  copy,       \* a reviewed copy of a plan, kept outside the tracked path
  recorded,   \* the sources the freshness record of the plan was taken from
  ledger,     \* issue-ledger.json
  decisions,  \* duplicate-decisions/*.json
  issues,     \* the issues of the GitHub repository, numbered as created
  pc,         \* where each invocation is
  mem,        \* its local variables
  faults,     \* bound: disturbances so far
  missed      \* fingerprints whose search overlooked an open issue (for a property)

vars == <<findings, draft, plan, copy, recorded, ledger, decisions, issues, pc, mem, faults, missed>>
sources == <<findings, draft>>
planFiles == <<plan, copy, recorded>>

-----------------------------------------------------------------------------
(* Data *)

(* A plan, and what an invocation publishes: bodies of some of the findings. *)
Plan == UNION {[S -> Body] : S \in SUBSET Key}
NoEntries == [k \in {} |-> k]

Source == [findings : SUBSET Key, draft : [Key -> Body]]
Current == [findings |-> findings, draft |-> draft]

(* --plan (and --replan), --apply, a plain dry run, --apply-plan, its dry run. *)
Mode == {"plan", "apply", "preview", "applyPlan", "previewPlan"}
ASSUME InvokedAssumption == Invoked \subseteq Mode
Previews(mode) == mode \in {"preview", "previewPlan"}
FromPlan(mode) == mode \in {"applyPlan", "previewPlan"}

(* render_body adds the fingerprint marker only to a body that has none. *)
Marker(k, body) == IF Carried[body] = NoMarker THEN k[2] ELSE Carried[body]

Issue == [key : Key, body : Body, reviewed : Body \cup {NoPlan}, open : BOOLEAN, indexed : BOOLEAN]

(* Open issues that carry a fingerprint's marker. *)
OpenWith(fp) == {i \in DOMAIN issues : issues[i].open /\ Marker(issues[i].key, issues[i].body) = fp}

(* Entries that are pending, not selected or a dry run are all not published. *)
Unpublished == [status |-> "none", url |-> 0]
LedgerEntry == {Unpublished} \cup [status : {"published", "duplicate"}, url : 1..MaxIssues]
Ledger == [Key -> LedgerEntry]

(* The local variables of an invocation.  sel are the findings selected; in *)
(* the loop, the one an issue is being created for.                         *)
Memory == [mode : Mode, found : SUBSET Key, sel : SUBSET Key, entries : Plan,
           reviewed : Plan \cup {NoPlan}, captured : Source \cup {NoPlan}, todo : SUBSET Key,
           seen : Ledger, over : UNION {[S -> LedgerEntry] : S \in SUBSET Key},
           superseded : SUBSET Key]
Idle == [mode |-> "idle"]   \* an invocation that is not running

-----------------------------------------------------------------------------
(* The ledger *)

Published(l, k) == l[k].status \in {"published", "duplicate"}

(* The published entries of a finding id, whatever their fingerprint. *)
PublishedOf(l, id) == {k \in Key : k[1] = id /\ Published(l, k)}

(* The entry that makes finding k count as published: its own, or else the *)
(* only published one of its id.                                           *)
Covers(l, m, k) ==
  \/ m = k /\ Published(l, k)
  \/ ~Published(l, k) /\ PublishedOf(l, k[1]) = {m}

Known(l, k) == \E m \in Key : Covers(l, m, k)

\* Mutant of Merge: the ledger is rebuilt from the current findings alone.
MergeRebuilding(base, me) ==
  [k \in Key |->
     IF k \in me.found /\ Published(base, k) THEN base[k]
     ELSE IF k \in DOMAIN me.over THEN me.over[k] ELSE Unpublished]

(* merge_current_entries: a published entry keeps what it says, the entry a *)
(* changed finding was taken over from goes, and the entries of findings no *)
(* longer present stay.                                                     *)
Merge(base, me) ==
  [k \in Key |->
     IF k \in me.found
     THEN IF Published(base, k) THEN base[k]
          ELSE IF k \in DOMAIN me.over THEN me.over[k] ELSE Unpublished
     ELSE IF k \in me.superseded THEN Unpublished ELSE base[k]]

-----------------------------------------------------------------------------
(* The initial state: findings and drafts of any kind, nothing published. *)

Nothing == [k \in Key |-> Unpublished]

Init ==
  /\ findings \in SUBSET Key
  /\ draft \in [Key -> Body]
  /\ plan = NoPlan /\ copy = NoPlan
  /\ recorded = NoPlan
  /\ ledger = Nothing
  /\ decisions = [k \in Key |-> "none"]
  /\ issues = <<>>
  /\ pc = [p \in Process |-> "idle"]
  /\ mem = [p \in Process |-> Idle]
  /\ faults = 0
  /\ missed = {}

Goto(p, label) == pc' = [pc EXCEPT ![p] = label]
Stop(p) == Goto(p, "idle") /\ mem' = [mem EXCEPT ![p] = Idle]
Fault == faults < MaxFaults /\ faults' = faults + 1

-----------------------------------------------------------------------------
(* An invocation starts *)

(* findings.json is read and the selection is made; drafts are read later. *)
Load(p, mode, sel) ==
  /\ pc[p] = "idle"
  /\ sel \subseteq findings
  /\ mem' = [mem EXCEPT ![p] =
       [mode |-> mode, found |-> findings, sel |-> sel, entries |-> NoEntries, reviewed |-> NoPlan,
        captured |-> NoPlan, todo |-> {}, seen |-> Nothing, over |-> NoEntries, superseded |-> {}]]
  /\ Goto(p, "loaded")
  /\ UNCHANGED <<sources, planFiles, ledger, decisions, issues, faults, missed>>

(* The bodies are rendered from the drafts (build_publication_plan). *)
Render(p) ==
  /\ pc[p] = "loaded"
  /\ ~FromPlan(mem[p].mode)
  /\ mem' = [mem EXCEPT ![p].entries = [k \in mem[p].sel |-> draft[k]]]
  /\ Goto(p, IF mem[p].mode = "plan" THEN "planning" ELSE "ready")
  /\ UNCHANGED <<sources, planFiles, ledger, decisions, issues, faults, missed>>

(* More findings than --max-issues, missing advanced validation, a public or *)
(* unknown repository, a plan or a file that does not check: the invocation  *)
(* gives up before it has written anything.                                  *)
Refuse(p) ==
  /\ pc[p] \in {"loaded", "planning", "verified", "ready"}
  /\ Stop(p)
  /\ UNCHANGED <<sources, planFiles, ledger, decisions, issues, faults, missed>>

-----------------------------------------------------------------------------
(* Planning (write_tracked_publication_plan) *)

(* The dependencies are fingerprinted and the plan file is written.  What is *)
(* fingerprinted is what is on disk now, not what was rendered.              *)
WritePlan(p) ==
  /\ pc[p] = "planning"
  /\ plan' = mem[p].entries
  /\ mem' = [mem EXCEPT ![p].captured = Current]
  /\ Goto(p, "recording")
  /\ UNCHANGED <<sources, copy, recorded, ledger, decisions, issues, faults, missed>>

(* record_artifact stores the fingerprints only while they are still right. *)
RecordPlan(p) ==
  /\ pc[p] = "recording"
  /\ mem[p].captured = Current
  /\ recorded' = mem[p].captured
  /\ mem' = [mem EXCEPT ![p].captured = NoPlan]
  /\ Goto(p, "rewriting")
  /\ UNCHANGED <<sources, plan, copy, ledger, decisions, issues, faults, missed>>

(* It fails when a dependency changed, and leaves the plan file behind. *)
RecordFails(p) ==
  /\ pc[p] = "recording"
  /\ mem[p].captured # Current
  /\ Stop(p)
  /\ UNCHANGED <<sources, planFiles, ledger, decisions, issues, faults, missed>>

(* The plan is written again, with the freshness summary in it. *)
RewritePlan(p) ==
  /\ pc[p] = "rewriting"
  /\ plan' = mem[p].entries
  /\ Goto(p, "saving")
  /\ UNCHANGED <<sources, copy, recorded, ledger, decisions, issues, mem, faults, missed>>

-----------------------------------------------------------------------------
(* Verifying a plan *)

\* Mutant of Agrees: the plan's findings are looked up, their bodies are not compared.
AgreesOnFindings(file, found) == \A k \in DOMAIN file : k \in found

(* Every entry of the plan, the tracked one or a copy, must be a finding and *)
(* have the body it would be published with now.                             *)
Agrees(file, found) == \A k \in DOMAIN file : k \in found /\ file[k] = draft[k]

VerifyPlan(p, file) ==
  /\ pc[p] = "loaded"
  /\ FromPlan(mem[p].mode)
  /\ file # NoPlan
  /\ Agrees(file, mem[p].found)
  /\ mem' = [mem EXCEPT ![p].sel = DOMAIN file, ![p].reviewed = file,
                        ![p].entries = [k \in DOMAIN file |-> draft[k]]]
  /\ Goto(p, "verified")
  /\ UNCHANGED <<sources, planFiles, ledger, decisions, issues, faults, missed>>

(* The tracked record must exist, and nothing it covers may have changed. *)
CheckFreshness(p) ==
  /\ pc[p] = "verified"
  /\ plan # NoPlan
  /\ recorded = Current
  /\ Goto(p, "ready")
  /\ UNCHANGED <<sources, planFiles, ledger, decisions, issues, mem, faults, missed>>

-----------------------------------------------------------------------------
(* Publishing, one finding after the other *)

\* Mutant of ReadLedger: it is taken for empty, as if this were the first publication.
StartUnread(p) ==
  /\ pc[p] = "ready"
  /\ mem' = [mem EXCEPT ![p].todo = mem[p].sel, ![p].sel = {}]
  /\ Goto(p, "looping")
  /\ UNCHANGED <<sources, planFiles, ledger, decisions, issues, faults, missed>>

(* The ledger is read once, before the loop. *)
ReadLedger(p) ==
  /\ pc[p] = "ready"
  /\ mem' = [mem EXCEPT ![p].seen = ledger, ![p].todo = mem[p].sel, ![p].sel = {}]
  /\ Goto(p, "looping")
  /\ UNCHANGED <<sources, planFiles, ledger, decisions, issues, faults, missed>>

(* The outcome for one finding is remembered; the ledger is written later. *)
Done(p, k, entry, gone) ==
  mem' = [mem EXCEPT ![p].todo = @ \ {k}, ![p].sel = {},
                     ![p].over = [x \in DOMAIN @ \cup {k} |-> IF x = k THEN entry ELSE @[x]],
                     ![p].superseded = @ \cup gone]

(* The decision record of a finding is replaced.  "new" stands for every *)
(* decision that names no existing issue (new, variant, related).        *)
Decide(k, decision) == decisions' = [decisions EXCEPT ![k] = decision]

(* The ledger has the finding, possibly under an older fingerprint, whose *)
(* entry this one then takes over.                                        *)
SkipKnown(p, k) ==
  /\ pc[p] = "looping" /\ k \in mem[p].todo
  /\ \E m \in Key :
       /\ Covers(mem[p].seen, m, k)
       /\ Done(p, k, mem[p].seen[m], {m} \ {k})
  /\ Decide(k, "exact-duplicate")
  /\ UNCHANGED <<sources, planFiles, ledger, issues, pc, faults, missed>>

\* Mutant of SkipDuplicate: the decision is written before the search.
SkipDecidedBefore(p, k) ==
  /\ pc[p] = "looping" /\ k \in mem[p].todo
  /\ ~Known(mem[p].seen, k)
  /\ ~Previews(mem[p].mode)
  /\ \E i \in OpenWith(k[2]) :
       /\ issues[i].indexed
       /\ Done(p, k, [status |-> "duplicate", url |-> i], {})
  /\ Decide(k, "new")
  /\ UNCHANGED <<sources, planFiles, ledger, issues, pc, faults, missed>>

(* The search finds an open issue with the fingerprint. *)
SkipDuplicate(p, k) ==
  /\ pc[p] = "looping" /\ k \in mem[p].todo
  /\ ~Known(mem[p].seen, k)
  /\ ~Previews(mem[p].mode)
  /\ \E i \in OpenWith(k[2]) :
       /\ issues[i].indexed
       /\ Done(p, k, [status |-> "duplicate", url |-> i], {})
  /\ Decide(k, "exact-duplicate")
  /\ UNCHANGED <<sources, planFiles, ledger, issues, pc, faults, missed>>

\* Mutant of FindNothing: only the ledger is asked, nothing is searched.
AskLedgerOnly(p, k) ==
  /\ pc[p] = "looping" /\ k \in mem[p].todo
  /\ ~Known(mem[p].seen, k)
  /\ ~Previews(mem[p].mode)
  /\ Decide(k, "new")
  /\ mem' = [mem EXCEPT ![p].todo = @ \ {k}, ![p].sel = {k}]
  /\ Goto(p, "creating")
  /\ UNCHANGED <<sources, planFiles, ledger, issues, faults, missed>>

(* The search finds nothing, because there is nothing or the index lags, or *)
(* it fails, which issue_exists answers in the same way.                    *)
FindNothing(p, k) ==
  /\ pc[p] = "looping" /\ k \in mem[p].todo
  /\ ~Known(mem[p].seen, k)
  /\ ~Previews(mem[p].mode)
  /\ \/ (\A i \in OpenWith(k[2]) : ~issues[i].indexed) /\ UNCHANGED faults
     \/ (\E i \in OpenWith(k[2]) : issues[i].indexed) /\ Fault
  /\ missed' = IF OpenWith(k[2]) = {} THEN missed ELSE missed \cup {k[2]}
  /\ Decide(k, "new")
  /\ mem' = [mem EXCEPT ![p].todo = @ \ {k}, ![p].sel = {k}]
  /\ Goto(p, "creating")
  /\ UNCHANGED <<sources, planFiles, ledger, issues>>

(* A dry run searches and creates nothing but records its decision. *)
PreviewIssue(p, k) ==
  /\ pc[p] = "looping" /\ k \in mem[p].todo
  /\ ~Known(mem[p].seen, k)
  /\ Previews(mem[p].mode)
  /\ Decide(k, "new")
  /\ Done(p, k, Unpublished, {})
  /\ UNCHANGED <<sources, planFiles, ledger, issues, pc, faults, missed>>

NewIssue(p, k) ==
  [key |-> k, body |-> mem[p].entries[k], open |-> TRUE, indexed |-> ~IndexLag,
   reviewed |-> IF mem[p].reviewed = NoPlan THEN NoPlan ELSE mem[p].reviewed[k]]

CreateIssue(p, k) ==
  /\ pc[p] = "creating" /\ mem[p].sel = {k}
  /\ Len(issues) < MaxIssues
  /\ issues' = Append(issues, NewIssue(p, k))
  /\ Done(p, k, [status |-> "published", url |-> Len(issues) + 1], {})
  /\ Goto(p, "looping")
  /\ UNCHANGED <<sources, planFiles, ledger, decisions, faults, missed>>

(* gh fails or is interrupted, before or after GitHub created the issue; the *)
(* exception ends the invocation, and nothing of the loop reaches the ledger. *)
(* The bound on the number of issues shows as a refused request.              *)
CreateFails(p, k) ==
  /\ pc[p] = "creating" /\ mem[p].sel = {k}
  /\ \/ Fault /\ UNCHANGED issues
     \/ Fault /\ Len(issues) < MaxIssues /\ issues' = Append(issues, NewIssue(p, k))
     \/ Len(issues) = MaxIssues /\ UNCHANGED <<issues, faults>>
  /\ Stop(p)
  /\ UNCHANGED <<sources, planFiles, ledger, decisions, missed>>

EndLoop(p) ==
  /\ pc[p] = "looping" /\ mem[p].todo = {}
  /\ mem' = [mem EXCEPT ![p].seen = Nothing]
  /\ Goto(p, "saving")
  /\ UNCHANGED <<sources, planFiles, ledger, decisions, issues, faults, missed>>

-----------------------------------------------------------------------------
(* The ledger is read again, merged with what the invocation did, and        *)
(* replaced (write_issue_ledger_snapshot); planning ends this way as well.   *)

ReloadLedger(p) ==
  /\ pc[p] = "saving"
  /\ mem' = [mem EXCEPT ![p].seen = ledger]
  /\ Goto(p, "merging")
  /\ UNCHANGED <<sources, planFiles, ledger, decisions, issues, faults, missed>>

WriteLedger(p) ==
  /\ pc[p] = "merging"
  /\ ledger' = Merge(mem[p].seen, mem[p])
  /\ Stop(p)
  /\ UNCHANGED <<sources, planFiles, decisions, issues, faults, missed>>

-----------------------------------------------------------------------------
(* The environment *)

(* The process is killed. *)
Crash(p) ==
  /\ pc[p] # "idle"
  /\ Fault
  /\ Stop(p)
  /\ UNCHANGED <<sources, planFiles, ledger, decisions, issues, missed>>

(* Another audit stage, or the operator, changes the findings or a draft. *)
EditFindings(present) ==
  /\ present # findings
  /\ findings' = present
  /\ Fault
  /\ UNCHANGED <<draft, planFiles, ledger, decisions, issues, pc, mem, missed>>

EditDraft(k, body) ==
  /\ body # draft[k]
  /\ draft' = [draft EXCEPT ![k] = body]
  /\ Fault
  /\ UNCHANGED <<findings, planFiles, ledger, decisions, issues, pc, mem, missed>>

(* The operator keeps a copy of the plan. *)
CopyPlan ==
  /\ plan # NoPlan /\ copy # plan
  /\ copy' = plan
  /\ UNCHANGED <<sources, plan, recorded, ledger, decisions, issues, pc, mem, faults, missed>>

(* Somebody closes an issue. *)
CloseIssue(i) ==
  /\ issues[i].open
  /\ issues' = [issues EXCEPT ![i].open = FALSE]
  /\ Fault
  /\ UNCHANGED <<sources, planFiles, ledger, decisions, pc, mem, missed>>

(* The search index catches up. *)
Index(i) ==
  /\ ~issues[i].indexed
  /\ issues' = [issues EXCEPT ![i].indexed = TRUE]
  /\ UNCHANGED <<sources, planFiles, ledger, decisions, pc, mem, faults, missed>>

-----------------------------------------------------------------------------
Start(p) == \E mode \in Invoked : \E sel \in SUBSET findings : Load(p, mode, sel)

Planning(p) == WritePlan(p) \/ RecordPlan(p) \/ RecordFails(p) \/ RewritePlan(p)

Verifying(p) == VerifyPlan(p, plan) \/ VerifyPlan(p, copy) \/ CheckFreshness(p)

Publishing(p) ==
  \/ ReadLedger(p) \/ EndLoop(p) \/ ReloadLedger(p) \/ WriteLedger(p)
  \/ \E k \in Key : \/ SkipKnown(p, k) \/ SkipDuplicate(p, k) \/ FindNothing(p, k)
                    \/ PreviewIssue(p, k) \/ CreateIssue(p, k) \/ CreateFails(p, k)

Environment ==
  \/ \E present \in SUBSET Key : EditFindings(present)
  \/ \E k \in Key, body \in Body : EditDraft(k, body)
  \/ CopyPlan
  \/ \E i \in DOMAIN issues : CloseIssue(i) \/ Index(i)

Next ==
  \/ \E p \in Process : \/ Start(p) \/ Render(p) \/ Refuse(p) \/ Planning(p)
                        \/ Verifying(p) \/ Publishing(p) \/ Crash(p)
  \/ Environment

Spec == Init /\ [][Next]_vars

-----------------------------------------------------------------------------
(* Properties *)

Label == {"idle", "loaded", "planning", "recording", "rewriting", "verified", "ready",
          "looping", "creating", "saving", "merging"}

(* Every variable has its type, and an invocation remembers something        *)
(* exactly while it runs: what each step of gra-issues leaves to the next.    *)
TypeOK ==
  /\ Current \in Source
  /\ plan \in Plan \cup {NoPlan} /\ copy \in Plan \cup {NoPlan}
  /\ recorded \in Source \cup {NoPlan}
  /\ ledger \in Ledger
  /\ decisions \in [Key -> {"none", "new", "exact-duplicate"}]
  /\ issues \in Seq(Issue) /\ Len(issues) <= MaxIssues
  /\ pc \in [Process -> Label]
  /\ mem \in [Process -> Memory \cup {Idle}]
  /\ \A p \in Process : IF pc[p] = "idle" THEN mem[p] = Idle ELSE mem[p] \in Memory
  /\ faults \in 0..MaxFaults
  /\ missed \subseteq Fingerprint

(* A step that creates an issue for a finding. *)
Creates(k) ==
  /\ Len(issues') > Len(issues)
  /\ issues'[Len(issues')].key = k

(* While the ledger has a finding as published, under its own fingerprint or *)
(* as the only published entry of its id, no issue is created for it, closed  *)
(* issue, failed search or not.  docs/ISSUE_WORKFLOW.md promises it of the    *)
(* loop of gra-issues; one invocation at a time keeps it.                     *)
LedgerPreventsReissue == [][\A k \in Key : Creates(k) => ~Known(ledger, k)]_vars

(* The URL of a published finding is never lost: every rewrite of the ledger  *)
(* (plan, dry run, apply, after any change of the findings) leaves it at some *)
(* entry of the same id.                                                      *)
PublishedIsKept ==
  [][\A k \in Key : Published(ledger, k) =>
       \E m \in Key : /\ m[1] = k[1]
                      /\ Published(ledger', m)
                      /\ ledger'[m].url = ledger[k].url]_vars

(* Two open issues carry the same fingerprint only if a search overlooked one. *)
(* Crashes and failed creations alone, which the ledger knows nothing of, do   *)
(* not lead to a second issue.                                                 *)
OneOpenIssue ==
  \A i, j \in DOMAIN issues :
    LET fp == Marker(issues[i].key, issues[i].body) IN
      i # j /\ {i, j} \subseteq OpenWith(fp) => fp \in missed

(* Whatever mix of dry runs, crashes and reruns came before, --verify-ledger  *)
(* finds the decision records consistent with the ledger: every published     *)
(* entry has one, and a duplicate's says so (verify_ledger_decisions).        *)
DecisionsAgree ==
  \A k \in Key : Published(ledger, k) =>
    /\ decisions[k] # "none"
    /\ ledger[k].status = "duplicate" => decisions[k] = "exact-duplicate"

(* An issue created by --apply-plan says what the supplied plan says, even if *)
(* drafts, findings or the tracked plan change while it is being applied.     *)
AppliedAsPlanned ==
  \A i \in DOMAIN issues :
    issues[i].reviewed # NoPlan => issues[i].body = issues[i].reviewed

=============================================================================
