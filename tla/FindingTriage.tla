----------------------------- MODULE FindingTriage -----------------------------
(* What happens to findings between the audit and publication: gra-import-      *)
(* findings appends the records of external tools to reports/findings.json,     *)
(* gra-novelty classifies the findings into reports/known-findings.json, audit  *)
(* stages and operators rewrite findings.json, and a later run of the           *)
(* repository takes the ledger of the earlier one as its prior.                 *)
(*                                                                              *)
(* No lock keeps these commands apart, and gralib.write_json truncates a file   *)
(* before it writes it: in between, and after a death in between, a reader      *)
(* finds no JSON.  Left out: the two Markdown files, and what prior ledgers a   *)
(* command is given beyond its own run's or the archived one.                   *)
EXTENDS ExternalFindings

CONSTANTS
  Triagers,       \* gra-novelty and gra-import-findings processes
  FindingLists,   \* what audit stages and operators write to findings.json
  Payloads,       \* the files of external tools there are
  RiskChoices,    \* the sets of ids --accepted-risk may name
  Floor,          \* the rank of --min-severity
  MaxCommands,    \* bound: commands started
  MaxEdits        \* bound: rewritten findings.json and new runs

UniqueIn(list, Field(_)) ==
  \A i, j \in DOMAIN list : Field(list[i]) = Field(list[j]) => i = j

\* The validator of findings.json asks this of the fingerprints, not of the ids.
NamesOnce(list) == UniqueIn(list, LAMBDA f : f.id)

\* An import's id is made from its fingerprint (import_id_for).
FindingWellFormed(f) ==
  /\ \A s \in Assessed : f.strength[s] \in Int
  /\ f.id.name = "IMP" => f.id.of = f.fp

ASSUME ListsAreValid ==
  \A list \in FindingLists :
    /\ list \in Seq(Range(list)) /\ \A f \in Range(list) : FindingWellFormed(f)
    /\ UniqueIn(list, LAMBDA f : f.fp)

ASSUME PayloadsAreLists == \A payload \in Payloads : payload.records \in Seq(Range(payload.records))

VARIABLES
  report,    \* findings.json, known-findings.json and imported-findings.json
  archive,   \* entries of the ledger the previous run left
  job,       \* what each process is doing and has read
  spent,     \* history: commands and edits so far
  gone,      \* history: <<id, fp>> that writers have taken out of findings.json
  known,     \* history: the entries of every ledger written
  named      \* history: all of this run's findings.json had each id once

triageVars == << report, archive, job, spent, gone, known, named >>

Idle == [at |-> "idle"]

\* A file that is torn keeps in .of what was in it, for gone.
Missing(nothing) == [is |-> "missing", of |-> nothing]
Whole(content) == [is |-> "whole", of |-> content]

NoLedger == BuildLedger(<< >>, << >>, {})
NoImport == [items |-> << >>]

TriageInit ==
  /\ report \in [findings : {Missing(<< >>)} \cup {Whole(list) : list \in FindingLists},
                 ledger : {Missing(NoLedger)}, imported : {Missing(NoImport)}]
  /\ archive = << >>
  /\ job = [p \in Triagers |-> Idle]
  /\ spent = [commands |-> 0, edits |-> 0]
  /\ gone = {} /\ known = {} /\ named = NamesOnce(report.findings.of)

-------------------------------------------------------------------------------
(* Steps common to both commands                                                *)

Starts(p, doing) ==
  /\ job[p].at = "idle" /\ spent.commands < MaxCommands
  /\ spent' = [spent EXCEPT !.commands = @ + 1]
  /\ job' = [job EXCEPT ![p] = doing]
  /\ UNCHANGED << report, archive, gone, known, named >>

Becomes(p, doing) == job' = [job EXCEPT ![p] = doing]

\* write_json empties the file ...
Open(p, from, name, to) ==
  /\ job[p].at = from
  /\ report' = [report EXCEPT ![name].is = "torn"]
  /\ Becomes(p, [job[p] EXCEPT !.at = to])
  /\ UNCHANGED << archive, spent, gone, known, named >>

\* ... and then writes it.
Put(name, content) == report' = [report EXCEPT ![name] = Whole(content)]

PutFindings(list) ==
  /\ Put("findings", list)
  /\ gone' = (gone \cup Pairs(report.findings.of)) \ Pairs(list)
  /\ named' = (named /\ NamesOnce(list))

\* A file to be read is torn, and json.loads raises; or the process is killed.
Dies(p) ==
  /\ job[p].at # "idle"
  /\ Becomes(p, Idle)
  /\ UNCHANGED << report, archive, spent, gone, known, named >>

-------------------------------------------------------------------------------
(* gra-novelty                                                                  *)

\* Without --prior-ledger the run's own ledger is the prior, if it exists now.
BeginNovelty(p, risks, given) ==
  /\ report.findings.is # "missing"
  /\ Starts(p, [at |-> "read", risks |-> risks,
                prior |-> IF given THEN "archive"
                          ELSE IF report.ledger.is # "missing" THEN "ledger" ELSE "none"])

ReadFindings(p) ==
  /\ job[p].at = "read" /\ report.findings.is = "whole"
  /\ Becomes(p, [at |-> "classify", risks |-> job[p].risks, prior |-> job[p].prior,
                 findings |-> report.findings.of])
  /\ UNCHANGED << report, archive, spent, gone, known, named >>

\* load_prior_entries
Priors(prior) ==
  CASE prior = "archive" -> archive
    [] prior = "ledger"  -> report.ledger.of.entries
    [] prior = "none"    -> << >>

ClassifyFindings(p) ==
  /\ job[p].at = "classify"
  /\ job[p].prior = "ledger" => report.ledger.is = "whole"
  /\ Becomes(p, [at |-> "classified",
                 ledger |-> BuildLedger(job[p].findings, Priors(job[p].prior), job[p].risks)])
  /\ UNCHANGED << report, archive, spent, gone, known, named >>

OpenLedger(p) == Open(p, "classified", "ledger", "ledgerOpen")

StoreLedger(p) ==
  /\ job[p].at = "ledgerOpen"
  /\ Put("ledger", job[p].ledger)
  /\ known' = known \cup Range(job[p].ledger.entries)
  /\ Becomes(p, Idle)
  /\ UNCHANGED << archive, spent, gone, named >>

-------------------------------------------------------------------------------
(* gra-import-findings                                                          *)

\* Without --append-findings the report is all there is to write.
BeginImport(p, payload, append) ==
  /\ PayloadAccepted(payload)
  /\ Starts(p, IF append THEN [at |-> "load", payload |-> payload]
               ELSE [at |-> "imported", import |-> BuildImport(payload, FALSE, {})])

\* load_or_create_findings
LoadFindings(p) ==
  LET list == report.findings.of
      import == BuildImport(job[p].payload, TRUE, {f.fp : f \in Range(list)})
  IN /\ job[p].at = "load" /\ report.findings.is # "torn"
     /\ Becomes(p, [at |-> "loaded", import |-> import, findings |-> list \o Appended(import)])
     /\ UNCHANGED << report, archive, spent, gone, known, named >>

OpenFindings(p) == Open(p, "loaded", "findings", "findingsOpen")

StoreFindings(p) ==
  /\ job[p].at = "findingsOpen"
  /\ PutFindings(job[p].findings)
  /\ Becomes(p, [at |-> "imported", import |-> job[p].import])
  /\ UNCHANGED << archive, spent, known >>

OpenImported(p) == Open(p, "imported", "imported", "importedOpen")

StoreImported(p) ==
  /\ job[p].at = "importedOpen"
  /\ Put("imported", job[p].import)
  /\ Becomes(p, Idle)
  /\ UNCHANGED << archive, spent, gone, known, named >>

-------------------------------------------------------------------------------
(* Everybody else                                                               *)

Edits == /\ spent.edits < MaxEdits
         /\ spent' = [spent EXCEPT !.edits = @ + 1]

EditFindings(list) ==
  /\ Edits
  /\ PutFindings(list)
  /\ UNCHANGED << archive, job, known >>

\* The next run of the repository finds other things and has no ledger yet.
NewRun(list) ==
  /\ Edits /\ \A p \in Triagers : job[p] = Idle
  /\ report' = [findings |-> Whole(list), ledger |-> Missing(NoLedger),
                imported |-> Missing(NoImport)]
  /\ archive' = IF report.ledger.is = "whole" THEN report.ledger.of.entries ELSE << >>
  /\ gone' = {} /\ named' = NamesOnce(list)
  /\ UNCHANGED << job, known >>

Novelty(p) ==
  \/ \E risks \in RiskChoices, given \in BOOLEAN : BeginNovelty(p, risks, given)
  \/ ReadFindings(p) \/ ClassifyFindings(p) \/ OpenLedger(p) \/ StoreLedger(p)

Import(p) ==
  \/ \E payload \in Payloads, append \in BOOLEAN : BeginImport(p, payload, append)
  \/ LoadFindings(p) \/ OpenFindings(p) \/ StoreFindings(p)
  \/ OpenImported(p) \/ StoreImported(p)

TriageStep ==
  \/ \E p \in Triagers : Novelty(p) \/ Import(p) \/ Dies(p)
  \/ \E list \in FindingLists : EditFindings(list) \/ NewRun(list)

TriageSpec == TriageInit /\ [][TriageStep]_triageVars

-------------------------------------------------------------------------------
(* Whatever commands overlap or die, what is not torn is what the validator     *)
(* accepts: findings.json has no fingerprint twice, the ledger classifies only  *)
(* findings that are there, and what an import reports as appended is there,    *)
(* unless somebody has taken it out since (validators/findings.py:93,           *)
(* validators/advanced.py:1188-1227, 2371-2425).  Where findings.json, now or   *)
(* earlier in this run, named two findings alike, which its own validator lets  *)
(* pass, the ledger may be refused, but for the ids and nothing else.           *)
TriageIsAccepted ==
  LET list == report.findings.of IN
  report.findings.is = "whole" =>
    /\ FindingsAccepted(list)
    /\ report.ledger.is = "whole" =>
         /\ LedgerConsistent(report.ledger.of, list, gone)
         /\ named => LedgerAccepted(report.ledger.of, list, gone)
    /\ report.imported.is = "whole" => ImportAccepted(report.imported.of, list, gone)

\* Entries an operator asked for with --accepted-risk.
Granted == {k \in known : k.novelty = "accepted-risk" /\ k.match = NoMatch}

\* e says nothing new and claims nothing worse than k.
NoWorse(e, k) ==
  /\ \A n \in HashNames \ {"root_cause"} : e.hashes[n] = k.hashes[n]
  /\ \A s \in Assessed : e.strength[s] <= k.strength[s]

\* The fingerprints of entries not withheld, and of what was matched to these,
\* and so on: what every set has that holds the first and goes on to the next.
GoesOn(fps) ==
  \A k \in known :
    k.novelty \notin Suppressing \/ (k.novelty = "duplicate" /\ k.match \in fps) => k.fp \in fps

Traced ==
  LET all == {k.fp : k \in known} IN
  {fp \in all : \A fps \in SUBSET all : GoesOn(fps) => fp \in fps}

\* f says other things than when e was made of it.
Reworked(f, e) ==
  f.text # e.hashes \/ \E s \in Assessed : f.strength[s] # e.strength[s]

(* A finding the ledger withholds from publication is withheld for a reason: it *)
(* is no worse than a risk the operator accepted, no matter through how many    *)
(* runs the acceptance was handed on; or it is the duplicate of something that  *)
(* was not withheld itself (novelty_ledger.py:208-255, publication/policy.py:   *)
(* 82-85).  What is said here of an accepted risk holds of the finding as it    *)
(* was classified: the policy compares fingerprints alone (policy.py:431-433),  *)
(* so a finding that got worse under its fingerprint since then stays withheld. *)
WithheldForAReason ==
  report.findings.is = "whole" /\ report.ledger.is = "whole" =>
    \A f \in Range(report.findings.of) :
      Eligible(f, Floor) /\ ~Selected(f, Floor, report.ledger.of.entries) =>
        \A e \in Matching(f, report.ledger.of.entries) :
          \/ /\ e.novelty = "accepted-risk"
             /\ Reworked(f, e) \/ \E k \in Granted : NoWorse(EntryBase(f), k)
          \/ e.novelty = "duplicate" /\ e.match \in Traced
================================================================================
