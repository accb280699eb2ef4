----------------------------- MODULE NoveltyLedger -----------------------------
(* lib/novelty_ledger.py: how gra-novelty classifies a finding against the      *)
(* entries of earlier ledgers, what it writes to reports/known-findings.json,   *)
(* what the validator requires of it, and which findings the publication policy *)
(* withholds because of it.                                                     *)
(*                                                                              *)
(* A finding is [id, fp, text, strength, recommended]: its fingerprint, the     *)
(* normalized text of each hashed field (equal hashes are equal texts), and how *)
(* strong it is on each scale.                                                  *)
EXTENDS Integers, Sequences, FiniteSets, SequencesExt

Empty == "empty"     \* the text whose hash is EMPTY_HASH

ContextNames ==
  {"source_to_sink", "affected_locations", "entry_point", "trust_boundary", "chain_membership"}
HashNames == ContextNames \cup {"root_cause", "evidence", "impact"}

Assessed == {"severity", "confidence", "status"}
Scales == Assessed \cup {"evidence_size", "impact_size"}

Suppressing == {"duplicate", "accepted-risk", "invalid-known"}
NoveltyStatuses ==
  Suppressing \cup {"new", "better-example", "regression", "needs-human-review"}

NoMatch == << >>

EntryBase(f) ==
  [id |-> f.id, fp |-> f.fp, hashes |-> f.text, strength |-> f.strength,
   novelty |-> "new", recommended |-> f.recommended, accepted |-> FALSE, match |-> NoMatch]

Changed(e, k) == \E n \in HashNames \ {"root_cause"} : e.hashes[n] # k.hashes[n]

Higher(e, k, scales) == \E s \in scales : e.strength[s] > k.strength[s]

\* Mutant of AcceptedRiskChanged: an accepted risk may get more severe.
AcceptedRiskReworded(e, k) == Changed(e, k)

AcceptedRiskChanged(e, k) == Changed(e, k) \/ Higher(e, k, Assessed)

IsAcceptedRisk(k) == k.accepted \/ k.novelty = "accepted-risk"

SharedContext(e, k) ==
  {n \in ContextNames : e.hashes[n] # Empty /\ e.hashes[n] = k.hashes[n]}

-------------------------------------------------------------------------------
(* classify_entry                                                               *)

\* The first of the earlier entries at the places I, if there is one.
FirstAt(priors, I) == {priors[i] : i \in {j \in I : \A h \in I : j <= h}}

\* The first earlier entry of this fingerprint, and that of this root cause.
SameFingerprint(e, priors) == FirstAt(priors, {i \in DOMAIN priors : priors[i].fp = e.fp})
SameRoot(e, priors) ==
  FirstAt(priors, {i \in DOMAIN priors : priors[i].hashes["root_cause"] = e.hashes["root_cause"]})

Accepted(e) == [e EXCEPT !.novelty = "accepted-risk", !.recommended = FALSE, !.accepted = TRUE]

\* What an entry is called that matches k, by its fingerprint or not.
Verdict(e, k, exact) ==
  IF ~exact /\ SharedContext(e, k) = {} THEN "needs-human-review"
  ELSE IF IsAcceptedRisk(k)
  THEN IF AcceptedRiskChanged(e, k) THEN "regression" ELSE "accepted-risk"
  ELSE IF ~exact /\ Higher(e, k, Scales) /\ Changed(e, k) THEN "better-example"
  ELSE "duplicate"

Matched(e, k, exact) ==
  LET verdict == Verdict(e, k, exact) IN
  [e EXCEPT !.novelty = verdict, !.match = k.fp,
            !.recommended = e.recommended /\ verdict \notin Suppressing,
            !.accepted = (verdict = "accepted-risk")]

\* acceptedIds are the findings named by --accepted-risk.
ClassifyEntry(f, priors, acceptedIds) ==
  LET e == EntryBase(f)
      exact == SameFingerprint(e, priors)
      alike == SameRoot(e, priors)
  IN IF f.id \in acceptedIds THEN Accepted(e)
     ELSE IF exact # {} THEN Matched(e, CHOOSE k \in exact : TRUE, TRUE)
     ELSE IF alike # {} THEN Matched(e, CHOOSE k \in alike : TRUE, FALSE)
     ELSE e

CountOf(entries, statuses) == Cardinality({i \in DOMAIN entries : entries[i].novelty \in statuses})

BuildLedger(findings, priors, acceptedIds) ==
  LET entries == [i \in DOMAIN findings |-> ClassifyEntry(findings[i], priors, acceptedIds)] IN
  [entries |-> entries, suppressed |-> CountOf(entries, Suppressing),
   counts |-> [s \in NoveltyStatuses |-> CountOf(entries, {s})]]

-------------------------------------------------------------------------------
(* validate_novelty_ledger; gone are the <<id, fingerprint>> pairs that another *)
(* writer has taken out of findings.json.                                       *)

Pairs(findings) == {<< f.id, f.fp >> : f \in Range(findings)}

\* finding_by_id: of the findings of one id, the last.
ById(findings) ==
  {<< findings[i].id, findings[i].fp >> :
     i \in {j \in DOMAIN findings :
             \A h \in DOMAIN findings : findings[h].id = findings[j].id => h <= j}}

\* What the validator requires of the ids ...
IdsAccepted(ledger, findings, gone) ==
  LET es == ledger.entries IN
  /\ \A i, j \in DOMAIN es : es[i].id = es[j].id => i = j
  /\ \A e \in Range(es) : << e.id, e.fp >> \in ById(findings) \cup gone

\* ... and of everything else.
LedgerConsistent(ledger, findings, gone) ==
  LET es == ledger.entries IN
  /\ \A e \in Range(es) :
       /\ << e.id, e.fp >> \in Pairs(findings) \cup gone
       /\ e.novelty \in NoveltyStatuses
       /\ e.novelty \in Suppressing => ~e.recommended
       /\ e.novelty = "accepted-risk" => e.accepted
  /\ ledger.suppressed = CountOf(es, Suppressing)
  /\ \A s \in NoveltyStatuses : ledger.counts[s] = CountOf(es, {s})

LedgerAccepted(ledger, findings, gone) ==
  IdsAccepted(ledger, findings, gone) /\ LedgerConsistent(ledger, findings, gone)

-------------------------------------------------------------------------------
(* publication/policy.py                                                        *)

\* matching_novelty_entry: the last entry of the id, if it has this fingerprint.
Matching(f, entries) ==
  LET own == {i \in DOMAIN entries : entries[i].id = f.id} IN
  {e \in {entries[i] : i \in {j \in own : \A h \in own : h <= j}} : e.fp = f.fp}

\* What the filters on severity and status leave, before the ledger is asked.
Eligible(f, floor) == f.recommended /\ f.strength["severity"] >= floor

Selected(f, floor, entries) ==
  Eligible(f, floor) /\ \A e \in Matching(f, entries) : e.novelty \notin Suppressing
================================================================================
