--------------------------- MODULE ExternalFindings ----------------------------
(* lib/external_findings.py: the records of an external tool, normalized into   *)
(* findings, and the report of an import with what the validator requires of it.*)
(*                                                                              *)
(* A raw record has external_id and title ("" where missing), the spellings of  *)
(* severity, confidence and status (in lower case, with dashes), locations      *)
(* [inRepo, line, endLine] with the line in a set, empty for none, and evidence *)
(* [text, secret], of which redaction keeps the text.                           *)
EXTENDS NoveltyLedger, TLC

CONSTANT MaxImported   \* MAX_IMPORTED_FINDINGS

SeverityAliases ==
  [critical |-> "Critical", high |-> "High", medium |-> "Medium", low |-> "Low",
   info |-> "Informational", informational |-> "Informational"]
ConfidenceAliases == [high |-> "High", medium |-> "Medium", low |-> "Low"]
StatusAliases ==
  [a \in {"confirmed", "probable", "potential", "informational", "info", "invalid",
          "needs-human-review", "needs-review"} |->
     CASE a = "confirmed" -> "Confirmed"
       [] a = "probable"  -> "Probable"
       [] a = "potential" -> "Potential"
       [] a = "invalid"   -> "Invalid"
       [] a \in {"informational", "info"} -> "Informational"
       [] a \in {"needs-human-review", "needs-review"} -> "Needs human review"]

\* _RANK of novelty_ledger.py
SeverityRank == [Critical |-> 5, High |-> 4, Medium |-> 3, Low |-> 2, Informational |-> 1]
ConfidenceRank == [High |-> 3, Medium |-> 2, Low |-> 1]
StatusRank ==
  [s \in {"Confirmed", "Probable", "Potential", "Informational", "Invalid",
          "Needs human review"} |->
     CASE s = "Confirmed" -> 4 [] s = "Probable" -> 3 [] s = "Potential" -> 2
       [] s \in {"Informational", "Needs human review"} -> 1 [] s = "Invalid" -> 0]

LocationAccepted(l) ==
  /\ l.inRepo
  /\ \A n \in l.line \cup l.endLine : n >= 1
  /\ \A n \in l.line, m \in l.endLine : m >= n

\* normalize_external_record without a reason to reject the record.
RecordNormalizes(raw) ==
  /\ raw.external_id # "" /\ raw.title # ""
  /\ raw.severity \in DOMAIN SeverityAliases
  /\ raw.confidence \in DOMAIN ConfidenceAliases
  /\ raw.status \in DOMAIN StatusAliases
  /\ raw.locations # << >> /\ \A l \in Range(raw.locations) : LocationAccepted(l)

\* normalized_fingerprint: neither confidence nor status is part of it.
NormalizedFingerprint(source, raw) ==
  << source, raw.external_id, raw.title, SeverityAliases[raw.severity], raw.locations,
     raw.evidence.text >>

\* The fields no external record fills say the same for every import.
Boilerplate(name) == "imported " \o name

ImportedText(raw) ==
  [n \in HashNames |->
     CASE n = "evidence" -> raw.evidence.text
       [] n = "affected_locations" -> ToString(raw.locations)
       [] n = "chain_membership" -> Empty
       [] OTHER -> Boilerplate(n)]

ImportedStrength(raw) ==
  [severity |-> SeverityRank[SeverityAliases[raw.severity]],
   confidence |-> ConfidenceRank[ConfidenceAliases[raw.confidence]],
   status |-> StatusRank[StatusAliases[raw.status]],
   evidence_size |-> Len(raw.evidence.text), impact_size |-> 1]

BuildFinding(source, raw) ==
  LET fp == NormalizedFingerprint(source, raw) IN
  [id |-> [name |-> "IMP", of |-> fp], fp |-> fp, text |-> ImportedText(raw),
   strength |-> ImportedStrength(raw), recommended |-> FALSE]

-------------------------------------------------------------------------------
(* import_external_findings                                                     *)

\* load_external_payload
PayloadAccepted(payload) == Len(payload.records) <= MaxImported

\* The places I of a list of n elements, in order.
InOrder(I, n) ==
  CHOOSE t \in UNION {[1..m -> I] : m \in 0..n} :
    Range(t) = I /\ \A i, j \in DOMAIN t : i < j => t[i] < t[j]

\* The elements a list has there.
Sublist(list, I) ==
  LET places == InOrder(I, Len(list)) IN [i \in DOMAIN places |-> list[places[i]]]

NormalizedFindings(payload) ==
  LET records == payload.records
      good == Sublist(records, {i \in DOMAIN records : RecordNormalizes(records[i])}) IN
  [i \in DOMAIN good |-> BuildFinding(payload.source, good[i])]

RejectedCount(payload) ==
  Cardinality({i \in DOMAIN payload.records : ~RecordNormalizes(payload.records[i])})

\* Mutant of AppendStatus: records are compared with findings.json alone.
AppendUnlessPresent(news, i, append, existing) ==
  IF ~append THEN "review-only"
  ELSE IF news[i].fp \in existing THEN "duplicate-skipped" ELSE "appended"

\* existing are the fingerprints of findings.json when it was read.
AppendStatus(news, i, append, existing) ==
  IF (\E j \in 1..(i - 1) : news[j].fp = news[i].fp) \/ (append /\ news[i].fp \in existing)
  THEN "duplicate-skipped"
  ELSE IF append THEN "appended" ELSE "review-only"

ItemsWith(items, status) == Sublist(items, {i \in DOMAIN items : items[i].status = status})

\* The report of an import, and the findings it appends.
BuildImport(payload, append, existing) ==
  LET news == NormalizedFindings(payload)
      items == [i \in DOMAIN news |->
                  [finding |-> news[i], status |-> AppendStatus(news, i, append, existing)]]
  IN [source |-> payload.source, items |-> items, input |-> Len(payload.records),
      valid |-> Len(items), rejected |-> RejectedCount(payload),
      appended |-> Len(ItemsWith(items, "appended")),
      skipped |-> Len(ItemsWith(items, "duplicate-skipped"))]

Appended(report) ==
  LET added == ItemsWith(report.items, "appended") IN
  [i \in DOMAIN added |-> added[i].finding]

-------------------------------------------------------------------------------
(* validate_imported_findings and validate_findings                             *)

ImportAccepted(report, findings, gone) ==
  LET its == report.items IN
  /\ \A i \in DOMAIN its :
       /\ (\E j \in 1..(i - 1) : its[j].finding.fp = its[i].finding.fp) =>
            its[i].status = "duplicate-skipped"
       /\ its[i].status = "appended" =>
            \E pair \in Pairs(findings) \cup gone : pair[2] = its[i].finding.fp
       /\ ~its[i].finding.recommended
  /\ report.valid = Len(its)
  /\ report.input = report.valid + report.rejected
  /\ report.appended = Len(ItemsWith(its, "appended"))
  /\ report.skipped = Len(ItemsWith(its, "duplicate-skipped"))

FindingsAccepted(findings) ==
  \A i, j \in DOMAIN findings : findings[i].fp = findings[j].fp => i = j
================================================================================
