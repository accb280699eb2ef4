------------------------ MODULE IssuePublicationProofs ------------------------
(***************************************************************************)
(* Proofs about IssuePublication.                                          *)
(***************************************************************************)
EXTENDS IssuePublication, TLAPS

-----------------------------------------------------------------------------
(* Type correctness *)

(* What an invocation remembers, as a part of TypeOK. *)
MemType ==
  /\ pc \in [Process -> Label]
  /\ mem \in [Process -> Memory \cup {Idle}]
  /\ \A p \in Process : IF pc[p] = "idle" THEN mem[p] = Idle ELSE mem[p] \in Memory

(* A partial function on findings is one on its domain. *)
LEMMA PartialFunction ==
  ASSUME NEW T, NEW f
  PROVE  f \in UNION {[S -> T] : S \in SUBSET Key} <=> DOMAIN f \subseteq Key /\ f \in [DOMAIN f -> T]
  OBVIOUS

LEMMA NoEntriesType ==
  ASSUME NEW T
  PROVE  NoEntries \in UNION {[S -> T] : S \in SUBSET Key}
<1>1. NoEntries \in [{} -> T]
  BY DEF NoEntries
<1> QED BY <1>1

(* Updating the memory of a running invocation keeps MemType. *)
LEMMA Running ==
  ASSUME TypeOK, NEW p \in Process, NEW label \in Label \ {"idle"}, NEW m \in Memory,
         pc' = [pc EXCEPT ![p] = label], mem' = [mem EXCEPT ![p] = m]
  PROVE  MemType'
  BY DEF TypeOK, MemType

(* So does an invocation that ends. *)
LEMMA Stopping ==
  ASSUME TypeOK, NEW p \in Process, Stop(p)
  PROVE  MemType'
<1>1. pc' = [pc EXCEPT ![p] = "idle"] /\ mem' = [mem EXCEPT ![p] = Idle]
  BY DEF Stop, Goto
<1>2. MemType
  BY DEF TypeOK, MemType
<1>3. "idle" \in Label
  BY DEF Label
<1> QED BY <1>1, <1>2, <1>3 DEF MemType

(* What Done does to the memory is well typed. *)
LEMMA DoneType ==
  ASSUME TypeOK, NEW p \in Process, pc[p] # "idle", NEW k \in Key, NEW entry \in LedgerEntry,
         NEW gone \in SUBSET Key, Done(p, k, entry, gone), pc' = [pc EXCEPT ![p] = "looping"]
  PROVE  MemType'
<1> DEFINE m == mem[p]
           over == [x \in DOMAIN m.over \cup {k} |-> IF x = k THEN entry ELSE m.over[x]]
           new == [m EXCEPT !.todo = @ \ {k}, !.sel = {}, !.over = over, !.superseded = @ \cup gone]
<1>1. m \in Memory
  BY DEF TypeOK
<1>2. over \in UNION {[S -> LedgerEntry] : S \in SUBSET Key}
  <2>1. DOMAIN m.over \subseteq Key /\ m.over \in [DOMAIN m.over -> LedgerEntry]
    BY <1>1, PartialFunction DEF Memory
  <2>2. over \in [DOMAIN over -> LedgerEntry] /\ DOMAIN over \subseteq Key
    BY <2>1
  <2> HIDE DEF over
  <2> QED BY <2>2, PartialFunction
<1>3. new \in Memory
  <2> HIDE DEF over
  <2> QED BY <1>1, <1>2 DEF Memory
<1>4. mem' = [mem EXCEPT ![p] = new]
  BY DEF TypeOK, Done
<1>5. "looping" \in Label \ {"idle"}
  BY DEF Label
<1> HIDE DEF new
<1> QED BY <1>3, <1>4, <1>5, Running

(* The entries a plan's findings would be published with form a plan. *)
LEMMA VerifiedEntries ==
  ASSUME TypeOK, NEW file \in Plan
  PROVE  [k \in DOMAIN file |-> draft[k]] \in Plan
<1>1. DOMAIN file \subseteq Key
  BY PartialFunction DEF Plan
<1>2. draft \in [Key -> Body]
  BY DEF TypeOK, Current, Source
<1> QED BY <1>1, <1>2, PartialFunction DEF Plan

(* What an invocation publishes are findings it read, with the bodies it *)
(* rendered or verified; the bodies it verified are those of the plan.    *)
Bound(p) ==
  LET m == mem[p] IN
    /\ pc[p] = "loaded" => m.sel \subseteq m.found /\ m.todo = {} /\ m.reviewed = NoPlan
    /\ pc[p] # "loaded" => m.sel \cup m.todo \subseteq DOMAIN m.entries /\ DOMAIN m.entries \subseteq m.found
    /\ m.reviewed # NoPlan => m.reviewed = m.entries

Binding == \A p \in Process : pc[p] # "idle" => Bound(p)

(* The issue an invocation creates is well typed and says what the plan says. *)
LEMMA NewIssueType ==
  ASSUME TypeOK, Binding, NEW p \in Process, NEW k \in Key, pc[p] = "creating", mem[p].sel = {k}
  PROVE  /\ NewIssue(p, k) \in Issue
         /\ NewIssue(p, k).reviewed # NoPlan => NewIssue(p, k).body = NewIssue(p, k).reviewed
<1>1. mem[p] \in Memory /\ Bound(p)
  BY DEF TypeOK, Binding
<1>2. k \in DOMAIN mem[p].entries
  BY <1>1 DEF Bound
<1>3. mem[p].entries \in Plan
  BY <1>1 DEF Memory
<1>4. mem[p].entries \in [DOMAIN mem[p].entries -> Body]
  BY <1>3, PartialFunction DEF Plan
<1>5. mem[p].entries[k] \in Body
  BY <1>2, <1>4
<1>6. mem[p].reviewed # NoPlan => mem[p].reviewed[k] = mem[p].entries[k]
  BY <1>1 DEF Bound
<1> QED BY <1>5, <1>6, PublicationAssumption DEF NewIssue, Issue

(* No step leaves the types, given what an invocation is bound to. *)
THEOREM TypeStep ==
  ASSUME TypeOK, Binding, [Next]_vars
  PROVE  TypeOK'
<1> USE PublicationAssumption, InvokedAssumption DEF sources, planFiles
<1>0. MemType /\ Current \in Source /\ findings \subseteq Key /\ draft \in [Key -> Body]
  BY DEF TypeOK, MemType, Current, Source
<1> DEFINE Rest == /\ Current \in Source
                   /\ plan \in Plan \cup {NoPlan} /\ copy \in Plan \cup {NoPlan}
                   /\ recorded \in Source \cup {NoPlan}
                   /\ ledger \in Ledger
                   /\ decisions \in [Key -> {"none", "new", "exact-duplicate"}]
                   /\ issues \in Seq(Issue) /\ Len(issues) <= MaxIssues
                   /\ faults \in 0..MaxFaults
                   /\ missed \subseteq Fingerprint
<1>A. Rest /\ (Rest' /\ MemType' => TypeOK')
  BY DEF TypeOK, MemType
<1>B. ASSUME UNCHANGED <<sources, planFiles, ledger, decisions, issues, faults, missed>>
      PROVE  Rest'
  BY <1>A, <1>B DEF Current
<1> HIDE DEF Rest
<1>1. ASSUME NEW p \in Process, Start(p) PROVE TypeOK'
  <2>1. PICK mode \in Invoked, sel \in SUBSET findings : Load(p, mode, sel)
    BY <1>1 DEF Start
  <2> DEFINE m == [mode |-> mode, found |-> findings, sel |-> sel, entries |-> NoEntries,
                   reviewed |-> NoPlan, captured |-> NoPlan, todo |-> {}, seen |-> Nothing,
                   over |-> NoEntries, superseded |-> {}]
  <2>2. NoEntries \in Plan /\ NoEntries \in UNION {[S -> LedgerEntry] : S \in SUBSET Key}
    BY NoEntriesType DEF Plan
  <2>3. Nothing \in Ledger
    BY DEF Nothing, Ledger, LedgerEntry
  <2>4. m \in Memory
    BY <1>0, <2>2, <2>3 DEF Memory
  <2>5. "loaded" \in Label \ {"idle"}
    BY DEF Label
  <2>6. MemType'
    BY <2>1, <2>4, <2>5, Running DEF Load, Goto
  <2> QED BY <2>1, <2>6, <1>A, <1>B DEF Load
<1>2. ASSUME NEW p \in Process, Render(p) PROVE TypeOK'
  <2> DEFINE entries == [k \in mem[p].sel |-> draft[k]]
             m == [mem[p] EXCEPT !.entries = entries]
  <2>1. mem[p] \in Memory
    BY <1>2, <1>0 DEF Render, MemType
  <2>2. entries \in Plan
    BY <2>1, <1>0, PartialFunction DEF Memory, Plan
  <2>3. m \in Memory
    <3> HIDE DEF entries
    <3> QED BY <2>1, <2>2 DEF Memory
  <2>4. mem' = [mem EXCEPT ![p] = m]
    BY <1>2, <1>0 DEF Render, MemType
  <2>5. PICK label \in Label \ {"idle"} : pc' = [pc EXCEPT ![p] = label]
    BY <1>2 DEF Render, Goto, Label
  <2>6. MemType'
    <3> HIDE DEF m
    <3> QED BY <2>3, <2>4, <2>5, Running
  <2> QED BY <1>2, <2>6, <1>A, <1>B DEF Render
<1>3. ASSUME NEW p \in Process, Refuse(p) PROVE TypeOK'
  BY <1>3, <1>A, <1>B, Stopping DEF Refuse
<1>4. ASSUME NEW p \in Process, WritePlan(p) PROVE TypeOK'
  <2> DEFINE m == [mem[p] EXCEPT !.captured = Current]
  <2>1. mem[p] \in Memory
    BY <1>4, <1>0 DEF WritePlan, MemType
  <2>2. m \in Memory
    BY <2>1, <1>0 DEF Memory
  <2>3. mem' = [mem EXCEPT ![p] = m]
    BY <1>4, <1>0 DEF WritePlan, MemType
  <2>4. MemType'
    <3> HIDE DEF m
    <3> QED BY <1>4, <2>2, <2>3, Running DEF WritePlan, Goto, Label
  <2>5. Rest'
    BY <1>4, <1>A, <2>1 DEF WritePlan, Rest, Current, Memory
  <2> QED BY <2>4, <2>5, <1>A
<1>5. ASSUME NEW p \in Process, RecordPlan(p) PROVE TypeOK'
  <2> DEFINE m == [mem[p] EXCEPT !.captured = NoPlan]
  <2>1. mem[p] \in Memory
    BY <1>5, <1>0 DEF RecordPlan, MemType
  <2>2. m \in Memory
    BY <2>1 DEF Memory
  <2>3. mem' = [mem EXCEPT ![p] = m]
    BY <1>5, <1>0 DEF RecordPlan, MemType
  <2>4. MemType'
    <3> HIDE DEF m
    <3> QED BY <1>5, <2>2, <2>3, Running DEF RecordPlan, Goto, Label
  <2>5. Rest'
    BY <1>5, <1>A, <1>0 DEF RecordPlan, Rest, Current
  <2> QED BY <2>4, <2>5, <1>A
<1>6. ASSUME NEW p \in Process, RecordFails(p) PROVE TypeOK'
  BY <1>6, <1>A, <1>B, Stopping DEF RecordFails
<1>7. ASSUME NEW p \in Process, RewritePlan(p) PROVE TypeOK'
  <2>1. mem[p] \in Memory
    BY <1>7, <1>0 DEF RewritePlan, MemType
  <2>2. MemType'
    BY <1>7, <1>0, <2>1 DEF RewritePlan, Goto, Label, MemType
  <2>3. Rest'
    BY <1>7, <1>A, <2>1 DEF RewritePlan, Rest, Current, Memory
  <2> QED BY <2>2, <2>3, <1>A
<1>8. ASSUME NEW p \in Process, NEW file \in {plan, copy}, VerifyPlan(p, file) PROVE TypeOK'
  <2>1. mem[p] \in Memory
    BY <1>8, <1>0 DEF VerifyPlan, MemType
  <2>2. file \in Plan
    BY <1>8, <1>A DEF VerifyPlan, Rest
  <2> DEFINE entries == [k \in DOMAIN file |-> draft[k]]
             m == [mem[p] EXCEPT !.sel = DOMAIN file, !.reviewed = file, !.entries = entries]
  <2>3. entries \in Plan /\ DOMAIN file \subseteq Key
    BY <2>2, VerifiedEntries, PartialFunction DEF Plan
  <2>4. m \in Memory
    <3> HIDE DEF entries
    <3> QED BY <2>1, <2>2, <2>3 DEF Memory
  <2>5. mem' = [mem EXCEPT ![p] = m]
    BY <1>8, <1>0 DEF VerifyPlan, MemType
  <2>6. MemType'
    <3> HIDE DEF m
    <3> QED BY <1>8, <2>4, <2>5, Running DEF VerifyPlan, Goto, Label
  <2> QED BY <1>8, <2>6, <1>A, <1>B DEF VerifyPlan
<1>9. ASSUME NEW p \in Process, CheckFreshness(p) PROVE TypeOK'
  <2>1. MemType'
    BY <1>9, <1>0 DEF CheckFreshness, Goto, Label, MemType
  <2> QED BY <1>9, <2>1, <1>A, <1>B DEF CheckFreshness
<1>10. ASSUME NEW p \in Process, ReadLedger(p) PROVE TypeOK'
  <2> DEFINE m == [mem[p] EXCEPT !.seen = ledger, !.todo = mem[p].sel, !.sel = {}]
  <2>1. mem[p] \in Memory
    BY <1>10, <1>0 DEF ReadLedger, MemType
  <2>2. m \in Memory
    BY <2>1, <1>A DEF Memory, Rest
  <2>3. mem' = [mem EXCEPT ![p] = m]
    BY <1>10, <1>0 DEF ReadLedger, MemType
  <2>4. MemType'
    <3> HIDE DEF m
    <3> QED BY <1>10, <2>2, <2>3, Running DEF ReadLedger, Goto, Label
  <2> QED BY <1>10, <2>4, <1>A, <1>B DEF ReadLedger
<1>11. ASSUME NEW p \in Process, NEW k \in Key, SkipKnown(p, k) PROVE TypeOK'
  <2>1. mem[p] \in Memory
    BY <1>11, <1>0 DEF SkipKnown, MemType
  <2>2. PICK n \in Key : Done(p, k, mem[p].seen[n], {n} \ {k})
    BY <1>11 DEF SkipKnown
  <2>3. mem[p].seen[n] \in LedgerEntry
    BY <2>1, <2>2 DEF Memory, Ledger
  <2>4. pc[p] = "looping" /\ pc' = [pc EXCEPT ![p] = "looping"]
    BY <1>11, <1>0 DEF SkipKnown, MemType
  <2>5. MemType'
    <3> DEFINE entry == mem[p].seen[n]
    <3>1. entry \in LedgerEntry /\ Done(p, k, entry, {n} \ {k}) /\ {n} \ {k} \in SUBSET Key /\ pc[p] # "idle"
      BY <2>2, <2>3, <2>4
    <3> HIDE DEF entry
    <3> QED BY <2>4, <3>1, DoneType
  <2>6. Rest'
    BY <1>11, <1>A DEF SkipKnown, Decide, Rest, Current
  <2> QED BY <2>5, <2>6, <1>A
<1>12. ASSUME NEW p \in Process, NEW k \in Key, SkipDuplicate(p, k) PROVE TypeOK'
  <2>1. PICK i \in OpenWith(k[2]) : Done(p, k, [status |-> "duplicate", url |-> i], {})
    BY <1>12 DEF SkipDuplicate
  <2>2. i \in 1..MaxIssues
    BY <2>1, <1>A DEF OpenWith, Rest
  <2>3. [status |-> "duplicate", url |-> i] \in LedgerEntry
    BY <2>2 DEF LedgerEntry
  <2>4. pc[p] = "looping" /\ pc' = [pc EXCEPT ![p] = "looping"]
    BY <1>12, <1>0 DEF SkipDuplicate, MemType
  <2>5. MemType'
    <3> DEFINE entry == [status |-> "duplicate", url |-> i]
    <3>1. entry \in LedgerEntry /\ Done(p, k, entry, {}) /\ {} \in SUBSET Key /\ pc[p] # "idle"
      BY <2>1, <2>3, <2>4
    <3> HIDE DEF entry
    <3> QED BY <2>4, <3>1, DoneType
  <2>6. Rest'
    BY <1>12, <1>A DEF SkipDuplicate, Decide, Rest, Current
  <2> QED BY <2>5, <2>6, <1>A
<1>13. ASSUME NEW p \in Process, NEW k \in Key, FindNothing(p, k) PROVE TypeOK'
  <2> DEFINE m == [mem[p] EXCEPT !.todo = @ \ {k}, !.sel = {k}]
  <2>1. mem[p] \in Memory
    BY <1>13, <1>0 DEF FindNothing, MemType
  <2>2. m \in Memory
    BY <2>1 DEF Memory
  <2>3. mem' = [mem EXCEPT ![p] = m]
    BY <1>13, <1>0 DEF FindNothing, MemType
  <2>4. MemType'
    <3> HIDE DEF m
    <3> QED BY <1>13, <2>2, <2>3, Running DEF FindNothing, Goto, Label
  <2>5. k[2] \in Fingerprint
    OBVIOUS
  <2>6. faults' \in 0..MaxFaults
    BY <1>13, <1>A DEF FindNothing, Fault, Rest
  <2>7. Rest'
    BY <1>13, <1>A, <2>5, <2>6 DEF FindNothing, Decide, Rest, Current
  <2> QED BY <2>4, <2>7, <1>A
<1>14. ASSUME NEW p \in Process, NEW k \in Key, PreviewIssue(p, k) PROVE TypeOK'
  <2>1. pc[p] = "looping" /\ pc' = [pc EXCEPT ![p] = "looping"]
    BY <1>14, <1>0 DEF PreviewIssue, MemType
  <2>2. MemType'
    <3>1. Unpublished \in LedgerEntry /\ Done(p, k, Unpublished, {}) /\ {} \in SUBSET Key /\ pc[p] # "idle"
      BY <1>14, <2>1 DEF PreviewIssue, LedgerEntry
    <3> QED BY <2>1, <3>1, DoneType
  <2>3. Rest'
    BY <1>14, <1>A DEF PreviewIssue, Decide, Rest, Current
  <2> QED BY <2>2, <2>3, <1>A
<1>15. ASSUME NEW p \in Process, NEW k \in Key, CreateIssue(p, k) PROVE TypeOK'
  <2>1. pc[p] = "creating" /\ mem[p].sel = {k} /\ pc' = [pc EXCEPT ![p] = "looping"]
    BY <1>15 DEF CreateIssue, Goto
  <2>2. Len(issues) \in Nat /\ Len(issues) + 1 \in 1..MaxIssues
    BY <1>15, <1>A DEF CreateIssue, Rest
  <2>3. [status |-> "published", url |-> Len(issues) + 1] \in LedgerEntry
    BY <2>2 DEF LedgerEntry
  <2>4. MemType'
    <3> DEFINE entry == [status |-> "published", url |-> Len(issues) + 1]
    <3>1. entry \in LedgerEntry /\ Done(p, k, entry, {}) /\ {} \in SUBSET Key /\ pc[p] # "idle"
      BY <1>15, <2>1, <2>3 DEF CreateIssue
    <3> HIDE DEF entry
    <3> QED BY <2>1, <3>1, DoneType
  <2>5. NewIssue(p, k) \in Issue
    BY <2>1, NewIssueType
  <2>6. issues' \in Seq(Issue) /\ Len(issues') <= MaxIssues
    BY <1>15, <1>A, <2>5 DEF CreateIssue, Rest
  <2>7. Rest'
    BY <1>15, <1>A, <2>6 DEF CreateIssue, Rest, Current
  <2> QED BY <2>4, <2>7, <1>A
<1>16. ASSUME NEW p \in Process, NEW k \in Key, CreateFails(p, k) PROVE TypeOK'
  <2>1. MemType'
    BY <1>16, Stopping DEF CreateFails
  <2>2. NewIssue(p, k) \in Issue
    BY <1>16, NewIssueType DEF CreateFails
  <2>3. issues' \in Seq(Issue) /\ Len(issues') <= MaxIssues
    <3>1. issues \in Seq(Issue) /\ Len(issues) <= MaxIssues
      BY <1>A DEF Rest
    <3>2. CASE UNCHANGED issues
      BY <3>1, <3>2
    <3>3. CASE Len(issues) < MaxIssues /\ issues' = Append(issues, NewIssue(p, k))
      BY <3>1, <3>3, <2>2
    <3> QED BY <1>16, <3>2, <3>3 DEF CreateFails
  <2>4. faults' \in 0..MaxFaults
    BY <1>16, <1>A DEF CreateFails, Fault, Rest
  <2>5. Rest'
    BY <1>16, <1>A, <2>3, <2>4 DEF CreateFails, Rest, Current
  <2> QED BY <2>1, <2>5, <1>A
<1>17. ASSUME NEW p \in Process, EndLoop(p) PROVE TypeOK'
  <2> DEFINE m == [mem[p] EXCEPT !.seen = Nothing]
  <2>1. mem[p] \in Memory
    BY <1>17, <1>0 DEF EndLoop, MemType
  <2>2. m \in Memory
    BY <2>1 DEF Memory, Nothing, Ledger, LedgerEntry
  <2>3. mem' = [mem EXCEPT ![p] = m]
    BY <1>17, <1>0 DEF EndLoop, MemType
  <2>4. MemType'
    <3> HIDE DEF m
    <3> QED BY <1>17, <2>2, <2>3, Running DEF EndLoop, Goto, Label
  <2> QED BY <1>17, <2>4, <1>A, <1>B DEF EndLoop
<1>18. ASSUME NEW p \in Process, ReloadLedger(p) PROVE TypeOK'
  <2> DEFINE m == [mem[p] EXCEPT !.seen = ledger]
  <2>1. mem[p] \in Memory
    BY <1>18, <1>0 DEF ReloadLedger, MemType
  <2>2. m \in Memory
    BY <2>1, <1>A DEF Memory, Rest
  <2>3. mem' = [mem EXCEPT ![p] = m]
    BY <1>18, <1>0 DEF ReloadLedger, MemType
  <2>4. MemType'
    <3> HIDE DEF m
    <3> QED BY <1>18, <2>2, <2>3, Running DEF ReloadLedger, Goto, Label
  <2> QED BY <1>18, <2>4, <1>A, <1>B DEF ReloadLedger
<1>19. ASSUME NEW p \in Process, WriteLedger(p) PROVE TypeOK'
  <2>1. mem[p] \in Memory
    BY <1>19, <1>0 DEF WriteLedger, MemType
  <2>2. MemType'
    BY <1>19, Stopping DEF WriteLedger
  <2>3. mem[p].seen \in [Key -> LedgerEntry] /\ mem[p].over \in [DOMAIN mem[p].over -> LedgerEntry]
    BY <2>1, PartialFunction DEF Memory, Ledger
  <2>4. Merge(mem[p].seen, mem[p]) \in Ledger
    BY <2>3 DEF Merge, Ledger, LedgerEntry, Unpublished
  <2>5. Rest'
    BY <1>19, <1>A, <2>4 DEF WriteLedger, Rest, Current
  <2> QED BY <2>2, <2>5, <1>A
<1>20. ASSUME NEW p \in Process, Crash(p) PROVE TypeOK'
  <2>1. MemType'
    BY <1>20, Stopping DEF Crash
  <2>2. Rest'
    BY <1>20, <1>A DEF Crash, Fault, Rest, Current
  <2> QED BY <2>1, <2>2, <1>A
<1>21. ASSUME Environment PROVE TypeOK'
  <2>1. MemType'
    BY <1>21, <1>0 DEF Environment, EditFindings, EditDraft, CopyPlan, CloseIssue, Index, MemType
  <2>2. CASE \E present \in SUBSET Key : EditFindings(present)
    BY <2>1, <2>2, <1>A DEF EditFindings, Fault, Rest, Current, Source
  <2>3. CASE \E k \in Key, body \in Body : EditDraft(k, body)
    BY <2>1, <2>3, <1>A DEF EditDraft, Fault, Rest, Current, Source
  <2>4. CASE CopyPlan
    BY <2>1, <2>4, <1>A DEF CopyPlan, Rest, Current
  <2>5. CASE \E i \in DOMAIN issues : CloseIssue(i) \/ Index(i)
    <3>1. PICK i \in DOMAIN issues : CloseIssue(i) \/ Index(i)
      BY <2>5
    <3>2. issues \in Seq(Issue) /\ Len(issues) <= MaxIssues
      BY <1>A DEF Rest
    <3>3. issues[i] \in Issue
      BY <3>2
    <3>4. PICK new \in Issue : issues' = [issues EXCEPT ![i] = new]
      BY <3>1, <3>3, <3>2 DEF CloseIssue, Index, Issue
    <3>5. issues' \in Seq(Issue) /\ Len(issues') = Len(issues)
      BY <3>2, <3>4
    <3> QED BY <2>1, <3>1, <3>2, <3>5, <1>A DEF CloseIssue, Index, Fault, Rest, Current
  <2> QED BY <1>21, <2>2, <2>3, <2>4, <2>5 DEF Environment
<1>22. CASE UNCHANGED vars
  BY <1>22 DEF vars, TypeOK, Current
<1> QED
  BY <1>1, <1>2, <1>3, <1>4, <1>5, <1>6, <1>7, <1>8, <1>9, <1>10, <1>11, <1>12, <1>13, <1>14,
     <1>15, <1>16, <1>17, <1>18, <1>19, <1>20, <1>21, <1>22 DEF Next, Planning, Verifying, Publishing

-----------------------------------------------------------------------------
(* What an invocation publishes *)

(* A step of p disturbs no other invocation; p's own part is to be shown. *)
LEMMA OnlyOne ==
  ASSUME TypeOK, Binding, NEW p \in Process,
         \A q \in Process : q # p => pc'[q] = pc[q] /\ mem'[q] = mem[q],
         pc'[p] = "idle" \/ Bound(p)'
  PROVE  Binding'
  BY DEF Binding, Bound

(* Marking one finding as done keeps the rest. *)
LEMMA DoneBound ==
  ASSUME TypeOK, Binding, NEW p \in Process, NEW k, NEW entry, NEW gone, Done(p, k, entry, gone),
         pc[p] \in {"looping", "creating"}, pc'[p] = "looping"
  PROVE  Bound(p)'
<1>1. mem[p] \in Memory /\ Bound(p)
  BY DEF TypeOK, Binding
<1>2. /\ mem'[p].sel = {} /\ mem'[p].todo \subseteq mem[p].todo
      /\ mem'[p].entries = mem[p].entries /\ mem'[p].found = mem[p].found
      /\ mem'[p].reviewed = mem[p].reviewed
  BY <1>1 DEF Done, TypeOK, Memory
<1> QED BY <1>1, <1>2 DEF Bound

THEOREM BindingStep ==
  ASSUME TypeOK, Binding, [Next]_vars
  PROVE  Binding'
<1> DEFINE Untouched(p) == \A q \in Process : q # p => pc'[q] = pc[q] /\ mem'[q] = mem[q]
<1>0. /\ pc \in [Process -> Label] /\ mem \in [Process -> Memory \cup {Idle}]
      /\ \A p \in Process : pc[p] # "idle" => mem[p] \in Memory /\ Bound(p)
  BY DEF TypeOK, Binding
<1>S. ASSUME NEW p \in Process, Stop(p) PROVE Binding'
  BY <1>0, <1>S, OnlyOne DEF Stop, Goto
<1>1. ASSUME NEW p \in Process, Start(p) PROVE Binding'
  <2>1. Untouched(p) /\ Bound(p)'
    BY <1>0, <1>1 DEF Start, Load, Goto, Bound
  <2> QED BY <2>1, OnlyOne
<1>2. ASSUME NEW p \in Process, Render(p) PROVE Binding'
  <2>1. mem[p] \in Memory /\ Bound(p) /\ pc[p] = "loaded" /\ pc'[p] # "loaded" /\ pc'[p] # "idle"
    BY <1>0, <1>2 DEF Render, Goto
  <2>2. mem'[p] = [mem[p] EXCEPT !.entries = [k \in mem[p].sel |-> draft[k]]]
    BY <1>0, <1>2 DEF Render
  <2>3. Untouched(p)
    BY <1>0, <1>2 DEF Render, Goto
  <2>4. Bound(p)'
    BY <2>1, <2>2 DEF Bound, Memory
  <2> QED BY <2>3, <2>4, OnlyOne
<1>3. ASSUME NEW p \in Process, Refuse(p) \/ RecordFails(p) \/ WriteLedger(p) \/ Crash(p) PROVE Binding'
  BY <1>3, <1>S DEF Refuse, RecordFails, WriteLedger, Crash
<1>4. ASSUME NEW p \in Process, WritePlan(p) \/ RecordPlan(p) \/ RewritePlan(p) \/ CheckFreshness(p)
                                \/ EndLoop(p) \/ ReloadLedger(p)
      PROVE  Binding'
  <2>1. mem[p] \in Memory /\ Bound(p) /\ pc[p] # "loaded" /\ pc'[p] # "loaded"
    BY <1>0, <1>4 DEF WritePlan, RecordPlan, RewritePlan, CheckFreshness, EndLoop, ReloadLedger, Goto
  <2>2. /\ mem'[p].sel = mem[p].sel /\ mem'[p].todo = mem[p].todo
        /\ mem'[p].entries = mem[p].entries /\ mem'[p].found = mem[p].found
        /\ mem'[p].reviewed = mem[p].reviewed
    BY <1>0, <1>4, <2>1 DEF WritePlan, RecordPlan, RewritePlan, CheckFreshness, EndLoop, ReloadLedger, Memory
  <2>3. Untouched(p)
    BY <1>0, <1>4 DEF WritePlan, RecordPlan, RewritePlan, CheckFreshness, EndLoop, ReloadLedger, Goto
  <2>4. Bound(p)'
    BY <2>1, <2>2 DEF Bound
  <2> QED BY <2>3, <2>4, OnlyOne
<1>5. ASSUME NEW p \in Process, NEW file \in {plan, copy}, VerifyPlan(p, file) PROVE Binding'
  <2>1. mem[p] \in Memory /\ Bound(p) /\ pc[p] = "loaded" /\ pc'[p] = "verified"
    BY <1>0, <1>5 DEF VerifyPlan, Goto
  <2>2. file \in Plan /\ DOMAIN file \subseteq mem[p].found
    BY <1>5 DEF VerifyPlan, TypeOK, Agrees
  <2>3. file \in [DOMAIN file -> Body]
    BY <2>2, PartialFunction DEF Plan
  <2>4. [k \in DOMAIN file |-> draft[k]] = file
    BY <1>5, <2>3 DEF VerifyPlan, Agrees
  <2>5. mem'[p] = [mem[p] EXCEPT !.sel = DOMAIN file, !.reviewed = file, !.entries = file]
    BY <1>0, <1>5, <2>4 DEF VerifyPlan
  <2>6. Untouched(p)
    BY <1>0, <1>5 DEF VerifyPlan, Goto
  <2>7. Bound(p)'
    BY <2>1, <2>2, <2>5 DEF Bound, Memory
  <2> QED BY <2>6, <2>7, OnlyOne
<1>6. ASSUME NEW p \in Process, ReadLedger(p) PROVE Binding'
  <2>1. mem[p] \in Memory /\ Bound(p) /\ pc[p] = "ready" /\ pc'[p] = "looping"
    BY <1>0, <1>6 DEF ReadLedger, Goto
  <2>2. mem'[p] = [mem[p] EXCEPT !.seen = ledger, !.todo = mem[p].sel, !.sel = {}]
    BY <1>0, <1>6 DEF ReadLedger
  <2>3. Untouched(p)
    BY <1>0, <1>6 DEF ReadLedger, Goto
  <2>4. Bound(p)'
    BY <2>1, <2>2 DEF Bound, Memory
  <2> QED BY <2>3, <2>4, OnlyOne
<1>7. ASSUME NEW p \in Process, NEW k \in Key,
             SkipKnown(p, k) \/ SkipDuplicate(p, k) \/ PreviewIssue(p, k) \/ CreateIssue(p, k)
      PROVE  Binding'
  <2>1. /\ pc[p] \in {"looping", "creating"} /\ pc'[p] = "looping"
        /\ \A q \in Process : q # p => pc'[q] = pc[q]
        /\ \E entry, gone : Done(p, k, entry, gone)
    BY <1>0, <1>7 DEF SkipKnown, SkipDuplicate, PreviewIssue, CreateIssue, Goto
  <2>2. Untouched(p)
    BY <1>0, <2>1 DEF Done
  <2>3. Bound(p)'
    BY <2>1, DoneBound
  <2> QED BY <2>2, <2>3, OnlyOne
<1>8. ASSUME NEW p \in Process, NEW k \in Key, FindNothing(p, k) PROVE Binding'
  <2>1. mem[p] \in Memory /\ Bound(p) /\ pc[p] = "looping" /\ pc'[p] = "creating" /\ k \in mem[p].todo
    BY <1>0, <1>8 DEF FindNothing, Goto
  <2>2. mem'[p] = [mem[p] EXCEPT !.todo = @ \ {k}, !.sel = {k}]
    BY <1>0, <1>8 DEF FindNothing
  <2>3. Untouched(p)
    BY <1>0, <1>8 DEF FindNothing, Goto
  <2>4. Bound(p)'
    BY <2>1, <2>2 DEF Bound, Memory
  <2> QED BY <2>3, <2>4, OnlyOne
<1>9. ASSUME NEW p \in Process, NEW k \in Key, CreateFails(p, k) PROVE Binding'
  BY <1>9, <1>S DEF CreateFails
<1>10. CASE Environment \/ UNCHANGED vars
  <2>1. UNCHANGED <<pc, mem>>
    BY <1>10 DEF Environment, EditFindings, EditDraft, CopyPlan, CloseIssue, Index, vars
  <2> QED BY <2>1 DEF Binding, Bound
<1> QED
  BY <1>1, <1>2, <1>3, <1>4, <1>5, <1>6, <1>7, <1>8, <1>9, <1>10 DEF Next, Planning, Verifying, Publishing

-----------------------------------------------------------------------------
(* Initially nobody runs. *)
LEMMA InitTyped == Init => TypeOK /\ Binding
<1> SUFFICES ASSUME Init PROVE TypeOK /\ Binding
  OBVIOUS
<1>1. Current \in Source /\ ledger \in Ledger /\ faults \in 0..MaxFaults
  BY PublicationAssumption DEF Init, Current, Source, Ledger, LedgerEntry, Nothing
<1>2. issues \in Seq(Issue) /\ Len(issues) <= MaxIssues
  BY PublicationAssumption DEF Init
<1>3. pc \in [Process -> Label] /\ mem \in [Process -> Memory \cup {Idle}]
  BY DEF Init, Label
<1> QED BY <1>1, <1>2, <1>3 DEF Init, TypeOK, Binding

(* Both parts of the invariant hold throughout. *)
THEOREM TypeAndBinding == Spec => [](TypeOK /\ Binding)
<1>1. Init => TypeOK /\ Binding
  BY InitTyped
<1>2. TypeOK /\ Binding /\ [Next]_vars => (TypeOK /\ Binding)'
  BY TypeStep, BindingStep
<1> QED BY <1>1, <1>2, PTL DEF Spec

(* Every reachable state is well typed, for any number of invocations, any *)
(* findings and drafts, and any disturbances.                              *)
THEOREM TypeCorrect == Spec => []TypeOK
BY TypeAndBinding, PTL

(* The issues change only by a creation, a closing or the index. *)
IssuesChange ==
  \/ UNCHANGED issues
  \/ \E i \in DOMAIN issues : CloseIssue(i) \/ Index(i)
  \/ \E p \in Process, k \in Key : /\ pc[p] = "creating" /\ mem[p].sel = {k}
                                   /\ issues' = Append(issues, NewIssue(p, k))

LEMMA IssueSteps == ASSUME [Next]_vars PROVE IssuesChange
<1>1. ASSUME NEW p \in Process, NEW k \in Key, CreateIssue(p, k) \/ CreateFails(p, k) PROVE IssuesChange
  BY <1>1 DEF CreateIssue, CreateFails, IssuesChange
<1>2. ASSUME NEW p \in Process, NEW k \in Key, SkipKnown(p, k) \/ SkipDuplicate(p, k)
             \/ FindNothing(p, k) \/ PreviewIssue(p, k) PROVE UNCHANGED issues
  BY <1>2 DEF SkipKnown, SkipDuplicate, FindNothing, PreviewIssue
<1>3. ASSUME NEW p \in Process, ReadLedger(p) \/ EndLoop(p) \/ ReloadLedger(p) \/ WriteLedger(p)
      PROVE UNCHANGED issues
  BY <1>3 DEF ReadLedger, EndLoop, ReloadLedger, WriteLedger
<1>4. ASSUME NEW p \in Process, Start(p) \/ Render(p) \/ Refuse(p) \/ Planning(p) \/ Verifying(p) \/ Crash(p)
      PROVE UNCHANGED issues
  BY <1>4 DEF Start, Load, Render, Refuse, Planning, WritePlan, RecordPlan, RecordFails, RewritePlan,
     Verifying, VerifyPlan, CheckFreshness, Crash
<1>5. CASE Environment
  BY <1>5 DEF Environment, EditFindings, EditDraft, CopyPlan, IssuesChange
<1>6. CASE UNCHANGED vars
  BY <1>6 DEF vars, IssuesChange
<1> QED BY <1>1, <1>2, <1>3, <1>4, <1>5, <1>6 DEF Next, Publishing, IssuesChange

(* An issue created from a plan says what the plan says, also when several *)
(* invocations overlap and plan, findings and drafts change meanwhile.     *)
THEOREM PlanIsBinding == Spec => []AppliedAsPlanned
<1>1. Init => AppliedAsPlanned
  BY DEF Init, AppliedAsPlanned
<1>2. ASSUME TypeOK, Binding, AppliedAsPlanned, [Next]_vars PROVE AppliedAsPlanned'
  <2>0. issues \in Seq(Issue)
    BY <1>2 DEF TypeOK
  <2>1. ASSUME NEW p \in Process, NEW k \in Key, pc[p] = "creating", mem[p].sel = {k},
               issues' = Append(issues, NewIssue(p, k))
        PROVE  AppliedAsPlanned'
    BY <1>2, <2>0, <2>1, NewIssueType DEF AppliedAsPlanned
  <2>2. CASE UNCHANGED issues
    BY <1>2, <2>2 DEF AppliedAsPlanned
  <2>3. CASE \E i \in DOMAIN issues : CloseIssue(i) \/ Index(i)
    <3>1. PICK i \in DOMAIN issues : CloseIssue(i) \/ Index(i)
      BY <2>3
    <3>2. issues[i] \in Issue
      BY <2>0
    <3>3. PICK new \in Issue : /\ issues' = [issues EXCEPT ![i] = new]
                               /\ new.body = issues[i].body /\ new.reviewed = issues[i].reviewed
      BY <3>1, <3>2 DEF CloseIssue, Index, Issue
    <3> QED BY <1>2, <2>0, <3>3 DEF AppliedAsPlanned
  <2>4. IssuesChange
    BY <1>2, IssueSteps
  <2> QED BY <2>1, <2>2, <2>3, <2>4 DEF IssuesChange
<1> QED BY <1>1, <1>2, TypeAndBinding, PTL DEF Spec

-----------------------------------------------------------------------------
(* What the ledger guarantees when only one gra-issues runs at a time: the  *)
(* invariant LedgerInv ties what the running invocation remembers to the    *)
(* ledger on disk and to the decisions it has written.                      *)

OneAtATime == \A p, q \in Process : p = q

(* Before the loop nothing is remembered; in it, and while the ledger is     *)
(* merged, what was read of the ledger is what it says.  An entry taken over *)
(* has a successor.  What is marked has its decision.                        *)
Faithful(p) ==
  LET m == mem[p]
      before == {"loaded", "planning", "recording", "rewriting", "verified", "ready"}
      loop == {"looping", "creating"}
  IN
    /\ pc[p] \in before => m.superseded = {} /\ DOMAIN m.over = {}
    /\ pc[p] \in loop \cup {"merging"} => m.seen = ledger
    /\ pc[p] \in loop => (m.todo \cup m.sel) \cap DOMAIN m.over = {}
    /\ pc[p] = "looping" => m.sel = {}
    /\ pc[p] = "creating" => \A k \in m.sel : ~Known(ledger, k) /\ decisions[k] = "new" /\ k \notin m.todo
    /\ DOMAIN m.over \subseteq m.found
    /\ \A k \in m.superseded : \E n \in DOMAIN m.over :
         n[1] = k[1] /\ ~Published(ledger, n) /\ m.over[n] = ledger[k]
    /\ \A k \in DOMAIN m.over : Published(m.over, k) =>
         /\ decisions[k] # "none"
         /\ m.over[k].status = "duplicate" => decisions[k] = "exact-duplicate"

LedgerInv == DecisionsAgree /\ \A p \in Process : pc[p] # "idle" => Faithful(p)
Inv == TypeOK /\ Binding /\ LedgerInv

(* A step that changes neither ledger nor decisions, and what else an *)
(* invocation remembers of the loop, keeps the invariant.             *)
LEMMA OneStep ==
  ASSUME Inv, OneAtATime, NEW p \in Process, DecisionsAgree', pc'[p] = "idle" \/ Faithful(p)'
  PROVE  LedgerInv'
  BY DEF LedgerInv, OneAtATime

LEMMA EndStep ==
  ASSUME Inv, OneAtATime, NEW p \in Process, Stop(p), UNCHANGED <<ledger, decisions>>
  PROVE  LedgerInv'
<1>1. pc'[p] = "idle"
  BY DEF Stop, Goto, Inv, TypeOK
<1>2. DecisionsAgree'
  BY DEF Inv, LedgerInv, DecisionsAgree, Published
<1> QED BY <1>1, <1>2, OneStep

(* One finding of the loop is done: its entry is remembered under a decision *)
(* that fits it, and the entry it takes over, if any, is that of the ledger. *)
LEMMA DoneStep ==
  ASSUME Inv, OneAtATime, NEW p \in Process, NEW k \in Key, NEW entry \in LedgerEntry, NEW gone \in SUBSET Key,
         NEW decision \in {"new", "exact-duplicate"},
         pc[p] \in {"looping", "creating"}, pc'[p] = "looping",
         Done(p, k, entry, gone), UNCHANGED ledger,
         k \in mem[p].todo \cup mem[p].sel,
         decisions' = [decisions EXCEPT ![k] = decision],
         Published(ledger, k) => decision = "exact-duplicate",
         entry.status = "duplicate" => decision = "exact-duplicate",
         \A m \in gone : m[1] = k[1] /\ ~Published(ledger, k) /\ entry = ledger[m]
  PROVE  LedgerInv'
<1>0. mem[p] \in Memory /\ Bound(p) /\ Faithful(p) /\ decisions \in [Key -> {"none", "new", "exact-duplicate"}]
  BY DEF Inv, TypeOK, Binding, LedgerInv
<1>1. DecisionsAgree'
  BY <1>0 DEF Inv, LedgerInv, DecisionsAgree, Published
<1> DEFINE m == mem[p]
           n == mem'[p]
<1>2. /\ n.todo = m.todo \ {k} /\ n.sel = {} /\ n.superseded = m.superseded \cup gone
      /\ n.over = [x \in DOMAIN m.over \cup {k} |-> IF x = k THEN entry ELSE m.over[x]]
      /\ n.found = m.found /\ n.seen = m.seen
  BY <1>0 DEF Done, Inv, TypeOK, Memory
<1>3. k \notin DOMAIN m.over /\ k \in m.found
  BY <1>0 DEF Faithful, Bound
<1>4. n.seen = ledger' /\ (n.todo \cup n.sel) \cap DOMAIN n.over = {} /\ DOMAIN n.over \subseteq n.found
  BY <1>0, <1>2, <1>3 DEF Faithful
<1>5. \A x \in n.superseded : \E y \in DOMAIN n.over :
         y[1] = x[1] /\ ~Published(ledger', y) /\ n.over[y] = ledger'[x]
  <2>1. ASSUME NEW x \in m.superseded
        PROVE  \E y \in DOMAIN n.over : y[1] = x[1] /\ ~Published(ledger', y) /\ n.over[y] = ledger'[x]
    <3>1. PICK y \in DOMAIN m.over : y[1] = x[1] /\ ~Published(ledger, y) /\ m.over[y] = ledger[x]
      BY <1>0 DEF Faithful
    <3> HIDE DEF m, n
    <3>2. y \in DOMAIN n.over /\ n.over[y] = m.over[y]
      BY <1>2, <1>3, <3>1
    <3>3. ledger' = ledger
      OBVIOUS
    <3>4. ~Published(ledger', y)
      BY <3>1, <3>3
    <3> QED BY <3>1, <3>2, <3>3, <3>4
  <2>2. ASSUME NEW x \in gone
        PROVE  \E y \in DOMAIN n.over : y[1] = x[1] /\ ~Published(ledger', y) /\ n.over[y] = ledger'[x]
    <3>1. k \in DOMAIN n.over /\ n.over[k] = entry
      BY <1>2
    <3>2. k[1] = x[1] /\ ~Published(ledger', k) /\ entry = ledger'[x]
      OBVIOUS
    <3> QED BY <3>1, <3>2
  <2> QED BY <1>2, <2>1, <2>2
<1>6. \A x \in DOMAIN n.over : Published(n.over, x) =>
        /\ decisions'[x] # "none"
        /\ n.over[x].status = "duplicate" => decisions'[x] = "exact-duplicate"
  <2>1. \A x \in DOMAIN n.over : x = k \/ (x \in DOMAIN m.over /\ n.over[x] = m.over[x] /\ decisions'[x] = decisions[x])
    BY <1>0, <1>2, <1>3, PartialFunction DEF Memory
  <2>2. n.over[k] = entry /\ decisions'[k] = decision
    BY <1>0, <1>2
  <2> QED BY <1>0, <2>1, <2>2 DEF Faithful, Published
<1>7. Faithful(p)'
  BY <1>2, <1>4, <1>5, <1>6 DEF Faithful
<1> QED BY <1>1, <1>7, OneStep

(* Every step of a single invocation keeps the invariant. *)
THEOREM LedgerStep ==
  ASSUME Inv, OneAtATime, [Next]_vars
  PROVE  LedgerInv'
<1>0. /\ pc \in [Process -> Label] /\ mem \in [Process -> Memory \cup {Idle}]
      /\ \A p \in Process : pc[p] # "idle" => mem[p] \in Memory /\ Bound(p) /\ Faithful(p)
      /\ decisions \in [Key -> {"none", "new", "exact-duplicate"}] /\ ledger \in [Key -> LedgerEntry]
  BY DEF Inv, TypeOK, Binding, LedgerInv, Ledger
<1>D. ASSUME UNCHANGED <<ledger, decisions>> PROVE DecisionsAgree'
  BY <1>D DEF Inv, LedgerInv, DecisionsAgree, Published
<1>1. ASSUME NEW p \in Process, Start(p) PROVE LedgerInv'
  <2>1. /\ pc'[p] = "loaded" /\ mem'[p].superseded = {} /\ mem'[p].over = NoEntries
        /\ UNCHANGED <<ledger, decisions>>
    BY <1>0, <1>1 DEF Start, Load, Goto
  <2>2. DOMAIN NoEntries = {}
    BY DEF NoEntries
  <2>3. Faithful(p)'
    BY <2>1, <2>2 DEF Faithful
  <2> QED BY <1>D, <2>1, <2>3, OneStep
<1>2. ASSUME NEW p \in Process,
             Render(p) \/ WritePlan(p) \/ RecordPlan(p) \/ RewritePlan(p) \/ CheckFreshness(p)
               \/ VerifyPlan(p, plan) \/ VerifyPlan(p, copy)
      PROVE  LedgerInv'
  <2>1. /\ mem[p] \in Memory /\ Faithful(p)
        /\ pc[p] \in {"loaded", "planning", "recording", "rewriting", "verified"}
        /\ pc'[p] \in {"planning", "recording", "rewriting", "verified", "ready", "saving"}
        /\ UNCHANGED <<ledger, decisions>>
    BY <1>0, <1>2 DEF Render, WritePlan, RecordPlan, RewritePlan, CheckFreshness, VerifyPlan, Goto
  <2>2. /\ mem'[p].superseded = mem[p].superseded /\ mem'[p].over = mem[p].over
        /\ mem'[p].found = mem[p].found
    BY <1>0, <1>2, <2>1 DEF Render, WritePlan, RecordPlan, RewritePlan, CheckFreshness, VerifyPlan, Memory
  <2>3. Faithful(p)'
    BY <2>1, <2>2 DEF Faithful
  <2> QED BY <1>D, <2>1, <2>3, OneStep
<1>3. ASSUME NEW p \in Process, Refuse(p) \/ RecordFails(p) \/ Crash(p) \/ \E k \in Key : CreateFails(p, k)
      PROVE  LedgerInv'
  BY <1>3, EndStep DEF Refuse, RecordFails, Crash, CreateFails
<1>4. ASSUME NEW p \in Process, ReadLedger(p) PROVE LedgerInv'
  <2>1. /\ mem[p] \in Memory /\ Faithful(p) /\ pc[p] = "ready" /\ pc'[p] = "looping"
        /\ UNCHANGED <<ledger, decisions>>
    BY <1>0, <1>4 DEF ReadLedger, Goto
  <2>2. mem'[p] = [mem[p] EXCEPT !.seen = ledger, !.todo = mem[p].sel, !.sel = {}]
    BY <1>0, <1>4 DEF ReadLedger
  <2>3. Faithful(p)'
    BY <2>1, <2>2 DEF Faithful, Memory
  <2> QED BY <1>D, <2>1, <2>3, OneStep
<1>5. ASSUME NEW p \in Process, EndLoop(p) \/ ReloadLedger(p) PROVE LedgerInv'
  <2>1. /\ mem[p] \in Memory /\ Faithful(p) /\ pc[p] \in {"looping", "saving"}
        /\ pc'[p] = "saving" \/ (pc'[p] = "merging" /\ mem'[p].seen = ledger')
        /\ UNCHANGED <<ledger, decisions>>
    <3>1. mem[p] \in Memory /\ Faithful(p)
      BY <1>0, <1>5 DEF EndLoop, ReloadLedger
    <3>2. CASE EndLoop(p)
      BY <1>0, <3>1, <3>2 DEF EndLoop, Goto
    <3>3. CASE ReloadLedger(p)
      <4>1. mem'[p] = [mem[p] EXCEPT !.seen = ledger]
        BY <1>0, <3>3 DEF ReloadLedger
      <4>2. mem'[p].seen = ledger
        BY <3>1, <4>1 DEF Memory
      <4> QED BY <1>0, <3>1, <3>3, <4>2 DEF ReloadLedger, Goto
    <3> QED BY <1>5, <3>2, <3>3
  <2>2. /\ mem'[p].superseded = mem[p].superseded /\ mem'[p].over = mem[p].over
        /\ mem'[p].found = mem[p].found
    BY <1>0, <1>5, <2>1 DEF EndLoop, ReloadLedger, Memory
  <2>3. Faithful(p)'
    BY <2>1, <2>2 DEF Faithful
  <2> QED BY <1>D, <2>1, <2>3, OneStep
<1>6. ASSUME NEW p \in Process, NEW k \in Key, SkipKnown(p, k) PROVE LedgerInv'
  <2>1. mem[p] \in Memory /\ Faithful(p) /\ pc[p] = "looping" /\ pc'[p] = "looping" /\ mem[p].seen = ledger
    BY <1>0, <1>6 DEF SkipKnown, Faithful
  <2>2. PICK m \in Key : Covers(ledger, m, k) /\ Done(p, k, ledger[m], {m} \ {k})
    BY <1>6, <2>1 DEF SkipKnown
  <2> DEFINE entry == ledger[m]
             gone == {m} \ {k}
  <2>3. entry \in LedgerEntry /\ gone \in SUBSET Key
    BY <1>0
  <2>4. \A x \in gone : x[1] = k[1] /\ ~Published(ledger, k) /\ entry = ledger[x]
    BY <2>2 DEF Covers, PublishedOf
  <2>5. Done(p, k, entry, gone) /\ k \in mem[p].todo \cup mem[p].sel
        /\ UNCHANGED ledger /\ decisions' = [decisions EXCEPT ![k] = "exact-duplicate"]
    BY <1>6, <2>2 DEF SkipKnown, Decide
  <2> HIDE DEF entry, gone
  <2> QED BY <2>1, <2>3, <2>4, <2>5, DoneStep
<1>7. ASSUME NEW p \in Process, NEW k \in Key, SkipDuplicate(p, k) PROVE LedgerInv'
  <2>1. pc[p] = "looping" /\ pc'[p] = "looping" /\ UNCHANGED ledger
        /\ k \in mem[p].todo \cup mem[p].sel /\ decisions' = [decisions EXCEPT ![k] = "exact-duplicate"]
    BY <1>0, <1>7 DEF SkipDuplicate, Decide
  <2>2. PICK i \in OpenWith(k[2]) : Done(p, k, [status |-> "duplicate", url |-> i], {})
    BY <1>7 DEF SkipDuplicate
  <2> DEFINE entry == [status |-> "duplicate", url |-> i]
  <2>3. entry \in LedgerEntry
    BY <2>2, PublicationAssumption DEF OpenWith, LedgerEntry, Inv, TypeOK
  <2>4. Done(p, k, entry, {}) /\ {} \in SUBSET Key
    BY <2>2
  <2> HIDE DEF entry
  <2> QED BY <2>1, <2>3, <2>4, DoneStep
<1>8. ASSUME NEW p \in Process, NEW k \in Key, PreviewIssue(p, k) PROVE LedgerInv'
  <2>1. /\ mem[p] \in Memory /\ Faithful(p) /\ pc[p] = "looping" /\ pc'[p] = "looping" /\ UNCHANGED ledger
        /\ k \in mem[p].todo \cup mem[p].sel /\ decisions' = [decisions EXCEPT ![k] = "new"]
        /\ Done(p, k, Unpublished, {}) /\ ~Known(mem[p].seen, k)
    BY <1>0, <1>8 DEF PreviewIssue, Decide
  <2>2. ~Published(ledger, k)
    BY <2>1 DEF Faithful, Known, Covers
  <2>3. Unpublished \in LedgerEntry /\ Unpublished.status = "none" /\ {} \in SUBSET Key
    BY DEF Unpublished, LedgerEntry
  <2> QED BY <2>1, <2>2, <2>3, DoneStep
<1>9. ASSUME NEW p \in Process, NEW k \in Key, CreateIssue(p, k) PROVE LedgerInv'
  <2>1. /\ mem[p] \in Memory /\ Faithful(p) /\ pc[p] = "creating" /\ pc'[p] = "looping"
        /\ UNCHANGED <<ledger, decisions>> /\ mem[p].sel = {k} /\ Len(issues) < MaxIssues
        /\ Done(p, k, [status |-> "published", url |-> Len(issues) + 1], {})
    BY <1>0, <1>9 DEF CreateIssue, Goto
  <2>2. ~Published(ledger, k) /\ decisions[k] = "new"
    BY <2>1 DEF Faithful, Known, Covers
  <2>3. decisions' = [decisions EXCEPT ![k] = "new"] /\ k \in mem[p].todo \cup mem[p].sel /\ UNCHANGED ledger
    BY <1>0, <2>1, <2>2
  <2> DEFINE entry == [status |-> "published", url |-> Len(issues) + 1]
  <2>4. entry \in LedgerEntry /\ entry.status = "published"
    BY <2>1, PublicationAssumption DEF LedgerEntry, Inv, TypeOK
  <2>5. Done(p, k, entry, {}) /\ {} \in SUBSET Key
    BY <2>1
  <2>6. entry.status # "duplicate"
    BY <2>4
  <2> HIDE DEF entry
  <2>7. /\ pc[p] = "creating" /\ pc'[p] = "looping" /\ UNCHANGED ledger
        /\ decisions' = [decisions EXCEPT ![k] = "new"] /\ k \in mem[p].todo \cup mem[p].sel
    BY <2>1, <2>3
  <2> QED BY <2>2, <2>4, <2>5, <2>6, <2>7, DoneStep
<1>10. ASSUME NEW p \in Process, NEW k \in Key, FindNothing(p, k) PROVE LedgerInv'
  <2>1. /\ mem[p] \in Memory /\ Faithful(p) /\ pc[p] = "looping" /\ pc'[p] = "creating" /\ UNCHANGED ledger
        /\ k \in mem[p].todo /\ decisions' = [decisions EXCEPT ![k] = "new"] /\ ~Known(mem[p].seen, k)
    BY <1>0, <1>10 DEF FindNothing, Goto, Decide
  <2>2. mem'[p] = [mem[p] EXCEPT !.todo = @ \ {k}, !.sel = {k}]
    BY <1>0, <1>10 DEF FindNothing
  <2>3. ~Known(ledger, k) /\ ~Published(ledger, k)
    BY <2>1 DEF Faithful, Known, Covers
  <2>4. DecisionsAgree'
    BY <1>0, <2>1, <2>3 DEF Inv, LedgerInv, DecisionsAgree, Published
  <2>5. \A x \in Key : x # k => decisions'[x] = decisions[x]
    BY <1>0, <2>1
  <2>6. k \notin DOMAIN mem[p].over /\ DOMAIN mem[p].over \subseteq Key
    BY <2>1, PartialFunction DEF Faithful, Memory
  <2>7. /\ mem'[p].over = mem[p].over /\ mem'[p].superseded = mem[p].superseded
        /\ mem'[p].found = mem[p].found /\ mem'[p].seen = mem[p].seen
        /\ mem'[p].todo = mem[p].todo \ {k} /\ mem'[p].sel = {k} /\ decisions'[k] = "new"
    BY <1>0, <2>1, <2>2 DEF Memory
  <2>8. Faithful(p)'
    BY <2>1, <2>3, <2>5, <2>6, <2>7 DEF Faithful
  <2> QED BY <2>4, <2>8, OneStep
<1>11. ASSUME NEW p \in Process, WriteLedger(p) PROVE LedgerInv'
  <2>1. /\ mem[p] \in Memory /\ Faithful(p) /\ mem[p].seen = ledger /\ pc'[p] = "idle"
        /\ ledger' = Merge(ledger, mem[p]) /\ UNCHANGED decisions
    BY <1>0, <1>11 DEF WriteLedger, Stop, Goto, Faithful
  <2>2. ASSUME NEW k \in Key PROVE \/ ledger'[k] \in {ledger[k], Unpublished}
                                   \/ k \in DOMAIN mem[p].over /\ ledger'[k] = mem[p].over[k]
    BY <2>1 DEF Merge
  <2>3. Unpublished.status = "none"
    BY DEF Unpublished
  <2>4. DecisionsAgree'
    BY <2>1, <2>2, <2>3 DEF Faithful, Inv, LedgerInv, DecisionsAgree, Published
  <2> QED BY <2>1, <2>4, OneStep
<1>12. CASE Environment \/ UNCHANGED vars
  <2>1. UNCHANGED <<pc, mem, ledger, decisions>>
    BY <1>12 DEF Environment, EditFindings, EditDraft, CopyPlan, CloseIssue, Index, vars
  <2> QED BY <1>D, <2>1 DEF Inv, LedgerInv, Faithful
<1> QED
  BY <1>1, <1>2, <1>3, <1>4, <1>5, <1>6, <1>7, <1>8, <1>9, <1>10, <1>11, <1>12
  DEF Next, Planning, Verifying, Publishing

(* The invariant of a single invocation. *)
THEOREM LedgerInvariance == ASSUME OneAtATime PROVE Spec => []Inv
<1>1. Init => Inv
  <2>1. Init => LedgerInv
    BY DEF Init, LedgerInv, DecisionsAgree, Published, Nothing, Unpublished
  <2> QED BY <2>1, InitTyped DEF Inv
<1>2. Inv /\ [Next]_vars => Inv'
  BY TypeStep, BindingStep, LedgerStep DEF Inv
<1> QED BY <1>1, <1>2, PTL DEF Spec

(* Decision records and ledger agree whatever ran before, one at a time. *)
THEOREM DecisionsFit == ASSUME OneAtATime PROVE Spec => []DecisionsAgree
<1>1. Inv => DecisionsAgree
  BY DEF Inv, LedgerInv
<1> QED BY <1>1, LedgerInvariance, PTL

(* No issue is created for a finding the ledger has, one at a time. *)
THEOREM NoReissue == ASSUME OneAtATime PROVE Spec => LedgerPreventsReissue
<1>1. Inv /\ [Next]_vars => \A k \in Key : Creates(k) => ~Known(ledger, k)
  <2> SUFFICES ASSUME Inv, [Next]_vars, NEW k \in Key, Creates(k) PROVE ~Known(ledger, k)
    OBVIOUS
  <2>0. issues \in Seq(Issue)
    BY DEF Inv, TypeOK
  <2>1. CASE UNCHANGED issues
    BY <2>0, <2>1 DEF Creates
  <2>2. CASE \E i \in DOMAIN issues : CloseIssue(i) \/ Index(i)
    BY <2>0, <2>2 DEF Creates, CloseIssue, Index
  <2>3. CASE \E p \in Process, x \in Key : /\ pc[p] = "creating" /\ mem[p].sel = {x}
                                          /\ issues' = Append(issues, NewIssue(p, x))
    <3>1. PICK p \in Process, x \in Key : /\ pc[p] = "creating" /\ mem[p].sel = {x}
                                         /\ issues' = Append(issues, NewIssue(p, x))
      BY <2>3
    <3>2. issues'[Len(issues')] = NewIssue(p, x)
      BY <2>0, <3>1
    <3>3. NewIssue(p, x).key = x
      BY DEF NewIssue
    <3>4. x = k
      BY <3>2, <3>3 DEF Creates
    <3> QED BY <3>1, <3>4 DEF Inv, LedgerInv, Faithful
  <2> QED BY <2>1, <2>2, <2>3, IssueSteps DEF IssuesChange
<1> QED BY <1>1, LedgerInvariance, PTL DEF LedgerPreventsReissue, Spec

(* Only writing the ledger changes it. *)
LEMMA LedgerSteps == ASSUME [Next]_vars PROVE UNCHANGED ledger \/ \E p \in Process : WriteLedger(p)
<1>1. ASSUME NEW p \in Process, NEW k \in Key, SkipKnown(p, k) \/ SkipDuplicate(p, k) \/ FindNothing(p, k)
             \/ PreviewIssue(p, k) \/ CreateIssue(p, k) \/ CreateFails(p, k)
      PROVE  UNCHANGED ledger
  BY <1>1 DEF SkipKnown, SkipDuplicate, FindNothing, PreviewIssue, CreateIssue, CreateFails
<1>2. ASSUME NEW p \in Process, ReadLedger(p) \/ EndLoop(p) \/ ReloadLedger(p) \/ Start(p) \/ Render(p)
             \/ Refuse(p) \/ Planning(p) \/ Verifying(p) \/ Crash(p)
      PROVE  UNCHANGED ledger
  BY <1>2 DEF ReadLedger, EndLoop, ReloadLedger, Start, Load, Render, Refuse, Planning, WritePlan,
     RecordPlan, RecordFails, RewritePlan, Verifying, VerifyPlan, CheckFreshness, Crash
<1>3. CASE Environment \/ UNCHANGED vars
  BY <1>3 DEF Environment, EditFindings, EditDraft, CopyPlan, CloseIssue, Index, vars
<1> QED BY <1>1, <1>2, <1>3 DEF Next, Publishing

(* The URL of a published finding is never lost, one at a time. *)
THEOREM UrlsAreKept == ASSUME OneAtATime PROVE Spec => PublishedIsKept
<1> DEFINE Kept(k) == \E m \in Key : m[1] = k[1] /\ Published(ledger', m) /\ ledger'[m].url = ledger[k].url
<1>1. Inv /\ [Next]_vars => \A k \in Key : Published(ledger, k) => Kept(k)
  <2> SUFFICES ASSUME Inv, [Next]_vars, NEW k \in Key, Published(ledger, k) PROVE Kept(k)
    OBVIOUS
  <2>1. CASE UNCHANGED ledger
    BY <2>1
  <2>2. ASSUME NEW p \in Process, WriteLedger(p) PROVE Kept(k)
    <3>1. /\ mem[p] \in Memory /\ Faithful(p) /\ mem[p].seen = ledger
          /\ ledger' = Merge(ledger, mem[p])
      BY <2>2 DEF WriteLedger, Inv, TypeOK, LedgerInv, Faithful
    <3>2. CASE k \in mem[p].found \/ k \notin mem[p].superseded
      BY <3>1, <3>2 DEF Merge, Published
    <3>3. CASE k \notin mem[p].found /\ k \in mem[p].superseded
      <4>1. PICK n \in DOMAIN mem[p].over : n[1] = k[1] /\ ~Published(ledger, n) /\ mem[p].over[n] = ledger[k]
        BY <3>1, <3>3 DEF Faithful
      <4>2. n \in mem[p].found /\ n \in Key
        BY <3>1, <4>1 DEF Faithful, Memory
      <4>3. ledger'[n] = ledger[k]
        BY <3>1, <4>1, <4>2 DEF Merge
      <4> QED BY <4>1, <4>2, <4>3 DEF Published
    <3> QED BY <3>2, <3>3
  <2>3. UNCHANGED ledger \/ \E p \in Process : WriteLedger(p)
    BY LedgerSteps
  <2> QED BY <2>1, <2>2, <2>3
<1>2. Inv /\ [Next]_vars =>
        (\A k \in Key : Published(ledger, k) =>
           \E m \in Key : /\ m[1] = k[1]
                          /\ Published(ledger', m)
                          /\ ledger'[m].url = ledger[k].url)
  BY <1>1
<1> QED BY <1>2, LedgerInvariance, PTL DEF PublishedIsKept, Spec

-----------------------------------------------------------------------------
(* One finding, one open issue: what the search has shown an invocation still *)
(* holds when it creates its issue, if no other creates any in between and no *)
(* draft carries a marker of its own.                                         *)

NothingIsCarried == \A b \in Body : Carried[b] = NoMarker

(* Who is about to create an issue has found none, or overlooked one. *)
Searched(p) ==
  pc[p] = "creating" => \A k \in mem[p].sel : OpenWith(k[2]) = {} \/ k[2] \in missed

SearchInv == OneOpenIssue /\ \A p \in Process : Searched(p)

(* Nothing takes an overlooked fingerprint back. *)
LEMMA MissedGrows == ASSUME [Next]_vars PROVE missed \subseteq missed'
<1>1. ASSUME NEW p \in Process, NEW k \in Key, SkipKnown(p, k) \/ SkipDuplicate(p, k) \/ FindNothing(p, k)
             \/ PreviewIssue(p, k) \/ CreateIssue(p, k) \/ CreateFails(p, k)
      PROVE  missed \subseteq missed'
  BY <1>1 DEF SkipKnown, SkipDuplicate, FindNothing, PreviewIssue, CreateIssue, CreateFails
<1>2. ASSUME NEW p \in Process, ReadLedger(p) \/ EndLoop(p) \/ ReloadLedger(p) \/ WriteLedger(p)
             \/ Start(p) \/ Render(p) \/ Refuse(p) \/ Planning(p) \/ Verifying(p) \/ Crash(p)
      PROVE  missed \subseteq missed'
  BY <1>2 DEF ReadLedger, EndLoop, ReloadLedger, WriteLedger, Start, Load, Render, Refuse, Planning,
     WritePlan, RecordPlan, RecordFails, RewritePlan, Verifying, VerifyPlan, CheckFreshness, Crash
<1>3. CASE Environment \/ UNCHANGED vars
  BY <1>3 DEF Environment, EditFindings, EditDraft, CopyPlan, CloseIssue, Index, vars
<1> QED BY <1>1, <1>2, <1>3 DEF Next, Publishing

(* Closing and indexing issues opens none. *)
LEMMA ClosedOrIndexed ==
  ASSUME TypeOK, \E i \in DOMAIN issues : CloseIssue(i) \/ Index(i)
  PROVE  /\ DOMAIN issues' = DOMAIN issues
         /\ \A i \in DOMAIN issues : /\ issues'[i].open => issues[i].open
                                     /\ Marker(issues'[i].key, issues'[i].body)
                                          = Marker(issues[i].key, issues[i].body)
         /\ \A fp : OpenWith(fp)' \subseteq OpenWith(fp)
<1>0. issues \in Seq(Issue)
  BY DEF TypeOK
<1>1. PICK i \in DOMAIN issues : CloseIssue(i) \/ Index(i)
  OBVIOUS
<1>2. issues[i] \in Issue
  BY <1>0
<1>3. /\ DOMAIN issues' = DOMAIN issues
      /\ \A j \in DOMAIN issues : j # i => issues'[j] = issues[j]
  BY <1>0, <1>1 DEF CloseIssue, Index
<1>4. /\ issues'[i].open => issues[i].open
      /\ issues'[i].key = issues[i].key /\ issues'[i].body = issues[i].body
  <2>1. CASE CloseIssue(i)
    <3>1. issues'[i] = [issues[i] EXCEPT !.open = FALSE]
      BY <1>0, <2>1 DEF CloseIssue
    <3> QED BY <3>1, <1>2 DEF Issue
  <2>2. CASE Index(i)
    <3>1. issues'[i] = [issues[i] EXCEPT !.indexed = TRUE]
      BY <1>0, <2>2 DEF Index
    <3> QED BY <3>1, <1>2 DEF Issue
  <2> QED BY <1>1, <2>1, <2>2
<1>5. ASSUME NEW j \in DOMAIN issues
      PROVE  /\ issues'[j].open => issues[j].open
             /\ issues'[j].key = issues[j].key /\ issues'[j].body = issues[j].body
  <2>1. CASE j = i
    BY <2>1, <1>4
  <2>2. CASE j # i
    <3>1. issues'[j] = issues[j]
      BY <2>2, <1>3
    <3> QED BY <3>1
  <2> QED BY <2>1, <2>2
<1> QED BY <1>3, <1>5 DEF OpenWith, Marker

(* Who is about to create an issue has just searched, or waits. *)
LEMMA CreatingSteps ==
  ASSUME TypeOK, OneAtATime, [Next]_vars, NEW p \in Process, pc'[p] = "creating"
  PROVE  \/ \E k \in Key : FindNothing(p, k)
         \/ /\ UNCHANGED <<pc, mem>>
            /\ UNCHANGED issues \/ \E i \in DOMAIN issues : CloseIssue(i) \/ Index(i)
<1>0. pc \in [Process -> Label]
  BY DEF TypeOK
<1>1. ASSUME NEW k \in Key, SkipKnown(p, k) \/ SkipDuplicate(p, k)
             \/ PreviewIssue(p, k) \/ CreateIssue(p, k) \/ CreateFails(p, k)
      PROVE  FALSE
  BY <1>0, <1>1 DEF SkipKnown, SkipDuplicate, PreviewIssue, CreateIssue, CreateFails, Goto, Stop
<1>2. ASSUME ReadLedger(p) \/ EndLoop(p) \/ ReloadLedger(p) \/ WriteLedger(p)
             \/ Start(p) \/ Render(p) \/ Refuse(p) \/ Planning(p) \/ Verifying(p) \/ Crash(p)
      PROVE  FALSE
  BY <1>0, <1>2 DEF ReadLedger, EndLoop, ReloadLedger, WriteLedger, Start, Load, Render, Refuse,
     Planning, WritePlan, RecordPlan, RecordFails, RewritePlan, Verifying, VerifyPlan,
     CheckFreshness, Crash, Goto, Stop
<1>3. CASE Environment \/ UNCHANGED vars
  BY <1>3 DEF Environment, EditFindings, EditDraft, CopyPlan, CloseIssue, Index, vars
<1> QED BY <1>1, <1>2, <1>3 DEF Next, Publishing, OneAtATime

LEMMA SearchStep ==
  ASSUME TypeOK, Binding, OneAtATime, NothingIsCarried, SearchInv, [Next]_vars
  PROVE  SearchInv'
<1>0. issues \in Seq(Issue) /\ missed \subseteq missed'
  BY MissedGrows DEF TypeOK
<1>1. ASSUME NEW p \in Process PROVE Searched(p)'
  <2>1. CASE pc'[p] # "creating"
    BY <2>1 DEF Searched
  <2>2. ASSUME NEW k \in Key, FindNothing(p, k) PROVE Searched(p)'
    <3>1. mem'[p].sel = {k} /\ issues' = issues
      BY <2>2 DEF FindNothing, TypeOK, Memory
    <3>2. OpenWith(k[2]) = {} \/ k[2] \in missed'
      BY <2>2 DEF FindNothing
    <3> QED BY <3>1, <3>2 DEF Searched, OpenWith
  <2>3. ASSUME UNCHANGED <<pc, mem>>, UNCHANGED issues \/ \E i \in DOMAIN issues : CloseIssue(i) \/ Index(i)
        PROVE  Searched(p)'
    <3>1. \A fp : OpenWith(fp)' \subseteq OpenWith(fp)
      BY <2>3, ClosedOrIndexed DEF OpenWith
    <3> QED BY <1>0, <2>3, <3>1 DEF SearchInv, Searched
  <2> QED BY <2>1, <2>2, <2>3, CreatingSteps
<1>2. OneOpenIssue'
  <2>1. CASE UNCHANGED issues
    BY <1>0, <2>1 DEF SearchInv, OneOpenIssue, OpenWith
  <2>2. CASE \E i \in DOMAIN issues : CloseIssue(i) \/ Index(i)
    <3>1. /\ DOMAIN issues' = DOMAIN issues
          /\ \A i \in DOMAIN issues : Marker(issues'[i].key, issues'[i].body)
                                        = Marker(issues[i].key, issues[i].body)
          /\ \A fp : OpenWith(fp)' \subseteq OpenWith(fp)
      BY <2>2, ClosedOrIndexed
    <3> QED BY <1>0, <3>1 DEF SearchInv, OneOpenIssue
  <2>3. ASSUME NEW p \in Process, NEW k \in Key, pc[p] = "creating", mem[p].sel = {k},
               issues' = Append(issues, NewIssue(p, k))
        PROVE  OneOpenIssue'
    <3>1. PICK new \in Issue : new = NewIssue(p, k) /\ issues' = Append(issues, new)
      BY <2>3, NewIssueType
    <3>2. Marker(new.key, new.body) = k[2]
      BY <3>1 DEF NothingIsCarried, Marker, NewIssue, Issue
    <3>3. OpenWith(k[2]) = {} \/ k[2] \in missed
      BY <2>3 DEF SearchInv, Searched
    <3>4. /\ DOMAIN issues' = DOMAIN issues \cup {Len(issues) + 1} /\ Len(issues) + 1 \notin DOMAIN issues
          /\ issues'[Len(issues) + 1] = new /\ \A i \in DOMAIN issues : issues'[i] = issues[i]
      BY <1>0, <3>1
    <3> SUFFICES ASSUME NEW i \in DOMAIN issues', NEW j \in DOMAIN issues', i # j,
                        issues'[i].open, issues'[j].open, NEW fp,
                        Marker(issues'[i].key, issues'[i].body) = fp,
                        Marker(issues'[j].key, issues'[j].body) = fp
                 PROVE  fp \in missed
      BY <1>0 DEF OneOpenIssue, OpenWith
    <3> DEFINE n == Len(issues) + 1
    <3> HIDE DEF n
    <3>5. CASE i # n /\ j # n
      BY <3>4, <3>5 DEF SearchInv, OneOpenIssue, OpenWith, n
    <3>6. CASE i = n \/ j = n
      <4>1. fp = k[2] /\ \E h \in DOMAIN issues : issues[h].open /\ Marker(issues[h].key, issues[h].body) = fp
        BY <3>2, <3>4, <3>6 DEF n
      <4> QED BY <3>3, <4>1 DEF OpenWith
    <3> QED BY <3>5, <3>6
  <2> QED BY <2>1, <2>2, <2>3, IssueSteps DEF IssuesChange
<1> QED BY <1>1, <1>2 DEF SearchInv

(* Two open issues carry one fingerprint only if a search overlooked the first: no crash, *)
(* failed creation or edit makes a second one, one invocation at a time and from drafts    *)
(* that carry no marker.                                                                   *)
THEOREM SecondIssueWasOverlooked ==
  ASSUME OneAtATime, NothingIsCarried PROVE Spec => []OneOpenIssue
<1>1. Init => SearchInv
  BY DEF Init, SearchInv, OneOpenIssue, Searched
<1>2. TypeOK /\ Binding /\ SearchInv /\ [Next]_vars => SearchInv'
  BY SearchStep
<1>3. SearchInv => OneOpenIssue
  BY DEF SearchInv
<1> QED BY <1>1, <1>2, <1>3, TypeAndBinding, PTL DEF Spec
=============================================================================
