---------------------------- MODULE EvidenceProofs ----------------------------
(***************************************************************************)
(* Whatever the agents vote and draft, and wherever the commands are        *)
(* killed, gra-validate-report accepts what the evidence commands write.    *)
(***************************************************************************)
EXTENDS Evidence, FiniteSetTheorems, SequenceTheorems, WellFoundedInduction, TLAPS

(* The passes of a command are counted in the naturals, and so are votes.     *)
Cast(votes, d) == {i \in DOMAIN votes : votes[i] = d}

LEMMA CastFacts ==
  ASSUME NEW votes \in Seq(Decisions), NEW d
  PROVE  /\ Cast(votes, d) \subseteq 1 .. Len(votes)
         /\ IsFiniteSet(Cast(votes, d)) /\ Count(votes, d) \in Nat
         /\ Count(votes, d) = Cardinality(Cast(votes, d))
<1>1. Cast(votes, d) \subseteq 1 .. Len(votes)
  BY DEF Cast
<1>2. IsFiniteSet(1 .. Len(votes))
  BY FS_Interval
<1>3. IsFiniteSet(Cast(votes, d))
  BY <1>1, <1>2, FS_Subset
<1>4. Count(votes, d) = Cardinality(Cast(votes, d))
  BY DEF Count, Cast
<1> QED BY <1>1, <1>3, <1>4, FS_CardinalityType

(* Two decisions share no vote, so they do not both have more than half of them. *)
LEMMA VotesAreDisjoint ==
  ASSUME NEW votes \in Seq(Decisions), NEW d, NEW e, d # e
  PROVE  Count(votes, d) + Count(votes, e) <= Len(votes)
<1> DEFINE S == Cast(votes, d)
           T == Cast(votes, e)
<1>1. S \cap T = {}
  BY DEF Cast
<1>2. Cardinality(S \cap T) = 0
  BY <1>1, FS_EmptySet
<1>3. IsFiniteSet(S) /\ IsFiniteSet(T) /\ S \cup T \subseteq 1 .. Len(votes)
  BY CastFacts
<1>4. Cardinality(S \cup T) = Cardinality(S) + Cardinality(T) - Cardinality(S \cap T)
  BY <1>3, FS_Union
<1>5. Cardinality(S \cup T) <= Cardinality(1 .. Len(votes)) /\ Cardinality(1 .. Len(votes)) = Len(votes)
  <2> DEFINE n == Len(votes)
  <2>1. n \in Nat
    OBVIOUS
  <2> HIDE DEF n
  <2>2. IsFiniteSet(1 .. n) /\ Cardinality(1 .. n) = n
    <3>1. Cardinality(1 .. n) = IF 1 > n THEN 0 ELSE n - 1 + 1
      BY <2>1, FS_Interval
    <3> QED BY <2>1, <3>1, FS_Interval
  <2>3. S \cup T \subseteq 1 .. n
    BY <1>3 DEF n
  <2>4. Cardinality(S \cup T) <= Cardinality(1 .. n)
    BY <2>2, <2>3, FS_Subset
  <2> QED BY <2>2, <2>4 DEF n
<1>6. Count(votes, d) = Cardinality(S) /\ Count(votes, e) = Cardinality(T)
  BY CastFacts
<1>7. Count(votes, d) \in Nat /\ Count(votes, e) \in Nat
  BY CastFacts
<1> HIDE DEF S, T
<1> QED BY <1>2, <1>4, <1>5, <1>6, <1>7

LEMMA MajorityLeads ==
  ASSUME NEW votes \in Seq(Decisions), NEW d \in Decisions, 2 * Count(votes, d) > Len(votes)
  PROVE  Leading(votes) = d /\ Winner(votes) = d
<1>1. \A e \in Decisions \ {d} :
        Count(votes, e) < Count(votes, d) /\ Count(votes, e) \in Nat /\ Count(votes, d) \in Nat
  <2> TAKE e \in Decisions \ {d}
  <2>1. Count(votes, d) + Count(votes, e) <= Len(votes)
    BY VotesAreDisjoint
  <2>2. Count(votes, d) \in Nat /\ Count(votes, e) \in Nat /\ Len(votes) \in Nat
    BY CastFacts
  <2> QED BY <2>1, <2>2
<1>2. Leading(votes) = d
  <2> DEFINE Leads(x) == \A e \in Decisions \ {x} :
               \/ Count(votes, e) < Count(votes, x)
               \/ Count(votes, e) = Count(votes, x) /\ VotedBefore(votes, x, e)
  <2>1. Leads(d)
    BY <1>1
  <2>2. \A x \in Decisions : Leads(x) => x = d
    BY <1>1
  <2>3. Leading(votes) = CHOOSE x \in Decisions : Leads(x)
    BY DEF Leading
  <2> HIDE DEF Leads
  <2> QED BY <2>1, <2>2, <2>3
<1>3. Winner(votes) = d
  <2> DEFINE Wins(x) == \A e \in Decisions : Count(votes, e) <= Count(votes, x)
  <2>1. Wins(d)
    BY <1>1, CastFacts
  <2>2. \A x \in Decisions : Wins(x) => x = d
    BY <1>1
  <2>3. Winner(votes) = CHOOSE x \in Decisions : Wins(x)
    BY DEF Winner
  <2> HIDE DEF Wins
  <2> QED BY <2>1, <2>2, <2>3
<1> QED BY <1>2, <1>3

LEMMA OnlyDecisionsAreCounted ==
  ASSUME NEW votes \in Seq(Decisions), NEW d, d \notin Decisions
  PROVE  Count(votes, d) = 0
<1>1. Cast(votes, d) = {}
  BY DEF Cast
<1> QED BY <1>1, CastFacts, FS_EmptySet

(* aggregate_decision and expected_vote_decision break ties differently but   *)
(* look at the leading decision only when it has more than half of the votes: *)
(* they agree on every sequence of votes, under every policy.                 *)
THEOREM AggregateIsExpected ==
  ASSUME NEW votes \in Seq(Decisions), NEW policy
  PROVE  Aggregate(votes, policy) = Expected(votes, policy)
<1>1. CASE \E d \in Decisions : 2 * Count(votes, d) > Len(votes)
  <2>1. Leading(votes) = Winner(votes)
    BY <1>1, MajorityLeads
  <2> QED BY <2>1 DEF Aggregate, Expected
<1>2. CASE ~ \E d \in Decisions : 2 * Count(votes, d) > Len(votes)
  <2>1. \A d : ~ 2 * Count(votes, d) > Len(votes)
    <3> TAKE d
    <3>1. CASE d \in Decisions
      BY <1>2, <3>1
    <3>2. CASE d \notin Decisions
      BY <3>2, OnlyDecisionsAreCounted
    <3> QED BY <3>1, <3>2
  <2> QED BY <2>1 DEF Aggregate, Expected
<1> QED BY <1>1, <1>2

LEMMA PreferredIsDecision ==
  ASSUME NEW votes \in Seq(Decisions), votes # << >>
  PROVE  Preferred(Cautious, votes) \in Decisions /\ Preferred(Eager, votes) \in Decisions
<1>1. \E d \in Decisions : Count(votes, d) # 0
  <2>1. 1 \in Cast(votes, votes[1]) /\ votes[1] \in Decisions
    BY DEF Cast
  <2>2. Cardinality(Cast(votes, votes[1])) # 0
    BY <2>1, CastFacts, FS_EmptySet
  <2> QED BY <2>1, <2>2, CastFacts
<1>2. \A d : Count(votes, d) \in Nat
  BY CastFacts
<1>3. ASSUME NEW order \in Seq(Decisions), Len(order) = 4,
             \A d \in Decisions : \E i \in 1 .. 4 : order[i] = d
      PROVE  Preferred(order, votes) \in Decisions
  <2> DEFINE Foremost(i) == Count(votes, order[i]) > 0 /\ \A j \in 1 .. i - 1 : Count(votes, order[j]) = 0
  <2>1. \E i \in 1 .. 4 : Count(votes, order[i]) > 0
    BY <1>1, <1>2, <1>3
  <2>2. \E i \in 1 .. 4 : Foremost(i)
    <3> DEFINE c(i) == Count(votes, order[i]) > 0
    <3>1. \A i : ~ c(i) => Count(votes, order[i]) = 0
      BY <1>2
    <3>2. CASE c(1)
      BY <3>2
    <3>3. CASE ~ c(1) /\ c(2)
      BY <3>1, <3>3
    <3>4. CASE ~ c(1) /\ ~ c(2) /\ c(3)
      BY <3>1, <3>4
    <3>5. CASE ~ c(1) /\ ~ c(2) /\ ~ c(3) /\ c(4)
      BY <3>1, <3>5
    <3>6. c(1) \/ c(2) \/ c(3) \/ c(4)
      BY <2>1
    <3> QED BY <3>2, <3>3, <3>4, <3>5, <3>6
  <2>3. Preferred(order, votes) = order[CHOOSE i \in 1 .. 4 : Foremost(i)]
    BY <1>3 DEF Preferred
  <2> HIDE DEF Foremost
  <2>4. (CHOOSE i \in 1 .. 4 : Foremost(i)) \in 1 .. 4
    BY <2>2
  <2>5. \A i \in 1 .. 4 : order[i] \in Decisions
    <3>1. order \in Seq(Decisions) /\ Len(order) = 4
      BY <1>3
    <3> SUFFICES ASSUME NEW i \in 1 .. 4 PROVE order[i] \in Decisions
      OBVIOUS
    <3>2. i \in 1 .. Len(order)
      BY <3>1
    <3> QED BY <3>1, <3>2, ElementOfSeq
  <2> QED BY <2>3, <2>4, <2>5
<1>4. Preferred(Cautious, votes) \in Decisions
  <2>1. Cautious \in Seq(Decisions) /\ Len(Cautious) = 4
    BY DEF Cautious, Decisions
  <2>2. Decisions = {Cautious[1], Cautious[2], Cautious[3], Cautious[4]}
    BY DEF Cautious, Decisions
  <2>3. \A d \in Decisions : \E i \in 1 .. 4 : Cautious[i] = d
    BY <2>2
  <2> QED BY <1>3, <2>1, <2>3
<1>5. Preferred(Eager, votes) \in Decisions
  <2>1. Eager \in Seq(Decisions) /\ Len(Eager) = 4
    BY DEF Eager, Decisions
  <2>2. Decisions = {Eager[1], Eager[2], Eager[3], Eager[4]}
    BY DEF Eager, Decisions
  <2>3. \A d \in Decisions : \E i \in 1 .. 4 : Eager[i] = d
    BY <2>2
  <2> QED BY <1>3, <2>1, <2>3
<1> QED BY <1>4, <1>5

LEMMA AggregateIsDecision ==
  ASSUME NEW votes \in Seq(Decisions), NEW policy
  PROVE  Aggregate(votes, policy) \in Decisions
<1>1. "needs-human-review" \in Decisions
  BY DEF Decisions
<1>2. CASE votes = << >> \/ (policy = "human-review-on-split" /\ Split(votes))
  BY <1>1, <1>2 DEF Aggregate
<1>3. CASE /\ ~ (votes = << >> \/ (policy = "human-review-on-split" /\ Split(votes)))
           /\ 2 * Count(votes, Leading(votes)) > Len(votes)
  <2>1. Leading(votes) \in Decisions
    BY <1>3, OnlyDecisionsAreCounted
  <2> QED BY <1>3, <2>1 DEF Aggregate
<1>4. CASE /\ ~ (votes = << >> \/ (policy = "human-review-on-split" /\ Split(votes)))
           /\ ~ 2 * Count(votes, Leading(votes)) > Len(votes)
  BY <1>1, <1>4, PreferredIsDecision DEF Aggregate, Undecided
<1> QED BY <1>2, <1>3, <1>4

-----------------------------------------------------------------------------
(* The graph of well-formed artifacts. *)

LEMMA ReferencesAreTyped ==
  ASSUME NEW a, NEW e \in References(a)
  PROVE  e.type \in EdgeTypes
<1>1. \A d : Verdict(d) \in EdgeTypes
  BY DEF Verdict, EdgeTypes
<1>2. CASE e \in ScannerEdges(a) \cup TargetEdges(a)
  BY <1>2 DEF ScannerEdges, TargetEdges, Edge, EdgeTypes
<1>3. CASE e \in ChainEdges(a) \cup MembershipEdges(a)
  <2>1. \A c : e \in ChainLinks(c) => e.type \in EdgeTypes
    BY DEF ChainLinks, Edge, EdgeTypes
  <2>2. \A f : e \in Memberships(f) => e.type \in EdgeTypes
    BY DEF Memberships, Edge, EdgeTypes
  <2>3. CASE e \in ChainEdges(a)
    BY <2>1, <2>3 DEF ChainEdges
  <2>4. CASE e \in MembershipEdges(a)
    BY <2>2, <2>4 DEF MembershipEdges
  <2> QED BY <1>3, <2>3, <2>4
<1>4. CASE e \in ProofEdges(a)
  BY <1>4 DEF ProofEdges, Edge, EdgeTypes
<1>5. CASE e \in ValidationEdges(a)
  <2>1. ASSUME NEW v, e \in ValidationLinks(v)
        PROVE  e.type \in EdgeTypes
    <3>1. e.type \in {Verdict(v.decision), "validated_by", "challenges"}
      BY <2>1 DEF ValidationLinks, Edge
    <3> QED BY <1>1, <3>1 DEF EdgeTypes
  <2> QED BY <1>5, <2>1 DEF ValidationEdges
<1>6. CASE e \in TraceEdges(a)
  <2>1. PICK t \in a.records["trace"] :
              e \in {Edge("trace", t.id, "finding", t.finding,
                          IF t.status \in {"Confirmed", "Probable"} THEN "supports" ELSE "challenges"),
                     Edge("finding", t.finding, "trace", t.id, "validated_by")}
    BY <1>6 DEF TraceEdges
  <2>2. e.type \in {"supports", "challenges", "validated_by"}
    BY <2>1 DEF Edge
  <2> QED BY <2>2 DEF EdgeTypes
<1>7. CASE e \in RemediationEdges(a) \cup PublicationEdges(a)
  BY <1>7 DEF RemediationEdges, PublicationEdges, Edge, EdgeTypes
<1>8. CASE e \in WorkflowEdges(a)
  <2>1. e.type \in {"produced", "depends_on"}
    BY <1>8 DEF WorkflowEdges, Edge
  <2> QED BY <2>1 DEF EdgeTypes
<1> QED BY <1>2, <1>3, <1>4, <1>5, <1>6, <1>7, <1>8 DEF References

LEMMA SummaryCounts ==
  ASSUME NEW a, IsFiniteSet(a.records["finding"])
  PROVE  LET g == Graph(a) IN
         /\ {g.urgent, g.supported, g.challenged} \subseteq Nat
         /\ g.supported <= g.urgent /\ g.challenged <= g.urgent
<1>1. IsFiniteSet(Urgent(a))
  BY FS_Subset DEF Urgent
<1>2. \A types : /\ IsFiniteSet(Reached(a, Edges(a), types))
                  /\ Cardinality(Reached(a, Edges(a), types)) <= Cardinality(Urgent(a))
  <2> TAKE types
  <2>1. Reached(a, Edges(a), types) \subseteq Urgent(a)
    BY DEF Reached
  <2> QED BY <1>1, <2>1, FS_Subset
<1>3. /\ Graph(a).urgent = Cardinality(Urgent(a))
      /\ Graph(a).supported = Cardinality(Reached(a, Edges(a), Supporting))
      /\ Graph(a).challenged = Cardinality(Reached(a, Edges(a), Challenging))
  BY DEF Graph
<1> QED BY <1>1, <1>2, <1>3, FS_CardinalityType

LEMMA NodesAreTyped ==
  ASSUME NEW a, WellFormed(a), NEW n \in NodeIds(a)
  PROVE  TypeOf(n[1]) \in NodeTypes /\ Nodes(a)[n].path \in a.present
<1>1. PICK kind \in RecordKinds : n \in {<<kind, id>> : id \in Refs(a, kind)}
  BY DEF NodeIds, WellFormed
<1>2. PICK r \in a.records[kind] : n = <<kind, r.id>>
  BY <1>1 DEF Refs
<1>3. r.path \in PathsOf(a, n) /\ PathsOf(a, n) \subseteq a.present
  BY <1>2 DEF PathsOf, WellFormed
<1>4. TypeOf(n[1]) \in NodeTypes
  BY <1>2 DEF TypeOf, RecordKinds, NodeTypes
<1>5. Nodes(a)[n].path = CHOOSE p \in PathsOf(a, n) : TRUE
  BY DEF Nodes
<1> QED BY <1>3, <1>4, <1>5

(* What gra-evidence-graph makes of artifacts that are there, whatever they   *)
(* refer to, is in itself a graph that gra-validate-report accepts: edges     *)
(* that lead nowhere are dropped and the counts are those of the rest.        *)
LEMMA GraphOfArtifactsIsAccepted ==
  ASSUME NEW a, WellFormed(a)
  PROVE  GraphAccepted(Graph(a), a)
<1> DEFINE g == Graph(a)
<1>1. g.nodes = Nodes(a) /\ g.edges = Edges(a) /\ DOMAIN Nodes(a) = NodeIds(a)
  BY DEF Graph, Nodes
<1>2. /\ g.nodeCount = Cardinality(DOMAIN g.nodes) /\ g.nodeCounts = NodeCounts(g.nodes)
      /\ g.edgeCount = Cardinality(g.edges) /\ g.edgeCounts = EdgeCounts(g.edges)
      /\ g.queue = QueueSummary(a)
  BY DEF Graph
<1>3. /\ {g.urgent, g.supported, g.challenged} \subseteq Nat
      /\ g.supported <= g.urgent /\ g.challenged <= g.urgent
  BY SummaryCounts DEF WellFormed
<1>4. \A n \in NodeIds(a) : Nodes(a)[n].type \in NodeTypes /\ Nodes(a)[n].path \in a.present
  <2> TAKE n \in NodeIds(a)
  <2>1. Nodes(a)[n].type = TypeOf(n[1])
    BY DEF Nodes
  <2> QED BY <2>1, NodesAreTyped
<1>5. \A e \in Edges(a) : {e.source, e.target} \subseteq NodeIds(a) /\ e.type \in EdgeTypes
  BY ReferencesAreTyped DEF Edges
<1> HIDE DEF g
<1> QED BY <1>1, <1>2, <1>3, <1>4, <1>5 DEF GraphAccepted, g
-----------------------------------------------------------------------------
(* The graph, the validators of the artifacts and the publication policy agree. *)

LEMMA NodesOfRecords ==
  ASSUME NEW a, WellFormed(a), NEW kind \in RecordKinds, NEW id \in Refs(a, kind)
  PROVE  <<kind, id>> \in NodeIds(a)
<1>1. <<kind, id>> \in {<<kind, i>> : i \in Refs(a, kind)} /\ kind \in DOMAIN a.records
  BY DEF WellFormed
<1> QED BY <1>1 DEF NodeIds

LEMMA RecordsAreReferred ==
  ASSUME NEW a, NEW kind, NEW r \in a.records[kind]
  PROVE  r.id \in Refs(a, kind)
BY DEF Refs

LEMMA KeptEdge ==
  ASSUME NEW a, WellFormed(a), NEW e \in References(a),
         NEW kind \in RecordKinds, NEW id \in Refs(a, kind), e.source = <<kind, id>>,
         NEW toKind \in RecordKinds, NEW to \in Refs(a, toKind), e.target = <<toKind, to>>
  PROVE  e \in Edges(a)
BY NodesOfRecords DEF Edges

(* The graph keeps every reference of proofs, traces, validations and candidate *)
(* patches whose artifacts gra-validate-report accepts, and of chains all but   *)
(* exactly those to the scanner index by a name that is no node: its own path,  *)
(* a tool, or the raw path of an entry that was normalized.  The validator      *)
(* takes these names (advanced.py:432-440), the graph loses them                *)
(* (evidence_graph.py:345, 554-555).                                        *)
THEOREM AcceptedReferencesAreKept ==
  ASSUME NEW a, WellFormed(a), ProofsAccepted(a), TracesAccepted(a), SubjectsAccepted(a),
         RemediationAccepted(a), ChainsAccepted(a)
  PROVE  /\ ProofEdges(a) \cup TraceEdges(a) \cup ValidationEdges(a) \subseteq Edges(a)
         /\ a.records["remediation_candidate"] # {} => RemediationEdges(a) \subseteq Edges(a)
         /\ \A e \in ChainEdges(a) :
              e \notin Edges(a)
                <=> e.source \in {"scanner_lead"} \X (ScannerRefs(a) \ Refs(a, "scanner_lead"))
<1>1. {"finding", "chain", "target", "scanner_lead", "proof", "trace", "validation",
       "remediation_candidate", "patch_validation"} \subseteq RecordKinds
  BY DEF RecordKinds, NodeTypes
<1>2. ASSUME NEW e \in ProofEdges(a) PROVE e \in Edges(a)
  <2>1. PICK p \in a.records["proof"] :
          \/ e.source = <<"finding", p.finding>> /\ e.target = <<"proof", p.id>>
          \/ e.source = <<"proof", p.id>> /\ e.target = <<"finding", p.finding>>
    BY <1>2 DEF ProofEdges, Edge
  <2>2. p.finding \in Refs(a, "finding") /\ p.id \in Refs(a, "proof")
    BY RecordsAreReferred DEF ProofsAccepted
  <2>3. e \in References(a)
    BY <1>2 DEF References
  <2> QED BY <1>1, <2>1, <2>2, <2>3, KeptEdge
<1>3. ASSUME NEW e \in TraceEdges(a) PROVE e \in Edges(a)
  <2>1. PICK t \in a.records["trace"] :
          \/ e.source = <<"finding", t.finding>> /\ e.target = <<"trace", t.id>>
          \/ e.source = <<"trace", t.id>> /\ e.target = <<"finding", t.finding>>
    BY <1>3 DEF TraceEdges, Edge
  <2>2. t.finding \in Refs(a, "finding") /\ t.id \in Refs(a, "trace")
    BY RecordsAreReferred DEF TracesAccepted
  <2>3. e \in References(a)
    BY <1>3 DEF References
  <2> QED BY <1>1, <2>1, <2>2, <2>3, KeptEdge
<1>4. ASSUME NEW e \in ValidationEdges(a) PROVE e \in Edges(a)
  <2>1. PICK v \in a.records["validation"] : e \in ValidationLinks(v)
    BY <1>4 DEF ValidationEdges
  <2>2. \/ e.source = <<"validation", v.id>> /\ e.target = <<v.kind, v.subject>>
        \/ e.source = <<v.kind, v.subject>> /\ e.target = <<"validation", v.id>>
    BY <2>1 DEF ValidationLinks, Edge
  <2>3. /\ v.kind \in {"finding", "chain"} /\ v.subject \in Refs(a, v.kind)
        /\ v.id \in Refs(a, "validation")
    BY RecordsAreReferred DEF SubjectsAccepted
  <2>4. e \in References(a)
    BY <1>4 DEF References
  <2> QED BY <1>1, <2>2, <2>3, <2>4, KeptEdge
<1>5. ASSUME NEW e \in RemediationEdges(a), a.records["remediation_candidate"] # {}
      PROVE  e \in Edges(a)
  <2>1. e \in References(a)
    BY <1>5 DEF References
  <2>2. ASSUME NEW c \in a.records["remediation_candidate"],
               e.source = <<"remediation_candidate", c.id>>, e.target = <<"finding", c.finding>>
        PROVE  e \in Edges(a)
    <3>1. c.finding \in Refs(a, "finding") /\ c.id \in Refs(a, "remediation_candidate")
      BY RecordsAreReferred DEF RemediationAccepted
    <3> QED BY <1>1, <2>1, <2>2, <3>1, KeptEdge
  <2>3. ASSUME NEW r \in a.records["patch_validation"],
               e.source = <<"remediation_candidate", r.id>>, e.target = <<"patch_validation", r.id>>
        PROVE  e \in Edges(a)
    <3>1. r.id \in Refs(a, "remediation_candidate") /\ r.id \in Refs(a, "patch_validation")
      BY <1>5, RecordsAreReferred DEF RemediationAccepted
    <3> QED BY <1>1, <2>1, <2>3, <3>1, KeptEdge
  <2> QED BY <1>5, <2>2, <2>3 DEF RemediationEdges, Edge
<1> DEFINE nameless == {"scanner_lead"} \X (ScannerRefs(a) \ Refs(a, "scanner_lead"))
<1>6. ASSUME NEW e \in ChainEdges(a), e.source \notin nameless
      PROVE  e \in Edges(a)
  <2>1. PICK c \in a.records["chain"] : e \in ChainLinks(c)
    BY <1>6 DEF ChainEdges
  <2>2. /\ c.findings \subseteq Refs(a, "finding") /\ c.targets \subseteq Refs(a, "target")
        /\ c.leads \subseteq ScannerRefs(a)
        /\ c.id \in Refs(a, "chain")
    BY RecordsAreReferred DEF ChainsAccepted
  <2>3. e \in References(a)
    BY <1>6 DEF References
  <2>4. \/ \E f \in c.findings : \/ e.source = <<"finding", f>> /\ e.target = <<"chain", c.id>>
                                 \/ e.source = <<"chain", c.id>> /\ e.target = <<"finding", f>>
        \/ \E t \in c.targets : e.source = <<"target", t>> /\ e.target = <<"chain", c.id>>
        \/ \E l \in c.leads : e.source = <<"scanner_lead", l>> /\ e.target = <<"chain", c.id>>
    BY <2>1 DEF ChainLinks, Edge
  <2>5. ASSUME NEW l \in c.leads, e.source = <<"scanner_lead", l>>
        PROVE  l \in Refs(a, "scanner_lead")
    BY <1>6, <2>2, <2>5
  <2> QED BY <1>1, <2>2, <2>3, <2>4, <2>5, KeptEdge
<1>7. ASSUME NEW e \in ChainEdges(a), e.source \in nameless
      PROVE  e \notin Edges(a)
  <2>1. PICK l : l \notin Refs(a, "scanner_lead") /\ e.source = <<"scanner_lead", l>>
    BY <1>7
  <2>2. <<"scanner_lead", l>> \notin NodeIds(a)
    BY <2>1 DEF NodeIds
  <2> QED BY <2>1, <2>2 DEF Edges
<1> HIDE DEF nameless
<1>8. \A e \in ChainEdges(a) : e \notin Edges(a) <=> e.source \in nameless
  BY <1>6, <1>7
<1> QED BY <1>2, <1>3, <1>4, <1>5, <1>8 DEF nameless

(* A serious finding that its own validation does not confirm: the graph counts *)
(* it as challenged, and with --require-advanced-validation it is not published. *)
THEOREM UnconfirmedIsChallengedAndRefused ==
  ASSUME NEW a, WellFormed(a), SubjectsAccepted(a), NEW f \in Urgent(a),
         NEW v \in a.records["validation"], v.kind = "finding", v.subject = f.id,
         v.decision \in Blocking
  PROVE  f \in Reached(a, Edges(a), Challenging) /\ f \in AdvancedErrors(a, {f})
<1> DEFINE e == Edge("validation", v.id, v.kind, v.subject, Verdict(v.decision))
<1>1. {"finding", "validation"} \subseteq RecordKinds
  BY DEF RecordKinds, NodeTypes
<1>2. /\ e.source = <<"validation", v.id>> /\ e.target = <<"finding", f.id>>
      /\ e.type = Verdict(v.decision)
  BY DEF Edge
<1>3. Verdict(v.decision) \in Challenging
  BY DEF Verdict, Challenging, Blocking
<1>4. e \in References(a)
  <2>1. e \in ValidationLinks(v)
    BY DEF ValidationLinks
  <2>2. e \in ValidationEdges(a)
    BY <2>1 DEF ValidationEdges
  <2> QED BY <2>2 DEF References
<1>5. v.id \in Refs(a, "validation") /\ f.id \in Refs(a, "finding")
  BY RecordsAreReferred DEF Urgent
<1> HIDE DEF e
<1>6. e \in Edges(a)
  BY <1>1, <1>2, <1>4, <1>5, KeptEdge
<1>7. f \in Reached(a, Edges(a), Challenging)
  BY <1>2, <1>3, <1>6 DEF Reached
<1>8. v \in RelatedValidations(a, f)
  BY DEF RelatedValidations
<1>9. Warned(a, f)
  BY <1>8 DEF Warned, Urgent
<1> QED BY <1>7, <1>9 DEF AdvancedErrors

(* A serious finding the policy does not warn of, whose chains all list it, is *)
(* one the graph counts as supported.                                          *)
THEOREM UnwarnedIsSupported ==
  ASSUME NEW a, WellFormed(a), NEW f \in Urgent(a), ~ Warned(a, f),
         \A c \in a.records["chain"] : c.id \in f.chains => f.id \in c.findings,
         \A v \in a.records["validation"] : v.decision \in {"confirm"} \cup Blocking
  PROVE  f \in Reached(a, Edges(a), Supporting)
<1>1. {"finding", "validation", "chain"} \subseteq RecordKinds
  BY DEF RecordKinds, NodeTypes
<1>2. PICK v \in RelatedValidations(a, f) : v.decision = "confirm"
  BY DEF Warned, Urgent, RelatedValidations
<1>3. /\ v \in a.records["validation"]
      /\ \/ v.kind = "finding" /\ v.subject = f.id
         \/ v.kind = "chain" /\ v.subject \in RelatedChains(a, f)
  BY DEF RelatedValidations
<1>4. f.id \in Refs(a, "finding") /\ v.id \in Refs(a, "validation")
  BY <1>3, RecordsAreReferred DEF Urgent
<1>5. CASE v.kind = "finding" /\ v.subject = f.id
  <2> DEFINE e == Edge("validation", v.id, v.kind, v.subject, Verdict(v.decision))
  <2>1. e.source = <<"validation", v.id>> /\ e.target = <<"finding", f.id>> /\ e.type = "supports"
    BY <1>2, <1>5 DEF Edge, Verdict
  <2>2. e \in ValidationLinks(v)
    BY DEF ValidationLinks
  <2>3. e \in ValidationEdges(a)
    BY <1>3, <2>2 DEF ValidationEdges
  <2>4. e \in References(a)
    BY <2>3 DEF References
  <2> HIDE DEF e
  <2>5. e \in Edges(a)
    BY <1>1, <1>4, <2>1, <2>4, KeptEdge
  <2> QED BY <2>1, <2>5 DEF Reached, Supporting
<1>6. CASE v.kind = "chain" /\ v.subject \in RelatedChains(a, f)
  <2>1. PICK c \in a.records["chain"] : f.id \in c.findings
    <3>1. CASE v.subject \in f.chains
      <4>1. v.subject \in Refs(a, "chain")
        BY <3>1 DEF Warned
      <4> QED BY <3>1, <4>1 DEF Refs
    <3>2. CASE v.subject \notin f.chains
      BY <1>6, <3>2 DEF RelatedChains
    <3> QED BY <3>1, <3>2
  <2> DEFINE e == Edge("chain", c.id, "finding", f.id, "supports")
  <2>2. e.source = <<"chain", c.id>> /\ e.target = <<"finding", f.id>> /\ e.type = "supports"
    BY DEF Edge
  <2>3. e \in ChainLinks(c)
    BY <2>1 DEF ChainLinks
  <2>4. e \in ChainEdges(a)
    BY <2>3 DEF ChainEdges
  <2>5. e \in References(a) /\ c.id \in Refs(a, "chain")
    BY <2>4, RecordsAreReferred DEF References
  <2> HIDE DEF e
  <2>6. e \in Edges(a)
    BY <1>1, <1>4, <2>2, <2>5, KeptEdge
  <2> QED BY <2>2, <2>6 DEF Reached, Supporting
<1> QED BY <1>3, <1>5, <1>6

-----------------------------------------------------------------------------
(* The votes: what a command has gathered and what it writes. *)

Slots == UNION {{<<Chosen[p], n>> : n \in 1 .. Passes[p]} : p \in Voters}
Sound(v) == v # NoReport /\ v.votes # << >> => ValidationAccepted(v)

(* A process in its passes has read a report in each earlier one; what a single pass *)
(* has loaded is a report the validator accepts if it has votes.                     *)
Gathering(p) ==
  /\ voting[p] = "idle" => pass[p] = 1
  /\ voting[p] \in {"idle", "single"} => gathered[p] = << >>
  /\ voting[p] = "ensure" /\ gathered[p] # << >> =>
       gathered[p][1] \in ValidationReports /\ Sound(gathered[p][1])
  /\ voting[p] \in {"vote", "agent", "read", "compose"} => gathered[p] \in Seq(Reports)
  /\ voting[p] \in {"vote", "agent", "read"} =>
       pass[p] \in 1 .. Passes[p] /\ Len(gathered[p]) = pass[p] - 1
  /\ voting[p] = "compose" => Len(gathered[p]) = Passes[p]

VoteTypeOK ==
  /\ validation \in ValidationReports \cup {NoReport}
  /\ voteFiles \in [Slots -> Reports \cup {NoReport}]
  /\ voting \in [Voters -> VotingPlaces]
  /\ pass \in [Voters -> Nat]
  /\ gathered \in [Voters -> Seq(Reports \cup ValidationReports)]

VoteInv ==
  /\ VoteTypeOK
  /\ \A p \in Voters : Gathering(p)
  /\ Sound(validation)

(* validation.json is there, or a vote command is about to write it again. *)
InHand == validation # NoReport \/ ~ Resting

LEMMA VotesAreDecisions ==
  ASSUME NEW S, NEW cast \in Seq(S), NEW s
  PROVE  VotesOn(cast, s) \in Seq(Decisions) /\ Len(VotesOn(cast, s)) = Len(cast)
<1>1. \A r : VoteOf(r, s) \in Decisions
  BY DEF VoteOf, Missing, Decisions
<1>2. DOMAIN cast = 1 .. Len(cast) /\ Len(cast) \in Nat
  OBVIOUS
<1>3. VotesOn(cast, s) = [k \in 1 .. Len(cast) |-> VoteOf(cast[k], s)]
  BY <1>2 DEF VotesOn
<1> QED BY <1>1, <1>2, <1>3

LEMMA EmptyReport == << >> \in Reports
<1>1. << >> \in [{} -> Decisions \cup {"other"}]
  OBVIOUS
<1>2. {} \in SUBSET Subjects
  OBVIOUS
<1> QED BY <1>1, <1>2 DEF Reports

LEMMA SingleIsSound ==
  ASSUME NEW report \in Reports
  PROVE  Single(report) \in ValidationReports /\ Sound(Single(report))
<1>1. << >> \in Seq(Reports) /\ "human-review-on-split" \in Policies /\ 1 \in Nat
  BY DEF Policies
<1>2. Single(report) \in ValidationReports
  BY <1>1 DEF Single, ValidationReports
<1>3. Single(report).votes = << >>
  BY DEF Single
<1> QED BY <1>2, <1>3 DEF Sound

LEMMA ComposedIsSound ==
  ASSUME VotingAssumption, NEW p \in Voters,
         gathered[p] \in Seq(Reports), Len(gathered[p]) = Passes[p]
  PROVE  Composed(p) \in ValidationReports /\ Sound(Composed(p))
<1> DEFINE d(s) == Aggregate(VotesOn(gathered[p], s), Policy[p])
<1>1. /\ Composed(p).requested = Passes[p] /\ Composed(p).policy = Policy[p]
      /\ Composed(p).votes = gathered[p] /\ Composed(p).decisions = [s \in Chosen[p] |-> d(s)]
  BY DEF Composed
<1>2. \A s : d(s) \in Decisions /\ d(s) = Expected(VotesOn(gathered[p], s), Policy[p])
  BY VotesAreDecisions, AggregateIsDecision, AggregateIsExpected
<1> HIDE DEF d
<1>3. [s \in Chosen[p] |-> d(s)] \in Reports
  <2>1. Chosen[p] \in SUBSET Subjects
    BY DEF VotingAssumption
  <2>2. [s \in Chosen[p] |-> d(s)] \in [Chosen[p] -> Decisions \cup {"other"}]
    BY <1>2
  <2> QED BY <2>1, <2>2 DEF Reports
<1>4. Passes[p] \in Nat /\ Policy[p] \in Policies
  BY DEF VotingAssumption
<1>5. Composed(p) \in ValidationReports
  BY <1>3, <1>4 DEF Composed, ValidationReports, d
<1>6. ValidationAccepted(Composed(p))
  <2>1. \A s \in Chosen[p] : Composed(p).decisions[s] = d(s)
    BY <1>1
  <2>2. ASSUME NEW s \in Chosen[p], Composed(p).votes = << >>
        PROVE  FALSE
    BY <1>1, <2>2 DEF VotingAssumption
  <2>3. DOMAIN Composed(p).decisions = Chosen[p]
    BY <1>1
  <2> QED BY <1>1, <1>2, <2>1, <2>2, <2>3 DEF ValidationAccepted
<1> QED BY <1>5, <1>6 DEF Sound
LEMMA VotingStarts == VotingAssumption /\ VotingInit => VoteInv
<1> SUFFICES ASSUME VotingAssumption, VotingInit PROVE VoteInv
  OBVIOUS
<1>1. VoteTypeOK
  <2>1. << >> \in Seq(Reports \cup ValidationReports) /\ 1 \in Nat
    OBVIOUS
  <2> QED BY <2>1 DEF VoteTypeOK, VotingInit, VotingPlaces, Slots
<1>2. ASSUME NEW p \in Voters PROVE Gathering(p)
  BY DEF Gathering, VotingInit
<1>3. Sound(validation)
  BY DEF Sound, VotingInit
<1> QED BY <1>1, <1>2, <1>3 DEF VoteInv

(* A step of one process leaves what the others have gathered alone. *)
LEMMA OthersGather ==
  ASSUME NEW p \in Voters, VoteTypeOK, \A q \in Voters : Gathering(q),
         \A q \in Voters \ {p} : /\ voting'[q] = voting[q] /\ pass'[q] = pass[q]
                                 /\ gathered'[q] = gathered[q],
         Gathering(p)'
  PROVE  \A q \in Voters : Gathering(q)'
<1> TAKE q \in Voters
<1>1. CASE q = p
  BY <1>1
<1>2. CASE q # p
  <2>1. voting'[q] = voting[q] /\ pass'[q] = pass[q] /\ gathered'[q] = gathered[q]
    BY <1>2
  <2>2. Gathering(q)
    OBVIOUS
  <2> QED BY <2>1, <2>2 DEF Gathering, Sound, ValidationAccepted
<1> QED BY <1>1, <1>2

LEMMA VotesPreserve ==
  ASSUME VotingAssumption, VoteInv, VotingStep
  PROVE  VoteInv' /\ (InHand => InHand')
<1> USE DEF VoteInv, VoteTypeOK
<1>1. PICK p \in Voters :
        \/ StartVoting(p) \/ SinglePass(p) \/ LoadSingle(p) \/ StoreSingle(p)
        \/ BeginPass(p) \/ AgentVotes(p) \/ ReadPass(p) \/ Compose(p) \/ VoterDies(p)
  BY DEF VotingStep
<1>2. /\ NoReport \notin ValidationReports /\ NoReport \notin Reports
      /\ Passes[p] \in Nat \ {0} /\ Ballots \subseteq Reports /\ Policy[p] \in Policies
  BY DEF VotingAssumption
<1>3. Gathering(p)
  OBVIOUS
<1>4. ASSUME StartVoting(p) PROVE VoteInv' /\ (InHand => InHand')
  <2>1. ASSUME Chosen[p] = {} PROVE validation' \in ValidationReports /\ Sound(validation)'
    <3>1. validation' = [requested |-> Passes[p], policy |-> Policy[p],
                         votes |-> << >>, decisions |-> << >>]
      BY <1>4, <2>1 DEF StartVoting
    <3>2. << >> \in Seq(Reports)
      OBVIOUS
    <3>3. validation' \in ValidationReports
      BY <1>2, <3>1, <3>2, EmptyReport DEF ValidationReports
    <3>4. validation'.votes = << >>
      BY <3>1
    <3> QED BY <3>3, <3>4 DEF Sound
  <2>2. validation' \in ValidationReports \cup {NoReport} /\ Sound(validation)'
    BY <1>4, <2>1 DEF StartVoting, Sound, ValidationAccepted
  <2>3. Gathering(p)'
    BY <1>2, <1>3, <1>4 DEF StartVoting, Gathering
  <2>4. \A q \in Voters : Gathering(q)'
    BY <1>4, <2>3, OthersGather DEF StartVoting
  <2>5. voting' \in [Voters -> VotingPlaces]
    BY <1>4 DEF StartVoting, VotingPlaces
  <2>6. InHand => InHand'
    BY <1>2, <1>4, <2>1 DEF StartVoting, InHand, Resting
  <2> QED BY <1>4, <2>2, <2>4, <2>5, <2>6 DEF StartVoting
<1>5. ASSUME SinglePass(p) PROVE VoteInv' /\ (InHand => InHand')
  <2>1. \/ validation' = validation
        \/ \E report \in Reports : validation' = Single(report)
    BY <1>2, <1>5 DEF SinglePass
  <2>2. validation' \in ValidationReports \cup {NoReport} /\ Sound(validation)'
    BY <2>1, SingleIsSound DEF Sound, ValidationAccepted
  <2>3. Gathering(p)'
    BY <1>3, <1>5 DEF SinglePass, Gathering
  <2>4. \A q \in Voters : Gathering(q)'
    BY <1>5, <2>3, OthersGather DEF SinglePass
  <2>5. voting' \in [Voters -> VotingPlaces]
    BY <1>5 DEF SinglePass, VotingPlaces
  <2>6. validation # NoReport => validation' # NoReport
    BY <1>2, <2>1, SingleIsSound
  <2>7. InHand => InHand'
    BY <1>5, <2>6 DEF SinglePass, InHand, Resting
  <2> QED BY <1>5, <2>2, <2>4, <2>5, <2>7 DEF SinglePass
<1>6. ASSUME LoadSingle(p) PROVE VoteInv' /\ (InHand => InHand')
  <2>1. validation' = validation /\ Sound(validation)'
    BY <1>6 DEF LoadSingle, Sound, ValidationAccepted
  <2>2. CASE validation = NoReport
    <3>1. Gathering(p)'
      BY <1>3, <1>6, <2>2 DEF LoadSingle, Gathering
    <3>2. \A q \in Voters : Gathering(q)'
      BY <1>6, <2>2, <3>1, OthersGather DEF LoadSingle
    <3>3. voting' \in [Voters -> VotingPlaces]
      BY <1>6, <2>2 DEF LoadSingle, VotingPlaces
    <3>4. InHand => InHand'
      BY <1>6, <2>2 DEF LoadSingle, InHand, Resting
    <3> QED BY <1>6, <2>1, <2>2, <3>2, <3>3, <3>4 DEF LoadSingle
  <2>3. CASE validation # NoReport
    <3>1. /\ gathered' = [gathered EXCEPT ![p] = << validation >>]
          /\ voting' = voting /\ pass' = pass /\ voteFiles' = voteFiles
      BY <1>6, <2>3 DEF LoadSingle
    <3>2. << validation >> \in Seq(Reports \cup ValidationReports)
      BY <2>3
    <3>3. Gathering(p)'
      <4>1. voting'[p] = "ensure" /\ gathered'[p][1] = validation
        BY <1>6, <3>1 DEF LoadSingle
      <4>2. Sound(gathered'[p][1])
        BY <4>1
      <4> QED BY <2>3, <4>1, <4>2 DEF Gathering, Sound, ValidationAccepted
    <3>4. \A q \in Voters : Gathering(q)'
      BY <3>1, <3>3, OthersGather
    <3>5. InHand => InHand'
      BY <2>1, <3>1 DEF InHand, Resting
    <3> QED BY <2>1, <3>1, <3>2, <3>4, <3>5
  <2> QED BY <2>2, <2>3
<1>7. ASSUME StoreSingle(p) PROVE VoteInv' /\ (InHand => InHand')
  <2>1. validation' \in ValidationReports /\ Sound(validation)'
    BY <1>3, <1>7 DEF StoreSingle, Gathering, Sound, ValidationAccepted
  <2>2. Gathering(p)'
    BY <1>7 DEF StoreSingle, Gathering
  <2>3. \A q \in Voters : Gathering(q)'
    BY <1>7, <2>2, OthersGather DEF StoreSingle
  <2>4. voting' \in [Voters -> VotingPlaces]
    BY <1>7 DEF StoreSingle, VotingPlaces
  <2> QED BY <1>2, <1>7, <2>1, <2>3, <2>4 DEF StoreSingle, InHand
<1>8. ASSUME BeginPass(p) PROVE VoteInv' /\ (InHand => InHand')
  <2>1. validation' = NoReport /\ Sound(validation)'
    BY <1>8 DEF BeginPass, Sound
  <2>2. Gathering(p)'
    BY <1>3, <1>8 DEF BeginPass, Gathering
  <2>3. \A q \in Voters : Gathering(q)'
    BY <1>8, <2>2, OthersGather DEF BeginPass
  <2>4. voting' \in [Voters -> VotingPlaces] /\ voting'[p] = "agent"
    BY <1>8 DEF BeginPass, VotingPlaces
  <2> QED BY <1>8, <2>1, <2>3, <2>4 DEF BeginPass, InHand, Resting
<1>9. ASSUME AgentVotes(p) PROVE VoteInv' /\ (InHand => InHand')
  <2>1. \/ validation' = validation
        \/ \E report \in Reports : validation' = Single(report)
    BY <1>2, <1>9 DEF AgentVotes
  <2>2. validation' \in ValidationReports \cup {NoReport} /\ Sound(validation)'
    BY <2>1, SingleIsSound DEF Sound, ValidationAccepted
  <2>3. voteFiles' \in [Slots -> Reports \cup {NoReport}]
    BY <1>2, <1>9 DEF AgentVotes
  <2>4. Gathering(p)'
    BY <1>3, <1>9 DEF AgentVotes, Gathering
  <2>5. \A q \in Voters : Gathering(q)'
    BY <1>9, <2>4, OthersGather DEF AgentVotes
  <2>6. voting' \in [Voters -> VotingPlaces] /\ voting'[p] = "read"
    BY <1>9 DEF AgentVotes, VotingPlaces
  <2>7. gathered' = gathered /\ pass' = pass
    BY <1>9 DEF AgentVotes
  <2> QED BY <2>2, <2>3, <2>5, <2>6, <2>7 DEF InHand, Resting
<1>10. ASSUME ReadPass(p) PROVE VoteInv' /\ (InHand => InHand')
  <2> DEFINE shared == IF validation = NoReport THEN << >> ELSE validation.decisions
             report == IF voteFiles[Slot(p)] # NoReport THEN voteFiles[Slot(p)] ELSE shared
  <2>1. /\ voting[p] = "read" /\ validation' = validation
        /\ voteFiles' = [voteFiles EXCEPT ![Slot(p)] = report]
        /\ gathered' = [gathered EXCEPT ![p] = Append(gathered[p], report)]
        /\ pass' = [pass EXCEPT ![p] = pass[p] + 1]
        /\ voting' = [voting EXCEPT ![p] = IF pass[p] = Passes[p] THEN "compose" ELSE "vote"]
    BY <1>10 DEF ReadPass
  <2>2. pass[p] \in 1 .. Passes[p] /\ Len(gathered[p]) = pass[p] - 1 /\ gathered[p] \in Seq(Reports)
    BY <1>3, <2>1 DEF Gathering
  <2>3. Slot(p) \in Slots
    BY <2>2 DEF Slot, Slots
  <2>4. shared \in Reports
    BY EmptyReport DEF ValidationReports
  <2>5. report \in Reports
    BY <2>3, <2>4
  <2> HIDE DEF shared, report
  <2>6. /\ Append(gathered[p], report) \in Seq(Reports)
        /\ Append(gathered[p], report) \in Seq(Reports \cup ValidationReports)
        /\ Len(Append(gathered[p], report)) = pass[p]
    BY <2>2, <2>5
  <2>7. Gathering(p)'
    <3>1. gathered'[p] = Append(gathered[p], report) /\ pass'[p] = pass[p] + 1
      BY <2>1
    <3>2. voting'[p] = IF pass[p] = Passes[p] THEN "compose" ELSE "vote"
      BY <2>1
    <3> QED BY <1>2, <2>2, <2>6, <3>1, <3>2 DEF Gathering
  <2>8. \A q \in Voters : Gathering(q)'
    BY <2>1, <2>7, OthersGather
  <2>9. Sound(validation)'
    BY <2>1 DEF Sound, ValidationAccepted
  <2>10. VoteTypeOK'
    <3>1. validation' \in ValidationReports \cup {NoReport}
      BY <2>1
    <3>2. voteFiles' \in [Slots -> Reports \cup {NoReport}]
      BY <2>1, <2>5
    <3>3. voting' \in [Voters -> VotingPlaces]
      BY <2>1 DEF VotingPlaces
    <3>4. pass' \in [Voters -> Nat]
      BY <2>1
    <3>5. gathered' \in [Voters -> Seq(Reports \cup ValidationReports)]
      BY <2>1, <2>6
    <3> QED BY <3>1, <3>2, <3>3, <3>4, <3>5
  <2>11. ~ Resting'
    BY <2>1 DEF Resting
  <2> QED BY <2>8, <2>9, <2>10, <2>11 DEF InHand
<1>11. ASSUME Compose(p) PROVE VoteInv' /\ (InHand => InHand')
  <2>1. Composed(p) \in ValidationReports /\ Sound(Composed(p))
    BY <1>3, <1>11, ComposedIsSound DEF Compose, Gathering
  <2>2. validation' \in ValidationReports /\ Sound(validation)'
    BY <1>11, <2>1 DEF Compose, Sound, ValidationAccepted
  <2>3. Gathering(p)'
    BY <1>11 DEF Compose, Gathering
  <2>4. \A q \in Voters : Gathering(q)'
    BY <1>11, <2>3, OthersGather DEF Compose
  <2>5. voting' \in [Voters -> VotingPlaces]
    BY <1>11 DEF Compose, VotingPlaces
  <2> QED BY <1>2, <1>11, <2>2, <2>4, <2>5 DEF Compose, InHand
<1>12. ASSUME VoterDies(p) PROVE VoteInv' /\ (InHand => InHand')
  <2>1. validation' = validation /\ Sound(validation)'
    BY <1>12 DEF VoterDies, Sound, ValidationAccepted
  <2>2. Gathering(p)'
    BY <1>12 DEF VoterDies, Gathering
  <2>3. \A q \in Voters : Gathering(q)'
    BY <1>12, <2>2, OthersGather DEF VoterDies
  <2>4. voting' \in [Voters -> VotingPlaces] /\ voting'[p] = "dead"
    BY <1>12 DEF VoterDies, VotingPlaces
  <2> QED BY <1>12, <2>1, <2>3, <2>4 DEF VoterDies, InHand, Resting
<1> QED BY <1>1, <1>4, <1>5, <1>6, <1>7, <1>8, <1>9, <1>10, <1>11, <1>12
-----------------------------------------------------------------------------
(* The patches: a report's status is that of its trial, and what a command has *)
(* written is not taken away again.                                            *)

PatchInv ==
  /\ DOMAIN reports = Findings
  /\ \A f \in Findings : \A r \in reports[f] : r.status = FinalStatus(r.trial)

Drafted == candidates # << >>

LEMMA PatchesStart == PatchInit => PatchInv
BY DEF PatchInit, PatchInv

LEMMA PatchesPreserve ==
  ASSUME PatchAssumption, PatchInv, PatchStep
  PROVE  /\ PatchInv' /\ (Drafted => Drafted')
         /\ \A f \in Findings : reports[f] # {} => reports'[f] # {}
<1> DEFINE Kept == /\ PatchInv' /\ (Drafted => Drafted')
                   /\ \A f \in Findings : reports[f] # {} => reports'[f] # {}
<1>1. ASSUME reports' = reports, candidates' = candidates PROVE Kept
  BY <1>1 DEF PatchInv, Drafted
<1>2. ASSUME NEW p \in Validators, WriteReport(p) PROVE Kept
  <2> DEFINE r == [patch |-> Current(p).id, status |-> FinalStatus(trial[p]), trial |-> trial[p],
                   declared |-> Current(p).declared, ran |-> ran[p], alone |-> alone[p]]
  <2>1. reports' = [reports EXCEPT ![Current(p).finding] = {r}] /\ candidates' = candidates
    BY <1>2 DEF WriteReport
  <2>2. r.status = FinalStatus(r.trial)
    OBVIOUS
  <2> HIDE DEF r
  <2>3. \A f \in Findings : reports'[f] = reports[f] \/ reports'[f] = {r}
    BY <2>1 DEF PatchInv
  <2>4. DOMAIN reports' = Findings
    BY <2>1 DEF PatchInv
  <2> QED BY <2>1, <2>2, <2>3, <2>4 DEF PatchInv, Drafted
<1>3. ASSUME NEW d \in Drafters, AgentDrafts(d) PROVE Kept
  <2>1. \A draft \in Drafts : draft.candidates # << >>
    BY DEF PatchAssumption
  <2> QED BY <1>3, <2>1 DEF AgentDrafts, PatchInv, Drafted
<1>4. ASSUME NEW d \in Drafters, StoreDraft(d) PROVE Kept
  BY <1>4 DEF StoreDraft, PatchInv, Drafted
<1> HIDE DEF Kept
<1>5. ASSUME NEW p \in Validators,
             \/ StartValidation(p) \/ Judge(p) \/ StepFails(p) \/ Prepare(p) \/ MakeCopy(p)
             \/ InitGit(p) \/ CheckPatch(p) \/ ApplyPatch(p)
             \/ NothingRuns(p, "build", "test") \/ NothingRuns(p, "test", "dispose")
             \/ RunCommands(p, "build", "test") \/ RunCommands(p, "test", "dispose")
             \/ Dispose(p)
      PROVE  Kept
  BY <1>1, <1>5 DEF StartValidation, Judge, StepFails, Prepare, MakeCopy, InitGit, CheckPatch,
                    ApplyPatch, NothingRuns, RunCommands, Dispose
<1>6. ASSUME NEW d \in Drafters, StartDraft(d) \/ LoadDraft(d) PROVE Kept
  BY <1>1, <1>6 DEF StartDraft, LoadDraft
<1>7. ASSUME NEW p, Dies(p) PROVE Kept
  BY <1>1, <1>7 DEF Dies
<1>8. Kept
  BY <1>2, <1>3, <1>4, <1>5, <1>6, <1>7 DEF PatchStep
<1> QED BY <1>8 DEF Kept
-----------------------------------------------------------------------------
(* The graph: what it was made of is still there, or comes back. *)

Kept(path) == path \in Artifacts.present \/ (path = "validation.json" /\ InHand)

(* Artifacts that were read and have at most been written again since. *)
Standing(a) ==
  /\ WellFormed(a)
  /\ \A path \in a.present : Kept(path)
  /\ QueueSummary(a) = QueueSummary(material)

GraphInv ==
  /\ material \in Materials
  /\ \A a \in loaded : Standing(a)
  /\ graph # NoGraph => \E a : Standing(a) /\ graph = Graph(a)

IInv == VoteInv /\ PatchInv /\ GraphInv

LEMMA ArtifactFacts ==
  /\ DOMAIN Artifacts.records = RecordKinds
  /\ \A kind \in RecordKinds \ {"validation", "remediation_candidate", "patch_validation"} :
       Artifacts.records[kind] = material.records[kind]
  /\ Artifacts.records["validation"] = ValidationRecords
  /\ Artifacts.records["remediation_candidate"] = CandidateRecords
  /\ Artifacts.records["patch_validation"] = PatchRecords
  /\ Artifacts.queue = material.queue
  /\ \A path : path \in Artifacts.present <=>
       \/ path \in material.present
       \/ path = "validation.json" /\ validation # NoReport
       \/ path = "remediation-candidates.json" /\ candidates # << >>
       \/ path \in Findings /\ reports[path] # {}
<1>1. {"validation", "remediation_candidate", "patch_validation"} \subseteq RecordKinds
  BY DEF RecordKinds, NodeTypes
<1>2. Artifacts.records = [kind \in RecordKinds |->
         CASE kind = "validation" -> ValidationRecords
           [] kind = "remediation_candidate" -> CandidateRecords
           [] kind = "patch_validation" -> PatchRecords
           [] OTHER -> material.records[kind]]
  BY DEF Artifacts
<1>3. Artifacts.present = material.present
         \cup (IF validation = NoReport THEN {} ELSE {"validation.json"})
         \cup (IF candidates = << >> THEN {} ELSE {"remediation-candidates.json"})
         \cup {f \in Findings : reports[f] # {}}
  BY DEF Artifacts
<1>4. Artifacts.queue = material.queue
  BY DEF Artifacts
<1> QED BY <1>1, <1>2, <1>3, <1>4

LEMMA ArtifactsStand ==
  ASSUME EvidenceAssumption, material \in Materials
  PROVE  Standing(Artifacts)
<1>1. WellFormed(material)
  BY DEF EvidenceAssumption
<1>2. {"finding", "target"} \subseteq RecordKinds \ {"validation", "remediation_candidate", "patch_validation"}
  BY DEF RecordKinds, NodeTypes
<1>3. \A r \in ValidationRecords : r.path \in Artifacts.present
  <2> TAKE r \in ValidationRecords
  <2>1. validation # NoReport /\ r.path = "validation.json"
    BY DEF ValidationRecords
  <2> QED BY <2>1, ArtifactFacts
<1>4. \A r \in CandidateRecords : r.path \in Artifacts.present
  <2> TAKE r \in CandidateRecords
  <2>1. PICK c \in Range(candidates) :
          r = [id |-> c.id, finding |-> c.finding, path |-> "remediation-candidates.json"]
    BY DEF CandidateRecords
  <2>2. candidates # << >>
    BY <2>1 DEF Range
  <2> QED BY <2>1, <2>2, ArtifactFacts
<1>5. \A r \in PatchRecords : r.path \in Artifacts.present
  <2> TAKE r \in PatchRecords
  <2>1. PICK f \in Findings :
          r \in {[id |-> s.patch, finding |-> f, status |-> s.status, path |-> f] : s \in reports[f]}
    BY DEF PatchRecords
  <2>2. r.path = f /\ reports[f] # {}
    BY <2>1
  <2> QED BY <2>2, ArtifactFacts
<1>6. \A kind \in RecordKinds : \A r \in Artifacts.records[kind] : r.path \in Artifacts.present
  BY <1>1, <1>3, <1>4, <1>5, ArtifactFacts DEF WellFormed
<1>7. WellFormed(Artifacts)
  BY <1>1, <1>2, <1>6, ArtifactFacts DEF WellFormed
<1>8. QueueSummary(Artifacts) = QueueSummary(material)
  BY <1>2, ArtifactFacts DEF QueueSummary
<1> QED BY <1>7, <1>8 DEF Standing, Kept

(* What stood still stands when nothing was taken away. *)
LEMMA StillStanding ==
  ASSUME material' = material,
         InHand => InHand', Drafted => Drafted',
         \A f \in Findings : reports[f] # {} => reports'[f] # {}
  PROVE  \A a : Standing(a) => Standing(a)'
<1>1. ASSUME NEW path, Kept(path) PROVE Kept(path)'
  <2>1. CASE path \in material.present
    <3>1. path \in material'.present
      BY <2>1
    <3> QED BY <3>1 DEF Kept, Artifacts
  <2>2. CASE path = "validation.json" /\ InHand
    BY <2>2 DEF Kept
  <2>3. CASE path = "remediation-candidates.json" /\ Drafted
    BY <2>3 DEF Kept, Artifacts, Drafted
  <2>4. CASE path \in Findings /\ reports[path] # {}
    BY <2>4 DEF Kept, Artifacts
  <2>5. validation # NoReport => InHand
    BY DEF InHand
  <2> QED BY <1>1, <2>1, <2>2, <2>3, <2>4, <2>5, ArtifactFacts DEF Kept, Drafted
<1>2. ASSUME NEW a PROVE /\ WellFormed(a) => WellFormed(a)'
                         /\ QueueSummary(a)' = QueueSummary(a)
                         /\ QueueSummary(material)' = QueueSummary(material)
  BY DEF WellFormed, QueueSummary
<1> QED BY <1>1, <1>2 DEF Standing
LEMMA EvidenceStarts ==
  ASSUME VotingAssumption, EvidenceAssumption, Init
  PROVE  IInv
<1>1. VoteInv
  BY VotingStarts DEF Init
<1>2. PatchInv
  BY PatchesStart DEF Init
<1>3. GraphInv
  BY DEF Init, GraphInv
<1> QED BY <1>1, <1>2, <1>3 DEF IInv

LEMMA EvidencePreserves ==
  ASSUME VotingAssumption, PatchAssumption, EvidenceAssumption, IInv, [Next]_vars
  PROVE  IInv'
<1> USE DEF IInv
(* What a step leaves alone it preserves. *)
<1>1. ASSUME UNCHANGED votingVars PROVE VoteInv' /\ (InHand => InHand')
  BY <1>1 DEF votingVars, VoteInv, VoteTypeOK, Gathering, Sound, ValidationAccepted, InHand, Resting
<1>2. ASSUME UNCHANGED patchVars
      PROVE  /\ PatchInv' /\ (Drafted => Drafted')
             /\ \A f \in Findings : reports[f] # {} => reports'[f] # {}
  BY <1>2 DEF patchVars, PatchInv, Drafted
<1>3. ASSUME material' = material, graph' = graph, loaded' = loaded,
             \A a : Standing(a) => Standing(a)'
      PROVE  GraphInv'
  BY <1>3 DEF GraphInv
<1>4. ASSUME VotingStep, UNCHANGED << patchVars, material, graph, loaded >> PROVE IInv'
  <2>1. VoteInv' /\ (InHand => InHand')
    BY <1>4, VotesPreserve
  <2>2. /\ PatchInv' /\ (Drafted => Drafted')
        /\ \A f \in Findings : reports[f] # {} => reports'[f] # {}
    BY <1>2, <1>4
  <2>3. \A a : Standing(a) => Standing(a)'
    BY <1>4, <2>1, <2>2, StillStanding
  <2> QED BY <1>3, <1>4, <2>1, <2>2, <2>3
<1>5. ASSUME PatchStep, UNCHANGED << votingVars, material, graph, loaded >> PROVE IInv'
  <2>1. VoteInv' /\ (InHand => InHand')
    BY <1>1, <1>5
  <2>2. /\ PatchInv' /\ (Drafted => Drafted')
        /\ \A f \in Findings : reports[f] # {} => reports'[f] # {}
    BY <1>5, PatchesPreserve
  <2>3. \A a : Standing(a) => Standing(a)'
    BY <1>5, <2>1, <2>2, StillStanding
  <2> QED BY <1>3, <1>5, <2>1, <2>2, <2>3
<1>6. ASSUME UNCHANGED << votingVars, patchVars, material >>
      PROVE  VoteInv' /\ PatchInv' /\ \A a : Standing(a) => Standing(a)'
  BY <1>1, <1>2, <1>6, StillStanding
<1>7. ASSUME LoadArtifacts PROVE IInv'
  <2>1. Standing(Artifacts)
    BY ArtifactsStand DEF GraphInv
  <2>2. loaded' = {Artifacts} /\ graph' = graph /\ material' = material
    BY <1>7 DEF LoadArtifacts
  <2>3. VoteInv' /\ PatchInv' /\ \A a : Standing(a) => Standing(a)'
    BY <1>6, <1>7 DEF LoadArtifacts
  <2> QED BY <2>1, <2>2, <2>3 DEF GraphInv
<1>8. ASSUME WriteGraph PROVE IInv'
  <2>1. PICK a \in loaded : graph' = Graph(a)
    BY <1>8 DEF WriteGraph
  <2>2. loaded' = {} /\ material' = material /\ Standing(a)
    BY <1>8 DEF WriteGraph, GraphInv
  <2>3. VoteInv' /\ PatchInv' /\ \A b : Standing(b) => Standing(b)'
    BY <1>6, <1>8 DEF WriteGraph
  <2> QED BY <2>1, <2>2, <2>3 DEF GraphInv
<1>9. CASE UNCHANGED vars
  <2>1. UNCHANGED << votingVars, patchVars, material, graph, loaded >>
    BY <1>9 DEF vars
  <2> QED BY <1>3, <1>6, <2>1
<1> QED BY <1>4, <1>5, <1>7, <1>8, <1>9 DEF Next

LEMMA InvariantAccepts ==
  ASSUME EvidenceAssumption, IInv
  PROVE  EvidenceIsAccepted
<1>1. validation # NoReport /\ validation.votes # << >> => ValidationAccepted(validation)
  BY DEF IInv, VoteInv, Sound
<1>2. ASSUME CandidatesAccepted, NEW f \in Findings, NEW r \in reports[f],
             \E c \in Range(candidates) : c.id = r.patch /\ c.finding = f
      PROVE  ReportAccepted(f, r)
  <2>1. PICK k \in DOMAIN candidates : candidates[k].id = r.patch /\ candidates[k].finding = f
    BY <1>2 DEF Range
  <2>2. patches[r.patch] # NoPatch
    BY <1>2, <2>1 DEF CandidatesAccepted
  <2>3. r.status = "validated" => /\ r.trial.applied /\ r.trial.scope = "bounded"
                                  /\ "failed" \notin {r.trial.build, r.trial.test}
    BY DEF IInv, PatchInv, FinalStatus
  <2> QED BY <2>1, <2>2, <2>3 DEF ReportAccepted
<1>3. ASSUME graph # NoGraph, Resting PROVE GraphAccepted(graph, Artifacts)
  <2>1. PICK a : Standing(a) /\ graph = Graph(a)
    BY <1>3 DEF IInv, GraphInv
  <2>2. GraphAccepted(graph, a)
    BY <2>1, GraphOfArtifactsIsAccepted DEF Standing
  <2>3. a.present \subseteq Artifacts.present
    BY <1>3, <2>1, ArtifactFacts DEF Standing, Kept, InHand
  <2>4. QueueSummary(a) = QueueSummary(Artifacts)
    BY <2>1, ArtifactsStand DEF Standing, IInv, GraphInv
  <2> QED BY <2>2, <2>3, <2>4 DEF GraphAccepted
<1> QED BY <1>1, <1>2, <1>3 DEF EvidenceIsAccepted

(* Whatever the agents write, in whatever order the commands run and wherever *)
(* they are killed: the validator accepts the aggregates, the validations and *)
(* the graph.                                                                 *)
THEOREM WhatIsWrittenIsAccepted == Spec => []EvidenceIsAccepted
<1>1. Init => IInv
  BY VotingAssumption, EvidenceAssumption, EvidenceStarts
<1>2. IInv /\ [Next]_vars => IInv'
  BY VotingAssumption, PatchAssumption, EvidenceAssumption, EvidencePreserves
<1>3. IInv => EvidenceIsAccepted
  BY EvidenceAssumption, InvariantAccepts
<1> QED BY <1>1, <1>2, <1>3, PTL DEF Spec
-----------------------------------------------------------------------------
(* What a validated report says was earned: what each validator has in hand, as long as *)
(* it is alone with its patch.                                                           *)

Dirs == [target : BOOLEAN, applied : SUBSET Texts, used : BOOLEAN]
Working == {"judge", "report"} \cup Trying

Loads == [list : Seq(Candidates), left : SUBSET Nat]
Results == {"not-run", "passed", "failed"}
Trials ==
  [applied : BOOLEAN, scope : {"bounded", "too-broad", "needs-human-review"},
   text : Texts \cup {NoPatch}, build : Results, test : Results]

PatchTypeOK ==
  /\ candidates \in Seq(Candidates)
  /\ patches \in [Patches -> Texts \cup {NoPatch}]
  /\ workspaces \in [Findings \X Patches -> Dirs \cup {NoDir}]
  /\ DOMAIN reports = Findings
  /\ DOMAIN at = Validators \cup Drafters
  /\ todo \in [Validators \cup Drafters -> Loads]
  /\ \A p \in Validators \cup Drafters : todo[p].left \subseteq DOMAIN todo[p].list
  /\ \A p \in Validators : at[p] \in Working => todo[p].left # {}
  /\ trial \in [Validators -> Trials] /\ DOMAIN ran = Validators
  /\ alone \in [Validators -> BOOLEAN]

(* Judged to stay in scope, and nothing done yet. *)
Early(p) ==
  /\ Scope(patches[Current(p).id], Current(p).declared) = "bounded"
  /\ trial[p] = [Untried EXCEPT !.scope = "bounded"] /\ ran[p] = {}

Patched(p) ==
  /\ trial[p].applied /\ Scope(trial[p].text, Current(p).declared) = "bounded"
  /\ Here(p) \in Dirs /\ Here(p).target /\ Here(p).applied = {trial[p].text}
  /\ trial[p].test = "not-run"

Built(p) ==
  /\ \E run \in ran[p] : run.kind = "build"
  /\ \A run \in ran[p] : PassedOn(run, trial[p].text)

TrialInv(p) ==
  /\ at[p] \in {"prepare", "copy", "init", "check", "apply"} => Early(p)
  /\ at[p] = "copy" => Here(p) = NoDir
  /\ at[p] \in {"init", "check", "apply"} => Here(p) = Copy
  /\ at[p] = "build" => Patched(p) /\ ~ Here(p).used /\ ran[p] = {} /\ trial[p].build = "not-run"
  /\ at[p] = "test" => Patched(p) /\ (trial[p].build = "passed" => Built(p))
  /\ (at[p] \in {"dispose", "report"} /\ FinalStatus(trial[p]) = "validated") =>
       Earned(trial[p], Current(p).declared, ran[p])

Trusted(p) == at[p] \in Working /\ alone[p] => TrialInv(p)

EarnInv == PatchTypeOK /\ (\A p \in Validators : Trusted(p)) /\ ValidatedIsEarned

LEMMA LeastOne ==
  ASSUME NEW S \in SUBSET Nat, S # {}
  PROVE  \E m \in S : \A n \in S : m <= n
<1> DEFINE less == {ss \in Nat \X Nat : ss[1] < ss[2]}
<1>1. IsWellFoundedOn(less, Nat)
  BY NatLessThanWellFounded DEF OpToRel
<1>2. PICK m \in S : \A n \in S : << n, m >> \notin less
  BY <1>1, WFMin
<1>3. ASSUME NEW n \in S, ~ (m <= n) PROVE FALSE
  <2>1. << n, m >> \in Nat \X Nat /\ n < m
    BY <1>3
  <2> QED BY <1>2, <2>1
<1> QED BY <1>3

(* Who works has a candidate to work on. *)
LEMMA CurrentIsCandidate ==
  ASSUME PatchTypeOK, NEW p \in Validators, at[p] \in Working
  PROVE  /\ First(p) \in todo[p].left
         /\ Current(p) \in Candidates /\ Place(Current(p)) \in Findings \X Patches
         /\ Current(p).finding \in Findings
<1> DEFINE left == todo[p].left
           list == todo[p].list
<1>1. left # {} /\ list \in Seq(Candidates) /\ left \subseteq DOMAIN list
  BY DEF PatchTypeOK, Loads
<1>2. left \in SUBSET Nat
  BY <1>1
<1>3. \E k \in left : \A l \in left : k <= l
  BY <1>1, <1>2, LeastOne
<1>4. First(p) \in left
  BY <1>3 DEF First
<1>5. Current(p) \in Candidates
  <2>1. list[First(p)] \in Candidates
    BY <1>1, <1>4
  <2> QED BY <2>1 DEF Current
<1> QED BY <1>4, <1>5 DEF Place, Candidates

(* What another process may do beside p. *)
Beside(p) ==
  /\ at'[p] = at[p] /\ todo'[p] = todo[p] /\ trial'[p] = trial[p] /\ ran'[p] = ran[p]
  /\ alone'[p] => alone[p]
  /\ alone'[p] /\ at[p] \in Trying => /\ workspaces'[Place(Current(p))] = Here(p)
                                      /\ patches'[Current(p).id] = patches[Current(p).id]

LEMMA StaysTrusted ==
  ASSUME NEW p, Trusted(p), Beside(p)
  PROVE  Trusted(p)'
<1>1. Current(p)' = Current(p)
  BY DEF Beside, Current, First
<1>2. ASSUME at[p] \in Working, alone'[p] PROVE TrialInv(p)'
  <2>1. TrialInv(p) /\ at'[p] = at[p] /\ trial'[p] = trial[p] /\ ran'[p] = ran[p]
    BY <1>2 DEF Beside, Trusted
  <2>2. CASE at[p] \in Trying
    <3>1. Here(p)' = Here(p) /\ patches'[Current(p).id] = patches[Current(p).id]
      BY <1>1, <1>2, <2>2 DEF Beside, Here
    <3> QED BY <1>1, <2>1, <3>1 DEF TrialInv, Early, Patched, Built
  <2>3. CASE at[p] \notin Trying
    BY <1>1, <2>1, <2>3 DEF TrialInv, Trying
  <2> QED BY <2>2, <2>3
<1> QED BY <1>2 DEF Trusted, Beside

LEMMA PatchingStarts == PatchAssumption /\ PatchInit => EarnInv
<1> SUFFICES ASSUME PatchAssumption, PatchInit PROVE EarnInv
  OBVIOUS
<1>1. candidates \in Seq(Candidates) /\ patches \in [Patches -> Texts \cup {NoPatch}]
  <2>1. CASE candidates = << >> /\ patches = [c \in Patches |-> NoPatch]
    BY <2>1
  <2>2. ASSUME NEW draft \in Drafts, candidates = draft.candidates, patches = draft.patches
        PROVE  candidates \in Seq(Candidates) /\ patches \in [Patches -> Texts \cup {NoPatch}]
    BY <2>2 DEF PatchAssumption
  <2> QED BY <2>1, <2>2 DEF PatchInit
<1>2. /\ todo \in [Validators \cup Drafters -> Loads]
      /\ \A p \in Validators \cup Drafters : todo[p].left \subseteq DOMAIN todo[p].list
  <2>1. NoWork \in Loads /\ NoWork.left = {}
    <3>1. << >> \in Seq(Candidates)
      OBVIOUS
    <3> QED BY <3>1 DEF NoWork, Loads
  <2> QED BY <2>1 DEF PatchInit
<1>3. \A p \in Validators : at[p] \notin Working
  BY DEF PatchInit, Working, Trying
<1>4. trial \in [Validators -> Trials] /\ DOMAIN ran = Validators /\ alone \in [Validators -> BOOLEAN]
  <2>1. Untried \in Trials
    BY DEF Untried, Trials, Results
  <2> QED BY <2>1 DEF PatchInit
<1>5. /\ workspaces \in [Findings \X Patches -> Dirs \cup {NoDir}] /\ DOMAIN reports = Findings
      /\ DOMAIN at = Validators \cup Drafters
  BY DEF PatchInit
<1>6. PatchTypeOK
  BY <1>1, <1>2, <1>3, <1>4, <1>5 DEF PatchTypeOK
<1>7. \A p \in Validators : Trusted(p)
  BY <1>3 DEF Trusted
<1>8. ValidatedIsEarned
  BY DEF PatchInit, ValidatedIsEarned
<1> QED BY <1>6, <1>7, <1>8 DEF EarnInv

LEMMA DirFacts ==
  ASSUME PatchAssumption
  PROVE  /\ Copy \in Dirs /\ Bare \in Dirs /\ NoDir \notin Dirs
         /\ \A dir \in Dirs : Entered(dir) = dir
         /\ \A dir \in Dirs \cup {NoDir} : Entered(dir) \in Dirs
<1>1. Copy \in Dirs /\ Bare \in Dirs
  BY DEF Copy, Bare, Dirs
<1>2. NoDir \notin Dirs
  BY DEF PatchAssumption, Dirs
<1> QED BY <1>1, <1>2 DEF Entered

LEMMA LeavingIsBeside ==
  ASSUME PatchTypeOK, NEW q \in Validators, NEW p \in Validators \ {q}, NEW X, Leave(q, X),
         at'[p] = at[p], todo'[p] = todo[p], trial'[p] = trial[p], ran'[p] = ran[p],
         patches' = patches
  PROVE  Beside(p)
<1>1. alone'[p] => alone[p] /\ p \notin Sharing(q)
  BY DEF Leave
<1>2. ASSUME alone'[p], at[p] \in Trying PROVE workspaces'[Place(Current(p))] = Here(p)
  <2>1. Place(Current(p)) \in Findings \X Patches
    BY <1>2, CurrentIsCandidate DEF Working
  <2>2. Place(Current(p)) # Place(Current(q))
    BY <1>1, <1>2 DEF Sharing
  <2>3. DOMAIN workspaces = Findings \X Patches
    BY DEF PatchTypeOK
  <2> DEFINE here == Place(Current(p))
             there == Place(Current(q))
  <2>4. workspaces' = [workspaces EXCEPT ![there] = X]
    BY DEF Leave
  <2> HIDE DEF here, there
  <2>5. workspaces'[here] = workspaces[here]
    BY <2>1, <2>2, <2>3, <2>4 DEF here, there
  <2> QED BY <2>5 DEF here, Here
<1> QED BY <1>1, <1>2 DEF Beside

(* A step of a validator that works and goes on. *)
LEMMA TypesKept ==
  ASSUME PatchTypeOK, NEW q \in Validators, NEW x, at[q] \in Working,
         at' = [at EXCEPT ![q] = x],
         UNCHANGED << candidates, patches, reports, todo >>,
         workspaces' \in [Findings \X Patches -> Dirs \cup {NoDir}],
         trial' \in [Validators -> Trials], DOMAIN ran' = Validators,
         alone' \in [Validators -> BOOLEAN]
  PROVE  PatchTypeOK'
<1>1. \A p \in Validators : at'[p] \in Working => at[p] \in Working
  BY DEF PatchTypeOK
<1>2. DOMAIN at' = Validators \cup Drafters
  BY DEF PatchTypeOK
<1> QED BY <1>1, <1>2 DEF PatchTypeOK

LEMMA LeavingIsTyped ==
  ASSUME PatchTypeOK, NEW q \in Validators, NEW X \in Dirs \cup {NoDir}, Leave(q, X),
         at[q] \in Working
  PROVE  /\ workspaces' \in [Findings \X Patches -> Dirs \cup {NoDir}]
         /\ alone' \in [Validators -> BOOLEAN] /\ alone'[q] = alone[q]
         /\ workspaces'[Place(Current(q))] = X
<1> DEFINE here == Place(Current(q))
<1>1. here \in Findings \X Patches
  BY CurrentIsCandidate
<1>2. workspaces' = [workspaces EXCEPT ![here] = X]
  BY DEF Leave
<1>3. /\ alone' = [p \in Validators |-> alone[p] /\ p \notin Sharing(q)] /\ q \notin Sharing(q)
      /\ alone \in [Validators -> BOOLEAN]
  BY DEF Leave, Sharing, PatchTypeOK
<1> HIDE DEF here
<1>4. workspaces' \in [Findings \X Patches -> Dirs \cup {NoDir}] /\ workspaces'[here] = X
  BY <1>1, <1>2 DEF PatchTypeOK
<1>5. alone'[q] = alone[q]
  BY <1>3, Zenon
<1>6. alone' \in [Validators -> BOOLEAN]
  BY <1>3
<1> QED BY <1>4, <1>5, <1>6 DEF here

(* What a step of q leaves of the invariant. *)
Held(q) == PatchTypeOK' /\ Trusted(q)' /\ \A p \in Validators \ {q} : Beside(p)

(* A step of q that changes no file; the others notice nothing. *)
LEMMA QuietIsBeside ==
  ASSUME PatchTypeOK, NEW q \in Validators, NEW p \in Validators \ {q}, NEW x,
         at' = [at EXCEPT ![q] = x],
         todo'[p] = todo[p], trial'[p] = trial[p], ran'[p] = ran[p], alone'[p] = alone[p],
         UNCHANGED << patches, workspaces >>
  PROVE  Beside(p)
<1>1. at'[p] = at[p]
  BY DEF PatchTypeOK
<1> QED BY <1>1 DEF Beside, Here

LEMMA StartingHolds ==
  ASSUME PatchAssumption, PatchTypeOK, NEW q \in Validators, StartValidation(q)
  PROVE  Held(q)
<1> DEFINE tried == Selected(q) \subseteq Findings /\ Matching(q) # {}
           work == IF tried THEN [list |-> candidates, left |-> Matching(q)] ELSE NoWork
           x == IF tried THEN "judge" ELSE "done"
<1>1. /\ at' = [at EXCEPT ![q] = x] /\ todo' = [todo EXCEPT ![q] = work]
      /\ UNCHANGED << candidates, patches, workspaces, reports, trial, ran, alone >>
  BY DEF StartValidation, Moves
<1>2. work \in Loads /\ work.left \subseteq DOMAIN work.list /\ (x = "judge" => work.left # {})
  <2>1. << >> \in Seq(Candidates) /\ candidates \in Seq(Candidates)
    BY DEF PatchTypeOK
  <2>2. Matching(q) \subseteq DOMAIN candidates /\ Matching(q) \in SUBSET Nat
    BY <2>1 DEF Matching
  <2> QED BY <2>1, <2>2 DEF NoWork, Loads
<1>3. x \in {"judge", "done"}
  OBVIOUS
<1> HIDE DEF work, x
<1>4. PatchTypeOK'
  <2>1. /\ DOMAIN at' = Validators \cup Drafters
        /\ todo' \in [Validators \cup Drafters -> Loads]
    BY <1>1, <1>2 DEF PatchTypeOK
  <2>2. \A p \in Validators \cup Drafters : todo'[p].left \subseteq DOMAIN todo'[p].list
    BY <1>1, <1>2 DEF PatchTypeOK
  <2>3. \A p \in Validators : at'[p] \in Working => todo'[p].left # {}
    BY <1>1, <1>2, <1>3 DEF PatchTypeOK, Working, Trying
  <2> QED BY <1>1, <2>1, <2>2, <2>3 DEF PatchTypeOK
<1>5. Trusted(q)'
  <2>1. at'[q] \in {"judge", "done"}
    BY <1>1, <1>3 DEF PatchTypeOK
  <2> QED BY <2>1 DEF Trusted, TrialInv
<1>6. ASSUME NEW p \in Validators \ {q} PROVE Beside(p)
  <2>1. todo'[p] = todo[p]
    BY <1>1 DEF PatchTypeOK
  <2> QED BY <1>1, <2>1, QuietIsBeside
<1> QED BY <1>4, <1>5, <1>6 DEF Held

LEMMA JudgingHolds ==
  ASSUME PatchAssumption, PatchTypeOK, NEW q \in Validators, Judge(q)
  PROVE  Held(q)
<1> DEFINE text == patches[Current(q).id]
           scope == Scope(text, Current(q).declared)
<1>1. PICK x, t :
        /\ at' = [at EXCEPT ![q] = x] /\ trial' = [trial EXCEPT ![q] = t]
        /\ \/ x = "dispose" /\ t = Untried
           \/ /\ x = IF scope = "bounded" THEN "prepare" ELSE "dispose"
              /\ t = [Untried EXCEPT !.scope = scope]
  BY DEF Judge, Moves
<1>2. /\ at[q] = "judge" /\ ran' = [ran EXCEPT ![q] = {}] /\ alone' = [alone EXCEPT ![q] = TRUE]
      /\ UNCHANGED << candidates, patches, workspaces, reports, todo >>
  BY DEF Judge, Moves
<1>3. scope \in {"bounded", "too-broad", "needs-human-review"}
  BY DEF Scope
<1>4. /\ t \in Trials /\ ~ t.applied /\ x \in {"prepare", "dispose"}
      /\ x = "prepare" => scope = "bounded" /\ t = [Untried EXCEPT !.scope = "bounded"]
  <2> HIDE DEF scope
  <2>1. Untried \in Trials /\ ~ Untried.applied
    BY DEF Trials, Results, Untried
  <2>2. [Untried EXCEPT !.scope = scope] \in Trials /\ ~ [Untried EXCEPT !.scope = scope].applied
    BY <1>3 DEF Trials, Results, Untried
  <2>3. t \in Trials /\ ~ t.applied
    BY <1>1, <2>1, <2>2
  <2>4. x \in {"prepare", "dispose"}
    BY <1>1
  <2>5. x = "prepare" => scope = "bounded" /\ t = [Untried EXCEPT !.scope = "bounded"]
    BY <1>1
  <2> QED BY <2>3, <2>4, <2>5
<1>5. /\ at'[q] = x /\ trial'[q] = t /\ ran'[q] = {}
      /\ trial' \in [Validators -> Trials] /\ DOMAIN ran' = Validators
      /\ alone' \in [Validators -> BOOLEAN]
  BY <1>1, <1>2, <1>4 DEF PatchTypeOK
<1>6. PatchTypeOK'
  <2>1. at[q] \in Working
    BY <1>2 DEF Working
  <2>2. workspaces' \in [Findings \X Patches -> Dirs \cup {NoDir}]
    BY <1>2 DEF PatchTypeOK
  <2> QED BY <1>1, <1>2, <1>5, <2>1, <2>2, TypesKept
<1>7. Trusted(q)'
  <2>1. Current(q)' = Current(q)
    BY <1>2 DEF Current, First
  <2>2. CASE x = "dispose"
    <3>1. FinalStatus(trial[q])' # "validated"
      BY <1>4, <1>5 DEF FinalStatus
    <3> QED BY <1>5, <2>2, <3>1 DEF Trusted, TrialInv
  <2>3. CASE x = "prepare"
    <3>1. Early(q)'
      BY <1>2, <1>4, <1>5, <2>1, <2>3 DEF Early, Untried
    <3> QED BY <1>5, <2>3, <3>1 DEF Trusted, TrialInv
  <2> QED BY <1>4, <2>2, <2>3
<1>8. ASSUME NEW p \in Validators \ {q} PROVE Beside(p)
  <2>1. trial'[p] = trial[p] /\ ran'[p] = ran[p] /\ alone'[p] = alone[p] /\ todo'[p] = todo[p]
    BY <1>1, <1>2 DEF PatchTypeOK
  <2> QED BY <1>1, <1>2, <2>1, QuietIsBeside
<1> QED BY <1>6, <1>7, <1>8 DEF Held

(* What a step of q does to its own trial, and to nobody else's. *)
Tries(q, x) ==
  /\ at[q] \in Working /\ at' = [at EXCEPT ![q] = x]
  /\ trial' \in [Validators -> Trials] /\ DOMAIN ran' = Validators
  /\ \A p \in Validators \ {q} : trial'[p] = trial[p] /\ ran'[p] = ran[p]
  /\ UNCHANGED << candidates, patches, reports, todo >>

LEMMA LeavingHolds ==
  ASSUME PatchTypeOK, NEW q \in Validators, NEW x, NEW X \in Dirs \cup {NoDir},
         Tries(q, x), Leave(q, X), Trusted(q)'
  PROVE  Held(q)
<1>1. PatchTypeOK'
  BY LeavingIsTyped, TypesKept DEF Tries
<1>2. ASSUME NEW p \in Validators \ {q} PROVE Beside(p)
  <2>1. at'[p] = at[p] /\ trial'[p] = trial[p] /\ ran'[p] = ran[p] /\ todo'[p] = todo[p]
        /\ patches' = patches
    BY DEF Tries, PatchTypeOK
  <2> QED BY <2>1, LeavingIsBeside
<1> QED BY <1>1, <1>2 DEF Held

LEMMA LeavingShows ==
  ASSUME PatchTypeOK, NEW q \in Validators, NEW x, NEW X \in Dirs \cup {NoDir},
         Tries(q, x), Leave(q, X)
  PROVE  /\ at'[q] = x /\ alone'[q] = alone[q] /\ Here(q)' = X /\ Current(q)' = Current(q)
         /\ patches' = patches
<1>1. at'[q] = x /\ Current(q)' = Current(q) /\ patches' = patches /\ at[q] \in Working
  BY DEF Tries, PatchTypeOK, Current, First
<1>2. alone'[q] = alone[q] /\ workspaces'[Place(Current(q))] = X
  BY <1>1, LeavingIsTyped
<1> QED BY <1>1, <1>2 DEF Here, Place

LEMMA QuietHolds ==
  ASSUME PatchTypeOK, NEW q \in Validators, NEW x, Tries(q, x),
         UNCHANGED << workspaces, alone >>, Trusted(q)'
  PROVE  Held(q)
<1>1. PatchTypeOK'
  <2>1. workspaces' \in [Findings \X Patches -> Dirs \cup {NoDir}] /\ alone' \in [Validators -> BOOLEAN]
    BY DEF PatchTypeOK
  <2> QED BY <2>1, TypesKept DEF Tries
<1>2. ASSUME NEW p \in Validators \ {q} PROVE Beside(p)
  <2>1. todo'[p] = todo[p] /\ trial'[p] = trial[p] /\ ran'[p] = ran[p] /\ alone'[p] = alone[p]
        /\ UNCHANGED << patches, workspaces >> /\ at' = [at EXCEPT ![q] = x]
    BY DEF Tries
  <2> QED BY <2>1, QuietIsBeside
<1> QED BY <1>1, <1>2 DEF Held

LEMMA QuietShows ==
  ASSUME PatchTypeOK, NEW q \in Validators, NEW x, Tries(q, x),
         UNCHANGED << workspaces, alone >>
  PROVE  /\ at'[q] = x /\ alone'[q] = alone[q] /\ Here(q)' = Here(q) /\ Current(q)' = Current(q)
         /\ patches' = patches
<1>1. at'[q] = x /\ Current(q)' = Current(q) /\ patches' = patches
  BY DEF Tries, PatchTypeOK, Current, First
<1> QED BY <1>1 DEF Here, Place

(* A step that leaves the trial as it is. *)
LEMMA UntouchedTrial ==
  ASSUME PatchTypeOK, NEW q \in Validators, NEW x, at[q] \in Working,
         at' = [at EXCEPT ![q] = x],
         UNCHANGED << candidates, patches, reports, todo, trial, ran >>
  PROVE  Tries(q, x)
BY DEF Tries, PatchTypeOK

(* A trial that ended before the patch was applied is a failure. *)
LEMMA UnappliedFails ==
  ASSUME NEW q, Early(q)
  PROVE  FinalStatus(trial[q]) # "validated"
BY DEF Early, Untried, FinalStatus

LEMMA FailingHolds ==
  ASSUME PatchTypeOK, NEW q \in Validators, Trusted(q), StepFails(q)
  PROVE  Held(q)
<1>1. PICK x : x = "dispose" /\ at' = [at EXCEPT ![q] = x]
  BY DEF StepFails
<1>2. at[q] \in {"prepare", "init", "check", "apply"} /\ at[q] \in Working
  BY DEF StepFails, Working, Trying
<1>3. UNCHANGED << candidates, patches, workspaces, reports, todo, trial, ran, alone >>
  BY DEF StepFails
<1>4. Tries(q, x)
  BY <1>1, <1>2, <1>3, UntouchedTrial
<1>5. /\ at'[q] = x /\ alone'[q] = alone[q] /\ Here(q)' = Here(q) /\ Current(q)' = Current(q)
      /\ patches' = patches
  BY <1>3, <1>4, QuietShows
<1>6. Trusted(q)'
  <2>1. ASSUME alone[q] PROVE FinalStatus(trial'[q]) # "validated"
    <3>1. Early(q)
      BY <1>2, <2>1 DEF Trusted, TrialInv
    <3> QED BY <1>3, <3>1, UnappliedFails
  <2> QED BY <1>1, <1>5, <2>1 DEF Trusted, TrialInv
<1> QED BY <1>3, <1>4, <1>6, QuietHolds

LEMMA PreparingHolds ==
  ASSUME PatchAssumption, PatchTypeOK, NEW q \in Validators, Trusted(q), Prepare(q)
  PROVE  Held(q)
<1>1. PICK x, X :
        x = "copy" /\ X = NoDir /\ X \in Dirs \cup {NoDir} /\ at' = [at EXCEPT ![q] = x] /\ Leave(q, X)
  BY DEF Prepare, Moves
<1>2. at[q] = "prepare" /\ at[q] \in Working
  BY DEF Prepare, Moves, Working, Trying
<1>3. UNCHANGED << candidates, patches, reports, todo, trial, ran >>
  BY DEF Prepare
<1>4. Tries(q, x)
  BY <1>1, <1>2, <1>3, UntouchedTrial
<1>5. /\ at'[q] = x /\ alone'[q] = alone[q] /\ Here(q)' = X /\ Current(q)' = Current(q)
      /\ patches' = patches
  BY <1>1, <1>4, LeavingShows
<1>6. Trusted(q)'
  <2>1. ASSUME alone[q] PROVE Early(q)'
    <3>1. Early(q)
      BY <1>2, <2>1 DEF Trusted, TrialInv
    <3> QED BY <1>3, <1>5, <3>1 DEF Early
  <2> QED BY <1>1, <1>5, <2>1 DEF Trusted, TrialInv
<1> QED BY <1>1, <1>4, <1>6, LeavingHolds

LEMMA CopyingHolds ==
  ASSUME PatchAssumption, PatchTypeOK, NEW q \in Validators, Trusted(q), MakeCopy(q)
  PROVE  Held(q)
<1>1. PICK x, X :
        /\ x = IF Here(q) = NoDir THEN "init" ELSE "dispose"
        /\ X = IF Here(q) = NoDir THEN Copy ELSE Here(q)
        /\ at' = [at EXCEPT ![q] = x] /\ Leave(q, X)
  BY DEF MakeCopy, Moves
<1>2. at[q] = "copy" /\ at[q] \in Working
  BY DEF MakeCopy, Moves, Working, Trying
<1>3. UNCHANGED << candidates, patches, reports, todo, trial, ran >>
  BY DEF MakeCopy
<1>4. X \in Dirs \cup {NoDir}
  <2>1. Here(q) \in Dirs \cup {NoDir}
    BY <1>2, CurrentIsCandidate DEF PatchTypeOK, Here
  <2> QED BY <1>1, <2>1, DirFacts
<1>5. Tries(q, x)
  BY <1>1, <1>2, <1>3, UntouchedTrial
<1>6. /\ at'[q] = x /\ alone'[q] = alone[q] /\ Here(q)' = X /\ Current(q)' = Current(q)
      /\ patches' = patches
  BY <1>1, <1>4, <1>5, LeavingShows
<1>7. Trusted(q)'
  <2>1. ASSUME alone[q] PROVE Early(q)' /\ x = "init" /\ X = Copy
    <3>1. Early(q) /\ Here(q) = NoDir
      BY <1>2, <2>1 DEF Trusted, TrialInv
    <3> QED BY <1>1, <1>3, <1>6, <3>1 DEF Early
  <2> QED BY <1>6, <2>1 DEF Trusted, TrialInv
<1> QED BY <1>1, <1>4, <1>5, <1>7, LeavingHolds

LEMMA InitialisingHolds ==
  ASSUME PatchAssumption, PatchTypeOK, NEW q \in Validators, Trusted(q), InitGit(q)
  PROVE  Held(q)
<1>1. PICK x, X :
        x = "check" /\ X = Entered(Here(q)) /\ at' = [at EXCEPT ![q] = x] /\ Leave(q, X)
  BY DEF InitGit, Moves
<1>2. at[q] = "init" /\ at[q] \in Working
  BY DEF InitGit, Moves, Working, Trying
<1>3. UNCHANGED << candidates, patches, reports, todo, trial, ran >>
  BY DEF InitGit
<1>4. X \in Dirs \cup {NoDir}
  <2>1. Here(q) \in Dirs \cup {NoDir}
    BY <1>2, CurrentIsCandidate DEF PatchTypeOK, Here
  <2> QED BY <1>1, <2>1, DirFacts
<1>5. Tries(q, x)
  BY <1>1, <1>2, <1>3, UntouchedTrial
<1>6. /\ at'[q] = x /\ alone'[q] = alone[q] /\ Here(q)' = X /\ Current(q)' = Current(q)
      /\ patches' = patches
  BY <1>1, <1>4, <1>5, LeavingShows
<1>7. Trusted(q)'
  <2>1. ASSUME alone[q] PROVE Early(q)' /\ X = Copy
    <3>1. Early(q) /\ Here(q) = Copy
      BY <1>2, <2>1 DEF Trusted, TrialInv
    <3> QED BY <1>1, <1>3, <1>6, <3>1, DirFacts DEF Early
  <2> QED BY <1>1, <1>6, <2>1 DEF Trusted, TrialInv
<1> QED BY <1>1, <1>4, <1>5, <1>7, LeavingHolds

LEMMA CheckingHolds ==
  ASSUME PatchTypeOK, NEW q \in Validators, Trusted(q), CheckPatch(q)
  PROVE  Held(q)
<1>1. PICK x : x \in {"apply", "dispose"} /\ at' = [at EXCEPT ![q] = x]
  <2>1. at' = [at EXCEPT ![q] = IF Applies(q) THEN "apply" ELSE "dispose"]
    BY DEF CheckPatch, Moves
  <2>2. CASE Applies(q)
    BY <2>1, <2>2
  <2>3. CASE ~ Applies(q)
    BY <2>1, <2>3
  <2> QED BY <2>2, <2>3
<1>2. at[q] = "check" /\ at[q] \in Working
  BY DEF CheckPatch, Moves, Working, Trying
<1>3. UNCHANGED << candidates, patches, workspaces, reports, todo, trial, ran, alone >>
  BY DEF CheckPatch
<1>4. Tries(q, x)
  BY <1>1, <1>2, <1>3, UntouchedTrial
<1>5. /\ at'[q] = x /\ alone'[q] = alone[q] /\ Here(q)' = Here(q) /\ Current(q)' = Current(q)
      /\ patches' = patches
  BY <1>3, <1>4, QuietShows
<1>6. Trusted(q)'
  <2>1. ASSUME alone[q] PROVE /\ Early(q)' /\ Here(q)' = Copy
                              /\ FinalStatus(trial'[q]) # "validated"
    <3>1. Early(q) /\ Here(q) = Copy
      BY <1>2, <2>1 DEF Trusted, TrialInv
    <3> QED BY <1>3, <1>5, <3>1, UnappliedFails DEF Early
  <2> QED BY <1>1, <1>5, <2>1 DEF Trusted, TrialInv
<1> QED BY <1>3, <1>4, <1>6, QuietHolds

LEMMA ApplyingHolds ==
  ASSUME PatchAssumption, PatchTypeOK, NEW q \in Validators, Trusted(q), ApplyPatch(q)
  PROVE  Held(q)
<1> DEFINE text == patches[Current(q).id]
<1>1. at[q] = "apply" /\ at[q] \in Working
  BY DEF ApplyPatch, Working, Trying
<1>2. UNCHANGED << candidates, patches, reports, todo, ran >>
  BY DEF ApplyPatch
<1>3. ASSUME alone[q] PROVE Early(q) /\ Here(q) = Copy
  BY <1>1, <1>3 DEF Trusted, TrialInv
<1>4. CASE ~ Applies(q)
  <2>1. PICK x : x = "dispose" /\ at' = [at EXCEPT ![q] = x]
    BY <1>4 DEF ApplyPatch, Moves
  <2>2. UNCHANGED << workspaces, alone, trial >>
    BY <1>4 DEF ApplyPatch
  <2>3. Tries(q, x)
    BY <1>1, <1>2, <2>1, <2>2, UntouchedTrial
  <2>4. at'[q] = x /\ alone'[q] = alone[q]
    BY <2>2, <2>3, QuietShows
  <2>5. Trusted(q)'
    <3>1. ASSUME alone[q] PROVE FinalStatus(trial'[q]) # "validated"
      BY <1>3, <2>2, <3>1, UnappliedFails
    <3> QED BY <2>1, <2>4, <3>1 DEF Trusted, TrialInv
  <2> QED BY <2>2, <2>3, <2>5, QuietHolds
<1>5. CASE Applies(q)
  <2>1. PICK x, X, t :
          /\ x = "build" /\ at' = [at EXCEPT ![q] = x]
          /\ X = [Here(q) EXCEPT !.applied = @ \cup {text}] /\ Leave(q, X)
          /\ t = [trial[q] EXCEPT !.applied = TRUE, !.text = text]
          /\ trial' = [trial EXCEPT ![q] = t]
    <3> DEFINE copy == [Here(q) EXCEPT !.applied = @ \cup {text}]
               tried == [trial[q] EXCEPT !.applied = TRUE, !.text = text]
    <3>1. at' = [at EXCEPT ![q] = "build"] /\ Leave(q, copy)
      BY <1>5 DEF ApplyPatch, Moves
    <3>2. trial' = [trial EXCEPT ![q].applied = TRUE, ![q].text = text]
      BY <1>5 DEF ApplyPatch
    <3>3. q \in DOMAIN trial
      BY DEF PatchTypeOK
    <3>4. trial' = [trial EXCEPT ![q] = tried]
      <4> HIDE DEF text
      <4> QED BY <3>2, <3>3
    <3> HIDE DEF copy, tried
    <3> QED BY <3>1, <3>4 DEF copy, tried
  <2>2. text \in Texts /\ Here(q) \in Dirs /\ Here(q).target
    <3>1. Here(q) \in Dirs \cup {NoDir}
      BY <1>1, CurrentIsCandidate DEF PatchTypeOK, Here
    <3> QED BY <1>5, <3>1 DEF Applies, PatchAssumption
  <2> HIDE DEF text
  <2>3. X \in Dirs \cup {NoDir} /\ X \in Dirs
    BY <2>1, <2>2 DEF Dirs
  <2>4. t \in Trials /\ t.applied /\ t.text = text /\ t.build = trial[q].build /\ t.test = trial[q].test
    <3>1. trial[q] \in Trials
      BY DEF PatchTypeOK
    <3> QED BY <2>1, <2>2, <3>1 DEF Trials
  <2>5. Tries(q, x) /\ trial'[q] = t
    BY <1>1, <1>2, <2>1, <2>4 DEF Tries, PatchTypeOK
  <2>6. /\ at'[q] = x /\ alone'[q] = alone[q] /\ Here(q)' = X /\ Current(q)' = Current(q)
        /\ patches' = patches
    BY <2>1, <2>3, <2>5, LeavingShows
  <2>7. Trusted(q)'
    <3>1. ASSUME alone[q]
          PROVE  Patched(q)' /\ ~ Here(q)'.used /\ ran'[q] = {} /\ trial'[q].build = "not-run"
      <4>1. /\ Scope(text, Current(q).declared) = "bounded" /\ ran[q] = {}
            /\ trial[q].build = "not-run" /\ trial[q].test = "not-run"
        BY <1>3, <3>1 DEF Early, Untried, text
      <4>2. X.target /\ ~ X.used /\ X.applied = {text}
        BY <1>3, <2>1, <3>1 DEF Copy
      <4> QED BY <1>2, <2>3, <2>4, <2>5, <2>6, <4>1, <4>2 DEF Patched
    <3> QED BY <2>1, <2>6, <3>1 DEF Trusted, TrialInv
  <2> QED BY <2>1, <2>3, <2>5, <2>7, LeavingHolds
<1> QED BY <1>4, <1>5

(* What becomes of a trial when a kind of commands has ended. *)
Notes(t, kind, v, u) == u = [t EXCEPT ![kind] = v]

LEMMA KindNoted ==
  ASSUME NEW t \in Trials, NEW kind \in Kinds, NEW v \in Results, NEW u, Notes(t, kind, v, u)
  PROVE  /\ u \in Trials /\ u[kind] = v /\ (\A other \in Kinds \ {kind} : u[other] = t[other])
         /\ u.applied = t.applied /\ u.scope = t.scope /\ u.text = t.text
BY DEF Trials, Kinds, Notes

LEMMA IdlingHolds ==
  ASSUME PatchAssumption, PatchTypeOK, NEW q \in Validators, Trusted(q),
         NothingRuns(q, "build", "test") \/ NothingRuns(q, "test", "dispose")
  PROVE  Held(q)
<1>1. PICK kind, x :
        /\ kind \in Kinds
        /\ (kind = "build" /\ x = "test") \/ (kind = "test" /\ x = "dispose")
        /\ NothingRuns(q, kind, x)
  BY DEF Kinds
<1>2. /\ at[q] = kind /\ at[q] \in Working /\ at' = [at EXCEPT ![q] = x]
      /\ UNCHANGED << candidates, patches, workspaces, reports, todo, ran, alone >>
  BY <1>1 DEF NothingRuns, Moves, Working, Trying
<1>3. PICK t : /\ t \in Trials /\ trial' \in [Validators -> Trials] /\ trial'[q] = t
               /\ \A p \in Validators \ {q} : trial'[p] = trial[p]
               /\ t.applied = trial[q].applied /\ t.text = trial[q].text
               /\ t[kind] \in {trial[q][kind], "failed"}
               /\ \A other \in Kinds \ {kind} : t[other] = trial[q][other]
  <2>1. trial[q] \in Trials
    BY DEF PatchTypeOK
  <2>2. CASE UNCHANGED trial
    BY <2>1, <2>2 DEF PatchTypeOK
  <2>3. CASE trial' = [trial EXCEPT ![q][kind] = "failed"]
    <3>1. PICK old, v, t : old = trial[q] /\ v = "failed" /\ Notes(old, kind, v, t)
      BY DEF Notes
    <3>2. trial' = [trial EXCEPT ![q] = t]
      BY <2>3, <3>1 DEF Notes
    <3>3. v \in Results /\ kind \in Kinds /\ old \in Trials
      BY <1>1, <2>1, <3>1 DEF Results
    <3>4. /\ t \in Trials /\ t[kind] = v /\ (\A other \in Kinds \ {kind} : t[other] = old[other])
          /\ t.applied = old.applied /\ t.text = old.text
      BY <3>1, <3>3, KindNoted
    <3>5. /\ trial' \in [Validators -> Trials] /\ trial'[q] = t
          /\ \A p \in Validators \ {q} : trial'[p] = trial[p]
      BY <3>2, <3>4 DEF PatchTypeOK
    <3> QED BY <3>1, <3>4, <3>5
  <2> QED BY <1>1, <2>2, <2>3 DEF NothingRuns
<1>4. Tries(q, x)
  BY <1>2, <1>3 DEF Tries, PatchTypeOK
<1>5. /\ at'[q] = x /\ alone'[q] = alone[q] /\ Here(q)' = Here(q) /\ Current(q)' = Current(q)
      /\ patches' = patches
  BY <1>2, <1>4, QuietShows
<1>6. Trusted(q)'
  <2>1. CASE kind = "build" /\ x = "test"
    <3>1. ASSUME alone[q] PROVE Patched(q)' /\ trial'[q].build # "passed"
      <4>1. Patched(q) /\ trial[q].build = "not-run"
        BY <1>2, <2>1, <3>1 DEF Trusted, TrialInv
      <4>2. t.build # "passed" /\ t.test = trial[q].test
        BY <1>3, <2>1, <4>1 DEF Kinds
      <4> QED BY <1>3, <1>5, <4>1, <4>2 DEF Patched
    <3> QED BY <1>5, <2>1, <3>1 DEF Trusted, TrialInv
  <2>2. CASE kind = "test" /\ x = "dispose"
    <3>1. ASSUME alone[q] PROVE FinalStatus(trial'[q]) # "validated"
      <4>1. trial[q].test = "not-run"
        BY <1>2, <2>2, <3>1 DEF Trusted, TrialInv, Patched
      <4>2. t.test \in {"not-run", "failed"}
        BY <1>3, <2>2, <4>1
      <4> QED BY <1>3, <4>2 DEF FinalStatus
    <3> QED BY <1>5, <2>2, <3>1 DEF Trusted, TrialInv
  <2> QED BY <1>1, <2>1, <2>2
<1> QED BY <1>2, <1>4, <1>6, QuietHolds

(* The commands of a kind ran in the workspace, with this outcome. *)
Ran(q, kind, x, outcome, run) ==
  /\ outcome \in {"passed", "failed", "timeout"}
  /\ run = [kind |-> kind, on |-> Entered(Here(q)), outcome |-> outcome]
  /\ Tries(q, x) /\ Leave(q, [Entered(Here(q)) EXCEPT !.used = TRUE])
  /\ ran'[q] = ran[q] \cup {run}
  /\ trial'[q] \in Trials
  /\ trial'[q].applied = trial[q].applied /\ trial'[q].text = trial[q].text
  /\ trial'[q][kind] = IF outcome = "timeout" THEN trial[q][kind] ELSE outcome
  /\ \A other \in Kinds \ {kind} : trial'[q][other] = trial[q][other]

LEMMA KindRan ==
  ASSUME PatchTypeOK, NEW q \in Validators, NEW kind \in Kinds, NEW next, RunCommands(q, kind, next)
  PROVE  \E x, outcome, run :
           x = (IF outcome = "timeout" THEN "dispose" ELSE next) /\ Ran(q, kind, x, outcome, run)
<1>1. PICK outcome \in {"passed", "failed", "timeout"} :
        /\ Moves(q, kind, IF outcome = "timeout" THEN "dispose" ELSE next)
        /\ trial' = [trial EXCEPT ![q][kind] = IF outcome = "timeout" THEN @ ELSE outcome]
        /\ ran' = [ran EXCEPT ![q] =
                     @ \cup {[kind |-> kind, on |-> Entered(Here(q)), outcome |-> outcome]}]
  BY DEF RunCommands
<1>2. PICK x, run, old, v, t :
        /\ x = IF outcome = "timeout" THEN "dispose" ELSE next
        /\ run = [kind |-> kind, on |-> Entered(Here(q)), outcome |-> outcome]
        /\ old = trial[q] /\ v = (IF outcome = "timeout" THEN old[kind] ELSE outcome)
        /\ Notes(old, kind, v, t)
  BY DEF Notes
<1>3. trial' = [trial EXCEPT ![q] = t]
  BY <1>1, <1>2 DEF Notes
<1>4. old \in Trials /\ v \in Results
  <2>1. old \in Trials
    BY <1>2 DEF PatchTypeOK
  <2>2. old[kind] \in Results
    BY <2>1 DEF Trials, Kinds
  <2> QED BY <1>2, <2>1, <2>2 DEF Results
<1>5. /\ t \in Trials /\ t[kind] = v /\ (\A other \in Kinds \ {kind} : t[other] = old[other])
      /\ t.applied = old.applied /\ t.text = old.text
  BY <1>2, <1>4, KindNoted
<1>6. /\ trial' \in [Validators -> Trials] /\ trial'[q] = t
      /\ \A p \in Validators \ {q} : trial'[p] = trial[p]
  BY <1>3, <1>5 DEF PatchTypeOK
<1>7. /\ DOMAIN ran' = Validators /\ ran'[q] = ran[q] \cup {run}
      /\ \A p \in Validators \ {q} : ran'[p] = ran[p]
  BY <1>1, <1>2 DEF PatchTypeOK
<1>8. at[q] \in Working /\ at' = [at EXCEPT ![q] = x]
  BY <1>1, <1>2 DEF Moves, Kinds, Working, Trying
<1>9. /\ UNCHANGED << candidates, patches, reports, todo >>
      /\ Leave(q, [Entered(Here(q)) EXCEPT !.used = TRUE])
  BY DEF RunCommands
<1>10. Tries(q, x)
  BY <1>6, <1>7, <1>8, <1>9 DEF Tries
<1>11. Ran(q, kind, x, outcome, run)
  BY <1>2, <1>5, <1>6, <1>7, <1>9, <1>10 DEF Ran
<1> QED BY <1>2, <1>11

(* What a run shows while nobody else is about. *)
LEMMA RanShows ==
  ASSUME PatchAssumption, PatchTypeOK, NEW q \in Validators, NEW kind, NEW x, NEW outcome, NEW run,
         Ran(q, kind, x, outcome, run)
  PROVE  /\ at'[q] = x /\ alone'[q] = alone[q] /\ Current(q)' = Current(q) /\ Here(q)' \in Dirs
         /\ Trusted(q)' => Held(q)
         /\ Here(q) \in Dirs => /\ run.on = Here(q) /\ Here(q)'.target = Here(q).target
                                /\ Here(q)'.applied = Here(q).applied
<1>1. PICK dir, X : dir = Entered(Here(q)) /\ X = [dir EXCEPT !.used = TRUE] /\ Leave(q, X)
  BY DEF Ran
<1>2. Tries(q, x) /\ at[q] \in Working
  BY DEF Ran, Tries
<1>3. dir \in Dirs
  <2>1. Here(q) \in Dirs \cup {NoDir}
    BY <1>2, CurrentIsCandidate DEF PatchTypeOK, Here
  <2> QED BY <1>1, <2>1, DirFacts
<1>4. X \in Dirs \cup {NoDir} /\ X \in Dirs /\ X.target = dir.target /\ X.applied = dir.applied
  BY <1>1, <1>3 DEF Dirs
<1>5. /\ at'[q] = x /\ alone'[q] = alone[q] /\ Here(q)' = X /\ Current(q)' = Current(q)
  BY <1>1, <1>2, <1>4, LeavingShows
<1>6. ASSUME Trusted(q)' PROVE Held(q)
  BY <1>1, <1>2, <1>4, <1>6, LeavingHolds
<1>7. ASSUME Here(q) \in Dirs PROVE dir = Here(q) /\ run.on = dir
  BY <1>1, <1>7, DirFacts DEF Ran
<1> QED BY <1>4, <1>5, <1>6, <1>7

LEMMA BuildingHolds ==
  ASSUME PatchAssumption, PatchTypeOK, NEW q \in Validators, Trusted(q),
         RunCommands(q, "build", "test")
  PROVE  Held(q)
<1>1. PICK kind, x, outcome, run :
        /\ kind = "build" /\ x = (IF outcome = "timeout" THEN "dispose" ELSE "test")
        /\ Ran(q, kind, x, outcome, run)
  <2>1. PICK kind \in Kinds : kind = "build"
    BY DEF Kinds
  <2> QED BY <2>1, KindRan
<1>2. /\ at'[q] = x /\ alone'[q] = alone[q] /\ Current(q)' = Current(q) /\ Here(q)' \in Dirs
      /\ Trusted(q)' => Held(q)
      /\ Here(q) \in Dirs => /\ run.on = Here(q) /\ Here(q)'.target = Here(q).target
                             /\ Here(q)'.applied = Here(q).applied
  BY <1>1, RanShows
<1>3. /\ outcome \in {"passed", "failed", "timeout"} /\ run.kind = "build" /\ run.outcome = outcome
      /\ ran'[q] = ran[q] \cup {run}
      /\ trial'[q].applied = trial[q].applied /\ trial'[q].text = trial[q].text
      /\ trial'[q].test = trial[q].test
      /\ outcome # "timeout" => trial'[q].build = outcome
  BY <1>1 DEF Ran, Kinds
<1>4. ASSUME alone[q]
      PROVE  Patched(q)' /\ (trial'[q].build = "passed" /\ outcome # "timeout" => Built(q)')
  <2>1. Patched(q) /\ ~ Here(q).used /\ ran[q] = {}
    <3>1. at[q] = "build" /\ at[q] \in Working
      BY DEF RunCommands, Moves, Working, Trying
    <3> QED BY <1>4, <3>1 DEF Trusted, TrialInv
  <2>2. Patched(q)'
    BY <1>2, <1>3, <2>1 DEF Patched
  <2>3. ran'[q] = {run}
    BY <1>3, <2>1
  <2>4. ASSUME outcome = "passed" PROVE PassedOn(run, trial'[q].text)
    BY <1>2, <1>3, <2>1, <2>4 DEF PassedOn, Patched
  <2> QED BY <1>3, <2>2, <2>3, <2>4 DEF Built
<1>5. Trusted(q)'
  <2>1. CASE outcome = "timeout"
    <3>1. alone[q] => FinalStatus(trial'[q]) # "validated"
      BY <1>4 DEF Patched, FinalStatus
    <3> QED BY <1>1, <1>2, <2>1, <3>1 DEF Trusted, TrialInv
  <2>2. CASE outcome # "timeout"
    BY <1>1, <1>2, <1>4, <2>2 DEF Trusted, TrialInv
  <2> QED BY <2>1, <2>2
<1> QED BY <1>2, <1>5

LEMMA TestingHolds ==
  ASSUME PatchAssumption, PatchTypeOK, NEW q \in Validators, Trusted(q),
         RunCommands(q, "test", "dispose")
  PROVE  Held(q)
<1>1. PICK kind, x, outcome, run :
        kind = "test" /\ x = "dispose" /\ Ran(q, kind, x, outcome, run)
  <2>1. PICK kind \in Kinds : kind = "test"
    BY DEF Kinds
  <2>2. PICK x, outcome, run : /\ x = (IF outcome = "timeout" THEN "dispose" ELSE "dispose")
                               /\ Ran(q, kind, x, outcome, run)
    BY <2>1, KindRan
  <2> QED BY <2>1, <2>2
<1>2. /\ at'[q] = x /\ alone'[q] = alone[q] /\ Current(q)' = Current(q) /\ Here(q)' \in Dirs
      /\ Trusted(q)' => Held(q)
      /\ Here(q) \in Dirs => run.on = Here(q)
  BY <1>1, RanShows
<1>3. /\ outcome \in {"passed", "failed", "timeout"} /\ run.kind = "test" /\ run.outcome = outcome
      /\ ran'[q] = ran[q] \cup {run} /\ trial'[q] \in Trials
      /\ trial'[q].text = trial[q].text /\ trial'[q].build = trial[q].build
      /\ trial'[q].test = IF outcome = "timeout" THEN trial[q].test ELSE outcome
  BY <1>1 DEF Ran, Kinds
<1>4. ASSUME alone[q], FinalStatus(trial'[q]) = "validated"
      PROVE  Earned(trial'[q], Current(q).declared, ran'[q])
  <2>1. Patched(q) /\ (trial[q].build = "passed" => Built(q))
    <3>1. at[q] = "test" /\ at[q] \in Working
      BY DEF RunCommands, Moves, Working, Trying
    <3> QED BY <1>4, <3>1 DEF Trusted, TrialInv
  <2>2. trial'[q].build = "passed" /\ trial'[q].test = "passed"
    <3>1. /\ trial'[q].build \notin {"failed", "not-run"} /\ trial'[q].test \notin {"failed", "not-run"}
      BY <1>4 DEF FinalStatus
    <3> QED BY <1>3, <3>1 DEF Trials, Results
  <2>3. outcome = "passed" /\ Built(q)
    BY <1>3, <2>1, <2>2 DEF Patched
  <2>4. PassedOn(run, trial'[q].text)
    BY <1>2, <1>3, <2>1, <2>3 DEF PassedOn, Patched
  <2>5. \A r \in ran'[q] : PassedOn(r, trial'[q].text)
    BY <1>3, <2>3, <2>4 DEF Built
  <2>6. \A k \in Kinds : \E r \in ran'[q] : r.kind = k
    BY <1>3, <2>3 DEF Built, Kinds
  <2> QED BY <1>3, <2>1, <2>5, <2>6 DEF Earned, Patched
<1>5. Trusted(q)'
  BY <1>1, <1>2, <1>4 DEF Trusted, TrialInv
<1> QED BY <1>2, <1>5

LEMMA DisposingHolds ==
  ASSUME PatchAssumption, PatchTypeOK, NEW q \in Validators, Trusted(q), Dispose(q)
  PROVE  Held(q)
<1>1. PICK x, X :
        /\ x = "report" /\ X = NoDir /\ X \in Dirs \cup {NoDir}
        /\ at' = [at EXCEPT ![q] = x] /\ Leave(q, X)
  BY DEF Dispose, Moves
<1>2. at[q] = "dispose" /\ at[q] \in Working
  BY DEF Dispose, Moves, Working, Trying
<1>3. UNCHANGED << candidates, patches, reports, todo, trial, ran >>
  BY DEF Dispose
<1>4. Tries(q, x)
  BY <1>1, <1>2, <1>3, UntouchedTrial
<1>5. at'[q] = x /\ alone'[q] = alone[q] /\ Current(q)' = Current(q)
  BY <1>1, <1>4, LeavingShows
<1>6. Trusted(q)'
  BY <1>1, <1>2, <1>3, <1>5 DEF Trusted, TrialInv
<1> QED BY <1>1, <1>4, <1>6, LeavingHolds

LEMMA ReportingHolds ==
  ASSUME PatchAssumption, EarnInv, NEW q \in Validators, WriteReport(q)
  PROVE  Held(q) /\ ValidatedIsEarned'
<1> DEFINE left == todo[q].left \ {First(q)}
           work == IF left = {} THEN NoWork ELSE [todo[q] EXCEPT !.left = left]
           x == IF left = {} THEN "done" ELSE "judge"
           r == [patch |-> Current(q).id, status |-> FinalStatus(trial[q]), trial |-> trial[q],
                 declared |-> Current(q).declared, ran |-> ran[q], alone |-> alone[q]]
<1> USE DEF EarnInv
<1>1. /\ at[q] = "report" /\ at[q] \in Working
      /\ at' = [at EXCEPT ![q] = x] /\ todo' = [todo EXCEPT ![q] = work]
      /\ reports' = [reports EXCEPT ![Current(q).finding] = {r}]
      /\ UNCHANGED << candidates, patches, workspaces, trial, ran, alone >>
  BY DEF WriteReport, Moves, Working
<1>2. work \in Loads /\ work.left \subseteq DOMAIN work.list /\ (x = "judge" => work.left # {})
  <2>1. << >> \in Seq(Candidates) /\ todo[q] \in Loads /\ todo[q].left \subseteq DOMAIN todo[q].list
    BY DEF PatchTypeOK
  <2>2. CASE left = {}
    BY <2>1, <2>2 DEF NoWork, Loads
  <2>3. CASE left # {}
    BY <2>1, <2>3 DEF Loads
  <2> QED BY <2>2, <2>3
<1>3. x \in {"judge", "done"} /\ x # "report"
  OBVIOUS
<1>4. ASSUME r.status = "validated", r.alone PROVE Earned(r.trial, r.declared, r.ran)
  BY <1>1, <1>4 DEF Trusted, TrialInv
<1> HIDE DEF work, x, r
<1>5. PatchTypeOK'
  <2>1. /\ DOMAIN at' = Validators \cup Drafters /\ DOMAIN reports' = Findings
        /\ todo' \in [Validators \cup Drafters -> Loads]
    BY <1>1, <1>2 DEF PatchTypeOK
  <2>2. \A p \in Validators \cup Drafters : todo'[p].left \subseteq DOMAIN todo'[p].list
    BY <1>1, <1>2 DEF PatchTypeOK
  <2>3. \A p \in Validators : at'[p] \in Working => todo'[p].left # {}
    BY <1>1, <1>2, <1>3 DEF PatchTypeOK, Working, Trying
  <2> QED BY <1>1, <2>1, <2>2, <2>3 DEF PatchTypeOK
<1>6. Trusted(q)'
  <2>1. at'[q] \in {"judge", "done"}
    BY <1>1, <1>3 DEF PatchTypeOK
  <2> QED BY <2>1 DEF Trusted, TrialInv
<1>7. ASSUME NEW p \in Validators \ {q} PROVE Beside(p)
  <2>1. todo'[p] = todo[p]
    BY <1>1 DEF PatchTypeOK
  <2> QED BY <1>1, <2>1, QuietIsBeside
<1>8. ValidatedIsEarned'
  <2>1. \A f \in Findings : reports'[f] = reports[f] \/ reports'[f] = {r}
    BY <1>1 DEF PatchTypeOK
  <2> QED BY <1>4, <2>1 DEF ValidatedIsEarned
<1> QED BY <1>5, <1>6, <1>7, <1>8 DEF Held

LEMMA DraftingHolds ==
  ASSUME PatchAssumption, PatchTypeOK, NEW d \in Drafters,
         StartDraft(d) \/ AgentDrafts(d) \/ LoadDraft(d) \/ StoreDraft(d)
  PROVE  PatchTypeOK' /\ \A p \in Validators : Beside(p)
<1>1. PICK x : at' = [at EXCEPT ![d] = x]
  BY DEF StartDraft, AgentDrafts, LoadDraft, StoreDraft, Moves
<1>2. \A p \in Validators : p # d /\ at'[p] = at[p]
  BY <1>1 DEF PatchAssumption, PatchTypeOK
<1>3. DOMAIN at' = Validators \cup Drafters
  BY <1>1 DEF PatchTypeOK
<1>4. UNCHANGED << workspaces, reports, trial, ran >>
  BY DEF StartDraft, AgentDrafts, LoadDraft, StoreDraft
<1>5. ASSUME UNCHANGED << patches, alone >>, candidates' \in Seq(Candidates),
             todo' \in [Validators \cup Drafters -> Loads],
             \A p \in Validators \cup Drafters : todo'[p].left \subseteq DOMAIN todo'[p].list,
             \A p \in Validators : todo'[p] = todo[p]
      PROVE  PatchTypeOK' /\ \A p \in Validators : Beside(p)
  <2>1. PatchTypeOK'
    BY <1>2, <1>3, <1>4, <1>5 DEF PatchTypeOK
  <2> QED BY <1>2, <1>4, <1>5, <2>1 DEF Beside, Here
<1>6. CASE StartDraft(d)
  <2>1. UNCHANGED << candidates, patches, todo, alone >>
    BY <1>6 DEF StartDraft
  <2> QED BY <1>5, <2>1 DEF PatchTypeOK
<1>7. CASE LoadDraft(d)
  <2>1. PICK load : load = [list |-> candidates, left |-> {}] /\ todo' = [todo EXCEPT ![d] = load]
    BY <1>7 DEF LoadDraft
  <2>2. load \in Loads /\ load.left \subseteq DOMAIN load.list
    BY <2>1 DEF Loads, PatchTypeOK
  <2>3. /\ todo' \in [Validators \cup Drafters -> Loads]
        /\ \A p \in Validators \cup Drafters : todo'[p].left \subseteq DOMAIN todo'[p].list
    BY <2>1, <2>2 DEF PatchTypeOK
  <2>4. \A p \in Validators : todo'[p] = todo[p]
    BY <1>2, <2>1 DEF PatchTypeOK
  <2>5. UNCHANGED << candidates, patches, alone >>
    BY <1>7 DEF LoadDraft
  <2> QED BY <1>5, <2>3, <2>4, <2>5 DEF PatchTypeOK
<1>8. CASE StoreDraft(d)
  <2>1. UNCHANGED << todo, patches, alone >> /\ candidates' \in {candidates, todo[d].list}
    BY <1>8 DEF StoreDraft
  <2>2. candidates' \in Seq(Candidates)
    BY <2>1 DEF PatchTypeOK, Loads
  <2> QED BY <1>5, <2>1, <2>2 DEF PatchTypeOK
<1>9. CASE AgentDrafts(d)
  <2>1. UNCHANGED << todo >>
    BY <1>9 DEF AgentDrafts
  <2>2. CASE UNCHANGED << candidates, patches, alone >>
    BY <1>5, <2>1, <2>2 DEF PatchTypeOK
  <2>3. ASSUME NEW draft \in Drafts, candidates' = draft.candidates, patches' = draft.patches,
               alone' = [p \in Validators |->
                           alone[p] /\ (at[p] \in Trying =>
                                          draft.patches[Current(p).id] = patches[Current(p).id])]
        PROVE  PatchTypeOK' /\ \A p \in Validators : Beside(p)
    <3>1. candidates' \in Seq(Candidates) /\ patches' \in [Patches -> Texts \cup {NoPatch}]
      BY <2>3 DEF PatchAssumption
    <3>2. alone \in [Validators -> BOOLEAN]
      BY DEF PatchTypeOK
    <3>3. alone' \in [Validators -> BOOLEAN]
      BY <2>3, <3>2
    <3>4. \A p \in Validators :
            alone'[p] => alone[p] /\ (at[p] \in Trying => patches'[Current(p).id] = patches[Current(p).id])
      BY <2>3
    <3>5. PatchTypeOK'
      BY <1>2, <1>3, <1>4, <2>1, <3>1, <3>3 DEF PatchTypeOK
    <3> QED BY <1>2, <1>4, <2>1, <3>4, <3>5 DEF Beside, Here
  <2> QED BY <1>9, <2>2, <2>3 DEF AgentDrafts
<1> QED BY <1>6, <1>7, <1>8, <1>9

LEMMA DyingHolds ==
  ASSUME PatchTypeOK, NEW q \in Validators \cup Drafters, Dies(q)
  PROVE  /\ PatchTypeOK' /\ \A p \in Validators \ {q} : Beside(p)
         /\ q \in Validators => Trusted(q)'
<1>1. PICK x : x = "dead" /\ at' = [at EXCEPT ![q] = x]
  BY DEF Dies
<1>2. UNCHANGED << candidates, patches, workspaces, reports, todo, trial, ran, alone >>
  BY DEF Dies
<1>3. /\ DOMAIN at' = Validators \cup Drafters /\ at'[q] \notin Working
      /\ \A p \in Validators \ {q} : at'[p] = at[p]
  BY <1>1 DEF PatchTypeOK, Working, Trying
<1>4. PatchTypeOK'
  BY <1>2, <1>3 DEF PatchTypeOK
<1>5. \A p \in Validators \ {q} : Beside(p)
  BY <1>2, <1>3 DEF Beside, Here
<1> QED BY <1>3, <1>4, <1>5 DEF Trusted

LEMMA PatchingPreserves ==
  ASSUME PatchAssumption, EarnInv, PatchStep
  PROVE  EarnInv'
<1> USE DEF EarnInv
<1>1. ASSUME PatchTypeOK', ValidatedIsEarned', \A p \in Validators : Beside(p) \/ Trusted(p)'
      PROVE  EarnInv'
  BY <1>1, StaysTrusted
<1>2. ASSUME reports' = reports PROVE ValidatedIsEarned'
  BY <1>2 DEF ValidatedIsEarned
<1>3. ASSUME NEW q \in Validators,
             \/ StartValidation(q) \/ Judge(q) \/ StepFails(q) \/ Prepare(q) \/ MakeCopy(q)
             \/ InitGit(q) \/ CheckPatch(q) \/ ApplyPatch(q)
             \/ NothingRuns(q, "build", "test") \/ NothingRuns(q, "test", "dispose")
             \/ RunCommands(q, "build", "test") \/ RunCommands(q, "test", "dispose")
             \/ Dispose(q) \/ WriteReport(q)
      PROVE  EarnInv'
  <2>1. Held(q)
    BY <1>3, StartingHolds, JudgingHolds, FailingHolds, PreparingHolds, CopyingHolds,
       InitialisingHolds, CheckingHolds, ApplyingHolds, IdlingHolds, BuildingHolds, TestingHolds,
       DisposingHolds, ReportingHolds
  <2>2. ValidatedIsEarned'
    <3>1. CASE WriteReport(q)
      BY <3>1, ReportingHolds
    <3>2. CASE ~ WriteReport(q)
      BY <1>2, <1>3, <3>2 DEF StartValidation, Judge, StepFails, Prepare, MakeCopy, InitGit,
           CheckPatch, ApplyPatch, NothingRuns, RunCommands, Dispose
    <3> QED BY <3>1, <3>2
  <2> QED BY <1>1, <2>1, <2>2 DEF Held
<1>4. ASSUME NEW d \in Drafters, StartDraft(d) \/ AgentDrafts(d) \/ LoadDraft(d) \/ StoreDraft(d)
      PROVE  EarnInv'
  <2>1. PatchTypeOK' /\ \A p \in Validators : Beside(p)
    BY <1>4, DraftingHolds
  <2>2. reports' = reports
    BY <1>4 DEF StartDraft, AgentDrafts, LoadDraft, StoreDraft
  <2> QED BY <1>1, <1>2, <2>1, <2>2
<1>5. ASSUME NEW q \in Validators \cup Drafters, Dies(q) PROVE EarnInv'
  <2>1. PatchTypeOK' /\ (\A p \in Validators \ {q} : Beside(p)) /\ (q \in Validators => Trusted(q)')
    BY <1>5, DyingHolds
  <2>2. reports' = reports
    BY <1>5 DEF Dies
  <2> QED BY <1>1, <1>2, <2>1, <2>2
<1> QED BY <1>3, <1>4, <1>5 DEF PatchStep

LEMMA PatchingStutters ==
  ASSUME EarnInv, UNCHANGED patchVars
  PROVE  EarnInv'
<1>1. PatchTypeOK' /\ ValidatedIsEarned'
  BY DEF patchVars, EarnInv, PatchTypeOK, ValidatedIsEarned
<1>2. \A p \in Validators : Beside(p)
  BY DEF patchVars, Beside, Here
<1> QED BY <1>1, <1>2, StaysTrusted DEF EarnInv

(* A report that says "validated" was earned, for any findings, patches, commands, drafts, *)
(* validations and deaths: as long as nobody else touched the patch or its workspace, the  *)
(* trial is what TrialInv says of it at each of its steps.                                 *)
THEOREM ValidatedStaysEarned == Spec => []ValidatedIsEarned
<1>1. Init => EarnInv
  BY PatchAssumption, PatchingStarts DEF Init
<1>2. EarnInv /\ [Next]_vars => EarnInv'
  BY PatchAssumption, PatchingPreserves, PatchingStutters DEF Next, LoadArtifacts, WriteGraph, vars
<1>3. EarnInv => ValidatedIsEarned
  BY DEF EarnInv
<1> QED BY <1>1, <1>2, <1>3, PTL DEF Spec
===============================================================================
