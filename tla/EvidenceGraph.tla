---------------------------- MODULE EvidenceGraph ----------------------------
(***************************************************************************)
(* The evidence graph of a run as a function of its artifacts               *)
(* (lib/evidence_graph.py), what gra-validate-report demands of the graph   *)
(* and of the artifacts behind it, and what the publication policy makes of *)
(* the same artifacts.                                                      *)
(*                                                                         *)
(* An artifact set is a record of the records each artifact lists.  A       *)
(* record has an id, its references and the status the graph or the policy  *)
(* looks at; titles, summaries and durations are left out, and so are       *)
(* records without an id, which no validator accepts.                       *)
(***************************************************************************)
EXTENDS Naturals, FiniteSets

NodeTypes ==
  {"target", "scanner_run", "scanner_lead", "finding", "chain", "proof", "validation", "trace",
   "remediation_candidate", "patch_validation", "issue_plan_entry", "metric",
   "workflow_profile", "workflow_execution", "workflow_stage"}
EdgeTypes ==
  {"produced", "supports", "challenges", "invalidates", "depends_on", "member_of",
   "validated_by", "publication_candidate", "not_applicable"}

RecordKinds == NodeTypes \cup {"workflow_execution_stage"}

(* The artifacts that the records come from are there. *)
WellFormed(a) ==
  /\ DOMAIN a.records = RecordKinds
  /\ IsFiniteSet(a.records["finding"])
  /\ \A kind \in RecordKinds : \A r \in a.records[kind] : r.path \in a.present

(* The nodes that the records of each kind become.  The stages of the executed workflow *)
(* have ids of their own and the type of the stages of the profile.                     *)
TypeOf(kind) == IF kind = "workflow_execution_stage" THEN "workflow_stage" ELSE kind
Refs(a, kind) == {r.id : r \in a.records[kind]}
NodeIds(a) == UNION {{<<kind, id>> : id \in Refs(a, kind)} : kind \in DOMAIN a.records}

(* The artifact a node points into; a patch validation has a file of its own. *)
PathsOf(a, node) == {r.path : r \in {s \in a.records[node[1]] : s.id = node[2]}}

Nodes(a) ==
  [node \in NodeIds(a) |->
     [type |-> TypeOf(node[1]), path |-> CHOOSE p \in PathsOf(a, node) : TRUE]]

Edge(kind, id, toKind, to, type) == [source |-> <<kind, id>>, target |-> <<toKind, to>>, type |-> type]

ScannerEdges(a) ==
  {Edge("scanner_run", r.id, "scanner_lead", r.lead, "produced") : r \in a.records["scanner_run"]}

TargetEdges(a) ==
  UNION {{Edge("target", t.id, "finding", f, "supports") : f \in t.about}
           : t \in a.records["target"]}

ChainLinks(c) ==
       {Edge("finding", f, "chain", c.id, "member_of") : f \in c.findings}
  \cup {Edge("chain", c.id, "finding", f, "supports") : f \in c.findings}
  \cup {Edge("target", t, "chain", c.id, "supports") : t \in c.targets}
  \cup {Edge("scanner_lead", l, "chain", c.id, "supports") : l \in c.leads}

Memberships(f) == {Edge("finding", f.id, "chain", c, "member_of") : c \in f.chains}

ChainEdges(a) == UNION {ChainLinks(c) : c \in a.records["chain"]}

MembershipEdges(a) == UNION {Memberships(f) : f \in a.records["finding"]}

ProofEdges(a) ==
  {Edge("finding", p.finding, "proof", p.id,
        IF p.status = "not-applicable" THEN "not_applicable" ELSE "validated_by")
     : p \in a.records["proof"]}
  \cup {Edge("proof", p.id, "finding", p.finding, "supports")
          : p \in {q \in a.records["proof"] : q.status \in {"confirmed", "passed"}}}
  \cup {Edge("proof", p.id, "finding", p.finding, "challenges")
          : p \in {q \in a.records["proof"] : q.status \in {"failed", "needs-human-review"}}}

Verdict(decision) ==
  IF decision = "confirm" THEN "supports"
  ELSE IF decision = "invalidate" THEN "invalidates" ELSE "challenges"

ValidationLinks(v) ==
       {Edge("validation", v.id, v.kind, v.subject, Verdict(v.decision)),
        Edge(v.kind, v.subject, "validation", v.id, "validated_by")}
  \cup (IF v.gaps THEN {Edge("validation", v.id, v.kind, v.subject, "challenges")} ELSE {})

ValidationEdges(a) == UNION {ValidationLinks(v) : v \in a.records["validation"]}

TraceEdges(a) ==
  UNION {{Edge("trace", t.id, "finding", t.finding,
               IF t.status \in {"Confirmed", "Probable"} THEN "supports" ELSE "challenges"),
          Edge("finding", t.finding, "trace", t.id, "validated_by")}
           : t \in a.records["trace"]}

RemediationEdges(a) ==
  {Edge("remediation_candidate", c.id, "finding", c.finding, "depends_on")
     : c \in a.records["remediation_candidate"]}
  \cup {Edge("remediation_candidate", r.id, "patch_validation", r.id, "validated_by")
          : r \in a.records["patch_validation"]}

PublicationEdges(a) ==
  {Edge("issue_plan_entry", e.id, "finding", e.id, "publication_candidate")
     : e \in a.records["issue_plan_entry"]}
  \cup {Edge("metric", m.id, "finding", f.id, "produced")
          : m \in a.records["metric"], f \in a.records["finding"]}

WorkflowEdges(a) ==
  {Edge("workflow_profile", w.id, "workflow_stage", s.id, "produced")
     : w \in a.records["workflow_profile"], s \in a.records["workflow_stage"]}
  \cup {Edge("workflow_execution", w.id, "workflow_execution_stage", s.id, "produced")
          : w \in a.records["workflow_execution"], s \in a.records["workflow_execution_stage"]}
  \cup UNION {{Edge("workflow_execution_stage", s.id, "workflow_execution_stage", d, "depends_on")
                 : d \in s.needs} : s \in a.records["workflow_execution_stage"]}

References(a) ==
  ScannerEdges(a) \cup TargetEdges(a) \cup ChainEdges(a) \cup MembershipEdges(a)
  \cup ProofEdges(a) \cup ValidationEdges(a) \cup TraceEdges(a) \cup RemediationEdges(a)
  \cup PublicationEdges(a) \cup WorkflowEdges(a)

(* An edge to or from a node that does not exist is dropped. *)
Edges(a) == {e \in References(a) : e.source \in NodeIds(a) /\ e.target \in NodeIds(a)}

-----------------------------------------------------------------------------
(* The summary of the graph, and the graph. *)

NodeCounts(nodes) ==
  [t \in {nodes[n].type : n \in DOMAIN nodes} |->
     Cardinality({n \in DOMAIN nodes : nodes[n].type = t})]

EdgeCounts(edges) ==
  [t \in {e.type : e \in edges} |-> Cardinality({e \in edges : e.type = t})]

(* The findings the summary counts, and those of them that edges of some types lead to. *)
Urgent(a) == {f \in a.records["finding"] : f.severe /\ f.recommended}
Reached(a, edges, types) ==
  {f \in Urgent(a) : \E e \in edges : e.target = <<"finding", f.id>> /\ e.type \in types}

Supporting == {"supports", "validated_by", "member_of"}
Challenging == {"challenges", "invalidates"}

(* The counts of the queue, or of the targets when they are not a queue. *)
QueueSummary(a) ==
  IF a.queue = {} THEN [present |-> FALSE, generated |-> Cardinality(a.records["target"])]
  ELSE [present |-> TRUE, generated |-> CHOOSE n \in a.queue : TRUE]

Graph(a) ==
  LET nodes == Nodes(a)  edges == Edges(a) IN
  [nodes |-> nodes, edges |-> edges,
   nodeCount |-> Cardinality(DOMAIN nodes), edgeCount |-> Cardinality(edges),
   nodeCounts |-> NodeCounts(nodes), edgeCounts |-> EdgeCounts(edges),
   queue |-> QueueSummary(a),
   urgent |-> Cardinality(Urgent(a)),
   supported |-> Cardinality(Reached(a, edges, Supporting)),
   challenged |-> Cardinality(Reached(a, edges, Challenging))]

(* A graph that the artifacts, as they are now, do not contradict. *)
GraphAccepted(g, a) ==
  /\ \A n \in DOMAIN g.nodes : g.nodes[n].type \in NodeTypes /\ g.nodes[n].path \in a.present
  /\ \A e \in g.edges : {e.source, e.target} \subseteq DOMAIN g.nodes /\ e.type \in EdgeTypes
  /\ g.nodeCount = Cardinality(DOMAIN g.nodes) /\ g.nodeCounts = NodeCounts(g.nodes)
  /\ g.edgeCount = Cardinality(g.edges) /\ g.edgeCounts = EdgeCounts(g.edges)
  /\ g.queue = QueueSummary(a)
  /\ {g.urgent, g.supported, g.challenged} \subseteq Nat
  /\ g.supported <= g.urgent /\ g.challenged <= g.urgent

-----------------------------------------------------------------------------
(* What gra-validate-report accepts of the artifacts. *)

Unique(a, kind) == \A r, s \in a.records[kind] : r.id = s.id => r = s

(* What a chain may name of the scanner index: the index itself, and an entry by *)
(* its normalized path, its raw path or its tool.  A node has only the first     *)
(* path an entry has, the id of the record; names are the others.                *)
ScannerRefs(a) == a.index \cup UNION {{l.id} \cup l.names : l \in a.records["scanner_lead"]}

ChainsAccepted(a) ==
  Unique(a, "chain") /\ \A c \in a.records["chain"] :
    /\ c.findings \subseteq Refs(a, "finding")
    /\ c.targets \subseteq Refs(a, "target")
    /\ c.leads \subseteq ScannerRefs(a)
    /\ c.findings \cup c.targets \cup c.leads # {}

ProofStatuses == {"confirmed", "failed", "not-run", "needs-human-review"}

ProofsAccepted(a) ==
  Unique(a, "proof") /\ \A p \in a.records["proof"] :
    p.finding \in Refs(a, "finding") /\ p.status \in ProofStatuses

TracesAccepted(a) ==
  Unique(a, "trace") /\ \A t \in a.records["trace"] : t.finding \in Refs(a, "finding")

SubjectsAccepted(a) ==
  Unique(a, "validation") /\ \A v \in a.records["validation"] :
    v.kind \in {"finding", "chain"} /\ v.subject \in Refs(a, v.kind)

RemediationAccepted(a) ==
  /\ Unique(a, "remediation_candidate")
  /\ \A c \in a.records["remediation_candidate"] : c.finding \in Refs(a, "finding")
  /\ \A r \in a.records["patch_validation"] :
       a.records["remediation_candidate"] # {} => r.id \in Refs(a, "remediation_candidate")

-----------------------------------------------------------------------------
(* What the publication policy warns of; --require-advanced-validation takes the *)
(* warnings for errors.                                                          *)

Blocking == {"downgrade", "invalidate", "needs-human-review"}

RelatedChains(a, f) == f.chains \cup {c.id : c \in {d \in a.records["chain"] : f.id \in d.findings}}

RelatedValidations(a, f) ==
  {v \in a.records["validation"] :
     <<v.kind, v.subject>> \in {<<"finding", f.id>>} \cup ({"chain"} \X RelatedChains(a, f))}

Warned(a, f) ==
  \/ ~ f.chains \subseteq Refs(a, "chain")
  \/ /\ f.severe /\ f.recommended
     /\ \/ RelatedValidations(a, f) = {}
        \/ \E v \in RelatedValidations(a, f) : v.decision \in Blocking
        \/ ~ f.exempt /\ \A p \in a.records["proof"] : p.finding # f.id

RemediationWarned(a, f) ==
  \E c \in a.records["remediation_candidate"], r \in a.records["patch_validation"] :
    /\ c.finding = f.id /\ r.finding = f.id /\ r.id = c.id
    /\ r.status \in {"failed", "needs-human-review"}

AdvancedErrors(a, selected) == {f \in selected : Warned(a, f) \/ RemediationWarned(a, f)}
=============================================================================
