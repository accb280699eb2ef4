------------------------ MODULE ReportFreshnessProofs ------------------------
(***************************************************************************)
(* For any number of sessions, sources, edits and kills: a report that is   *)
(* assessed as fresh was rendered from its inputs as they are, and records  *)
(* survive each other's updates.  The versions a producer captures, renders *)
(* and finds on disk follow one another in this order, as each file only    *)
(* ever gets newer; the lock keeps what a session loaded up to date.        *)
(***************************************************************************)
EXTENDS ReportFreshness, SequenceTheorems, TLAPS

Plan == "issue_publication_plan"
Places == {"idle", "lock", "write sidecar", "release", "preflight", "render", "write", "record",
           "snapshot", "written", "done", "failed", "killed"}
Active(p) == pc[p] \notin Ended

TypeOK ==
  /\ file \in [Files -> Nat]
  /\ pc \in [Producers -> Places]
  /\ queue \in [Producers -> Seq(Artifacts)]
  /\ stage \in [Producers -> {"init", "update"}]
  /\ DOMAIN captured = Producers /\ DOMAIN loaded = Producers /\ DOMAIN view = Producers
  /\ DOMAIN made = Artifacts /\ DOMAIN sidecar.records = Artifacts
  /\ sidecar = [exists |-> sidecar.exists, records |-> sidecar.records]
  /\ \A p \in Producers : Active(p) => queue[p] # << >>

(* The lock is held by who is past it and not dead, and keeps what it has loaded up *)
(* to date.                                                                         *)
LockInv ==
  /\ ~ sidecar.exists => sidecar.records = NoRecords
  /\ \A p \in Producers :
       /\ pc[p] \in {"write sidecar", "release"} => lock = p
       /\ pc[p] = "write sidecar" =>
            /\ loaded[p] = sidecar.records
            /\ stage[p] = "init" => ~ sidecar.exists

(* Two sessions that produce the same report overlap. *)
NoticesOverlaps ==
  \A p, q \in Producers : p # q /\ Active(p) /\ Active(q) /\ Art(p) = Art(q) => Art(p) \in overlapped

(* Version y of f is there when x was, or later: an original source may be removed *)
(* and does not come back; any other file only gets newer.                         *)
Removable == Original \ {"issue_ledger"}
Older(f, x, y) ==
  IF f \in Removable THEN y = Absent \/ (x # Absent /\ x <= y) ELSE x <= y

(* Of every file in c, the version in v is not older. *)
Before(a, c, v) ==
  \A f \in DOMAIN c : f \in Content(a) /\ c[f] \in Nat /\ v[f] \in Nat /\ Older(f, c[f], v[f])

Rendered(a, v) == v \in [Content(a) -> Nat] /\ Before(a, v, file)

Recorded(a) == sidecar.records[a].content

(* The report is replaced and not yet known to be recorded. *)
Producing(p) ==
  \/ pc[p] \in {"record", "snapshot"}
  \/ stage[p] = "update" /\ pc[p] \in {"lock", "write sidecar", "release"}

Tracked(p) ==
  LET a == Art(p) IN
  Active(p) /\ a \notin overlapped \cup {Plan} =>
    /\ pc[p] = "render" => Before(a, captured[p].content, file)
    /\ pc[p] = "write" => /\ Rendered(a, view[p])
                          /\ Before(a, captured[p].content, view[p])
                          /\ Before(a, Recorded(a), view[p])
    /\ Producing(p) => /\ Rendered(a, view[p]) /\ made[a] = view[p]
                       /\ Before(a, captured[p].content, view[p])
    /\ pc[p] = "snapshot" => Before(a, Recorded(a), view[p])

Traceable(a) ==
  a \notin overlapped \cup {Plan} =>
    Before(a, Recorded(a), made[a]) /\ \A f \in DOMAIN Recorded(a) : Older(f, made[a][f], file[f])

VersionInv == (\A p \in Producers : Tracked(p)) /\ (\A a \in Artifacts : Traceable(a))

IInv == TypeOK /\ LockInv /\ NoticesOverlaps /\ VersionInv

-----------------------------------------------------------------------------
(* Versions. *)

LEMMA SourcesAreNoReports ==
  ASSUME FreshnessAssumption
  PROVE  Sources \cap Artifacts = {} /\ Removable \cap Artifacts = {} /\ Removable \subseteq Files
BY DEF FreshnessAssumption, SourceNames, Removable, Files

LEMMA OlderOrders ==
  ASSUME NEW f, NEW x \in Nat, NEW y \in Nat, NEW z \in Nat
  PROVE  /\ Older(f, x, x)
         /\ Older(f, x, y) /\ Older(f, y, z) => Older(f, x, z)
         /\ Older(f, x, y) /\ Older(f, y, x) => x = y
BY DEF Older, Absent

LEMMA BeforeIsTransitive ==
  ASSUME NEW a, NEW c, NEW v, NEW w, Before(a, c, v), Before(a, v, w), DOMAIN c \subseteq DOMAIN v
  PROVE  Before(a, c, w)
<1> SUFFICES ASSUME NEW f \in DOMAIN c
             PROVE  f \in Content(a) /\ c[f] \in Nat /\ w[f] \in Nat /\ Older(f, c[f], w[f])
  BY DEF Before
<1>1. /\ f \in Content(a) /\ {c[f], v[f], w[f]} \subseteq Nat
      /\ Older(f, c[f], v[f]) /\ Older(f, v[f], w[f])
  BY DEF Before
<1> QED BY <1>1, OlderOrders

(* The artifact of a session that is under way. *)
LEMMA ArtIsArtifact ==
  ASSUME TypeOK, NEW p \in Producers, queue[p] # << >>
  PROVE  Art(p) \in Artifacts
BY DEF TypeOK, Art

LEMMA FilesAge ==
  ASSUME FreshnessAssumption, TypeOK, Next
  PROVE  file' \in [Files -> Nat] /\ \A f \in Files : Older(f, file[f], file'[f])
<1> DEFINE Aged == file' \in [Files -> Nat] /\ \A f \in Files : Older(f, file[f], file'[f])
<1> USE DEF TypeOK
<1>1. ASSUME file' = file PROVE Aged
  BY <1>1, OlderOrders
<1>2. ASSUME NEW g \in Files \ Removable, file' = [file EXCEPT ![g] = file[g] + 1] PROVE Aged
  <2>1. file[g] + 1 \in Nat /\ Older(g, file[g], file[g] + 1)
    BY <1>2 DEF Older
  <2> QED BY <1>2, <2>1, OlderOrders
<1>3. ASSUME NEW p \in Producers, Write(p) \/ Snapshot(p) PROVE Aged
  <2>1. Art(p) \in Artifacts
    BY <1>3, ArtIsArtifact DEF Active, Ended, Write, Snapshot
  <2>2. Art(p) \in Files \ Removable
    BY <2>1, SourcesAreNoReports DEF Files
  <2> QED BY <1>2, <1>3, <2>2 DEF Write, Snapshot, Replace
<1>4. ASSUME NEW p \in Producers, Finish(p) PROVE Aged
  <2>1. CASE file' = file
    BY <1>1, <2>1
  <2>2. CASE "issue_ledger" \in Sources /\ file' = [file EXCEPT !["issue_ledger"] = file["issue_ledger"] + 1]
    <3>1. "issue_ledger" \in Files \ Removable
      BY <2>2 DEF Files, Removable
    <3> QED BY <1>2, <2>2, <3>1
  <2> QED BY <1>4, <2>1, <2>2 DEF Finish
<1>5. ASSUME NEW f \in Sources, EditSource(f) PROVE Aged
  <2>1. f \in Files /\ f # "issue_ledger"
    BY <1>5 DEF Files, EditSource
  <2>2. CASE f \in Original /\ file' = [file EXCEPT ![f] = Absent]
    <3>1. Older(f, file[f], Absent) /\ Absent \in Nat
      BY <2>1, <2>2 DEF Older, Removable, Absent
    <3> QED BY <2>1, <2>2, <3>1, OlderOrders
  <2>3. CASE (f \in Original => Present(f)) /\ file' = [file EXCEPT ![f] = file[f] + 1]
    <3>1. Older(f, file[f], file[f] + 1) /\ file[f] + 1 \in Nat
      BY <2>1, <2>3 DEF Older, Removable, Absent, Present
    <3> QED BY <2>1, <2>3, <3>1, OlderOrders
  <2> QED BY <1>5, <2>2, <2>3 DEF EditSource
<1>6. ASSUME NEW p \in Producers,
             \/ Start(p) \/ TakeLock(p) \/ GiveUp(p) \/ WriteSidecar(p) \/ Release(p) \/ Preflight(p)
             \/ RefuseMissing(p) \/ Render(p) \/ Record(p) \/ RefuseChanged(p) \/ Kill(p)
      PROVE  Aged
  <2>1. file' = file
    BY <1>6 DEF Start, TakeLock, GiveUp, WriteSidecar, Release, Preflight, RefuseMissing, Render,
                Record, RefuseChanged, Kill, Locked, Fail
  <2> QED BY <1>1, <2>1
<1> HIDE DEF Aged
<1>7. Aged
  BY <1>3, <1>4, <1>5, <1>6 DEF Next, Step
<1> QED BY <1>7 DEF Aged

-----------------------------------------------------------------------------
(* Types, the lock and overlaps. *)

LEMMA FreshnessStarts ==
  ASSUME FreshnessAssumption, Init
  PROVE  IInv
<1>1. RegenerationOrder \in Seq(Artifacts)
  BY DEF RegenerationOrder, Artifacts
<1>0. \A a \in Commands : << a >> \in Seq(Artifacts)
  BY DEF FreshnessAssumption
<1>2. \A p \in Producers : ~ Active(p)
  BY DEF Init, Active, Ended
<1>3. queue \in [Producers -> Seq(Artifacts)]
  <2>1. queue \in [Producers -> {RegenerationOrder} \cup {<< a >> : a \in Commands}]
    BY DEF Init
  <2>2. {RegenerationOrder} \cup {<< a >> : a \in Commands} \subseteq Seq(Artifacts)
    BY <1>0, <1>1
  <2> QED BY <2>1, <2>2
<1>4. TypeOK
  BY <1>2, <1>3 DEF Init, TypeOK, Places, Absent, NoRecords
<1>5. LockInv /\ NoticesOverlaps
  BY <1>2 DEF Init, LockInv, NoticesOverlaps
<1>6. ASSUME NEW a \in Artifacts PROVE Traceable(a)
  <2>1. Recorded(a) = << >>
    BY DEF Init, Recorded, NoRecords, NoRecord
  <2>2. DOMAIN Recorded(a) = {}
    BY <2>1
  <2> QED BY <2>2 DEF Traceable, Before
<1>7. VersionInv
  BY <1>2, <1>6 DEF VersionInv, Tracked
<1> QED BY <1>4, <1>5, <1>7 DEF IInv

LEMMA TailOfSequence ==
  ASSUME NEW S, NEW s \in Seq(S), s # << >>
  PROVE  Tail(s) \in Seq(S)
OBVIOUS

LEMMA TypesPreserved ==
  ASSUME FreshnessAssumption, TypeOK, LockInv, Next
  PROVE  TypeOK'
<1>1. file' \in [Files -> Nat]
  BY FilesAge
<1> DEFINE Rest == /\ pc' \in [Producers -> Places]
                   /\ queue' \in [Producers -> Seq(Artifacts)]
                   /\ stage' \in [Producers -> {"init", "update"}]
                   /\ DOMAIN captured' = Producers /\ DOMAIN loaded' = Producers
                   /\ DOMAIN view' = Producers
                   /\ DOMAIN made' = Artifacts /\ DOMAIN sidecar'.records = Artifacts
                   /\ sidecar' = [exists |-> sidecar'.exists, records |-> sidecar'.records]
                   /\ \A p \in Producers : pc'[p] \notin Ended => queue'[p] # << >>
<1> USE DEF TypeOK, Places, Goto, Ended, Active
<1>2. ASSUME NEW p \in Producers, Start(p) PROVE Rest
  BY <1>2 DEF Start
<1>3. ASSUME NEW p \in Producers, TakeLock(p) PROVE Rest
  BY <1>3 DEF TakeLock, Locked
<1>4. ASSUME NEW p \in Producers, GiveUp(p) \/ RefuseMissing(p) \/ RefuseChanged(p) PROVE Rest
  <2>1. CASE GiveUp(p)
    BY <2>1 DEF GiveUp, Fail, Forget
  <2>2. CASE RefuseMissing(p)
    BY <2>2 DEF RefuseMissing, Fail, Forget
  <2>3. CASE RefuseChanged(p)
    BY <2>3 DEF RefuseChanged, Fail, Forget
  <2> QED BY <1>4, <2>1, <2>2, <2>3
<1>5. ASSUME NEW p \in Producers, WriteSidecar(p) PROVE Rest
  <2> DEFINE records == IF stage[p] = "init" THEN NoRecords
                        ELSE [loaded[p] EXCEPT ![Art(p)] = captured[p]]
  <2>1. DOMAIN records = Artifacts
    <3>1. DOMAIN NoRecords = Artifacts /\ DOMAIN loaded[p] = Artifacts
      BY <1>5 DEF WriteSidecar, NoRecords, LockInv
    <3> QED BY <3>1
  <2>2. sidecar' = [exists |-> TRUE, records |-> records]
    BY <1>5 DEF WriteSidecar
  <2>3. /\ pc[p] \notin Ended /\ pc' \in [Producers -> Places]
        /\ \A q \in Producers \ {p} : pc'[q] = pc[q]
        /\ UNCHANGED << queue, stage, captured, loaded, view, made >>
    BY <1>5 DEF WriteSidecar
  <2> HIDE DEF records
  <2> QED BY <2>1, <2>2, <2>3
<1>6. ASSUME NEW p \in Producers, Release(p) PROVE Rest
  BY <1>6 DEF Release
<1>7. ASSUME NEW p \in Producers, Preflight(p) PROVE Rest
  BY <1>7 DEF Preflight
<1>8. ASSUME NEW p \in Producers, Render(p) PROVE Rest
  BY <1>8 DEF Render
<1>9. ASSUME NEW p \in Producers, Write(p) \/ Snapshot(p) PROVE Rest
  <2>1. /\ pc[p] \notin Ended /\ pc' \in [Producers -> Places]
        /\ \A q \in Producers \ {p} : pc'[q] = pc[q]
    <3>1. pc[p] \in {"write", "snapshot"} /\ \E place \in {"record", "written"} :
            pc' = [pc EXCEPT ![p] = place]
      <4>1. CASE Write(p)
        BY <4>1 DEF Write, Replace
      <4>2. CASE Snapshot(p)
        BY <4>2 DEF Snapshot, Replace
      <4> QED BY <1>9, <4>1, <4>2
    <3>2. pc \in [Producers -> Places]
      OBVIOUS
    <3> HIDE DEF TypeOK
    <3> QED BY <3>1, <3>2
  <2>2. /\ UNCHANGED << queue, stage, captured, loaded, view, sidecar >>
        /\ DOMAIN made' = DOMAIN made
    <3>1. CASE Write(p)
      BY <3>1 DEF Write, Replace
    <3>2. CASE Snapshot(p)
      BY <3>2 DEF Snapshot, Replace
    <3> QED BY <1>9, <3>1, <3>2
  <2> QED BY <2>1, <2>2
<1>10. ASSUME NEW p \in Producers, Record(p) PROVE Rest
  BY <1>10 DEF Record
<1>11. ASSUME NEW p \in Producers, Finish(p) PROVE Rest
  <2>1. queue[p] \in Seq(Artifacts) /\ queue[p] # << >>
    BY <1>11 DEF Finish
  <2>2. Tail(queue[p]) \in Seq(Artifacts)
    BY <2>1, TailOfSequence
  <2>3. queue' = [queue EXCEPT ![p] = Tail(queue[p])]
    BY <1>11 DEF Finish
  <2>4. queue' \in [Producers -> Seq(Artifacts)]
    BY <2>2, <2>3
  <2>5. pc'[p] \in {"done", "idle"} /\ pc' \in [Producers -> Places]
        /\ \A q \in Producers \ {p} : pc'[q] = pc[q] /\ queue'[q] = queue[q]
    BY <1>11, <2>3 DEF Finish
  <2>6. DOMAIN captured' = Producers /\ DOMAIN loaded' = Producers /\ DOMAIN view' = Producers
    BY <1>11 DEF Finish, Forget
  <2>7. UNCHANGED << stage, made, sidecar >>
    BY <1>11 DEF Finish
  <2> QED BY <2>4, <2>5, <2>6, <2>7
<1>12. ASSUME NEW p \in Producers, Kill(p) PROVE Rest
  BY <1>12 DEF Kill, Forget
<1>13. ASSUME NEW f, EditSource(f) PROVE Rest
  BY <1>13 DEF EditSource
<1> HIDE DEF Rest
<1>14. Rest
  BY <1>2, <1>3, <1>4, <1>5, <1>6, <1>7, <1>8, <1>9, <1>10, <1>11, <1>12, <1>13 DEF Next, Step
<1> QED BY <1>1, <1>14 DEF Rest

LEMMA LockPreserved ==
  ASSUME FreshnessAssumption, TypeOK, LockInv, Next
  PROVE  LockInv'
<1> USE DEF TypeOK, LockInv, Goto
<1>1. \A p \in Producers : p # Nobody
  BY DEF FreshnessAssumption
<1>2. ASSUME NEW p \in Producers, TakeLock(p) PROVE LockInv'
  BY <1>1, <1>2 DEF TakeLock, Locked
<1>3. ASSUME NEW p \in Producers, WriteSidecar(p) PROVE LockInv'
  BY <1>3 DEF WriteSidecar
<1>4. ASSUME NEW p \in Producers, Release(p) PROVE LockInv'
  BY <1>4 DEF Release
<1>5. ASSUME NEW p \in Producers, UNCHANGED << sidecar, lock >>,
             \A q \in Producers \ {p} :
               pc'[q] = pc[q] /\ stage'[q] = stage[q] /\ loaded'[q] = loaded[q],
             pc'[p] \notin {"write sidecar", "release"}
      PROVE  LockInv'
  BY <1>5
<1>6. ASSUME NEW p \in Producers,
             \/ Start(p) \/ GiveUp(p) \/ Preflight(p) \/ RefuseMissing(p) \/ Render(p) \/ Write(p)
             \/ Record(p) \/ RefuseChanged(p) \/ Snapshot(p) \/ Finish(p) \/ Kill(p)
      PROVE  LockInv'
  <2>1. UNCHANGED << sidecar, lock >> /\ pc'[p] \notin {"write sidecar", "release"}
    BY <1>6 DEF Start, GiveUp, Preflight, RefuseMissing, Render, Write, Record, RefuseChanged,
                Snapshot, Finish, Kill, Fail, Replace
  <2>2. \A q \in Producers \ {p} :
          pc'[q] = pc[q] /\ stage'[q] = stage[q] /\ loaded'[q] = loaded[q]
    BY <1>6 DEF Start, GiveUp, Preflight, RefuseMissing, Render, Write, Record, RefuseChanged,
                Snapshot, Finish, Kill, Fail, Replace, Forget
  <2> QED BY <1>5, <2>1, <2>2
<1>7. ASSUME NEW f, EditSource(f) PROVE LockInv'
  BY <1>7 DEF EditSource
<1> QED BY <1>2, <1>3, <1>4, <1>6, <1>7 DEF Next, Step

LEMMA OverlapsPreserved ==
  ASSUME TypeOK, NoticesOverlaps, Next
  PROVE  NoticesOverlaps' /\ overlapped \subseteq overlapped'
<1> DEFINE Noticed == NoticesOverlaps' /\ overlapped \subseteq overlapped'
<1> USE DEF TypeOK, Goto
<1>1. ASSUME NEW p \in Producers, Start(p) PROVE Noticed
  <2>1. /\ queue' = queue
        /\ overlapped' = overlapped \cup
             {Art(p) : q \in {q \in Producers \ {p} : pc[q] \notin Ended /\ Art(q) = Art(p)}}
        /\ \A q \in Producers \ {p} : pc'[q] = pc[q]
    BY <1>1 DEF Start
  <2>2. \A q \in Producers : Art(q)' = Art(q)
    BY <2>1 DEF Art
  <2>3. \A q \in Producers \ {p} : Active(q)' = Active(q)
    BY <2>1 DEF Active
  <2>4. \A q \in Producers \ {p} : Active(q) /\ Art(q) = Art(p) => Art(p) \in overlapped'
    BY <2>1 DEF Active
  <2> QED BY <2>1, <2>2, <2>3, <2>4 DEF NoticesOverlaps
<1>2. ASSUME overlapped' = overlapped,
             \A q \in Producers : Active(q)' => Active(q) /\ Art(q)' = Art(q)
      PROVE  Noticed
  BY <1>2 DEF NoticesOverlaps
<1>3. ASSUME NEW p \in Producers,
             \/ TakeLock(p) \/ GiveUp(p) \/ WriteSidecar(p) \/ Release(p) \/ Preflight(p)
             \/ RefuseMissing(p) \/ Render(p) \/ Write(p) \/ Record(p) \/ RefuseChanged(p)
             \/ Snapshot(p) \/ Finish(p) \/ Kill(p)
      PROVE  Noticed
  <2>1. Active(p) /\ overlapped' = overlapped
    BY <1>3 DEF TakeLock, GiveUp, WriteSidecar, Release, Preflight, RefuseMissing, Render, Write,
                Record, RefuseChanged, Snapshot, Finish, Kill, Locked, Fail, Replace, Active, Ended
  <2>2. \A q \in Producers \ {p} : pc'[q] = pc[q] /\ queue'[q] = queue[q]
    BY <1>3 DEF TakeLock, GiveUp, WriteSidecar, Release, Preflight, RefuseMissing, Render, Write,
                Record, RefuseChanged, Snapshot, Finish, Kill, Locked, Fail, Replace
  <2>3. pc'[p] \in Ended \/ queue' = queue
    BY <1>3 DEF TakeLock, GiveUp, WriteSidecar, Release, Preflight, RefuseMissing, Render, Write,
                Record, RefuseChanged, Snapshot, Finish, Kill, Locked, Fail, Replace, Ended
  <2> QED BY <1>2, <2>1, <2>2, <2>3 DEF Active, Art
<1>4. ASSUME NEW f, EditSource(f) PROVE Noticed
  BY <1>2, <1>4 DEF EditSource, Active, Art
<1> HIDE DEF Noticed
<1>5. Noticed
  BY <1>1, <1>3, <1>4 DEF Next, Step
<1> QED BY <1>5 DEF Noticed
-----------------------------------------------------------------------------
(* Versions stay in order. *)

LEMMA ContentIsFiles == ASSUME NEW a PROVE Content(a) \subseteq Files
BY DEF Content

(* A file on disk does not fall behind. *)
LEMMA BeforeAges ==
  ASSUME FreshnessAssumption, TypeOK, Next, NEW a, NEW c, Before(a, c, file)
  PROVE  Before(a, c, file')
<1>1. file \in [Files -> Nat] /\ file' \in [Files -> Nat] /\ \A f \in Files : Older(f, file[f], file'[f])
  BY FilesAge DEF TypeOK
<1>2. ASSUME NEW f \in DOMAIN c
      PROVE  f \in Content(a) /\ c[f] \in Nat /\ file'[f] \in Nat /\ Older(f, c[f], file'[f])
  <2>1. f \in Content(a) /\ f \in Files /\ c[f] \in Nat /\ Older(f, c[f], file[f])
    BY ContentIsFiles DEF Before
  <2> QED BY <1>1, <2>1, OlderOrders
<1> QED BY <1>2 DEF Before

(* What Traceable and Tracked say, for given values. *)
TraceableAs(a, recorded, rendered, disk) ==
  Before(a, recorded, rendered) /\ \A f \in DOMAIN recorded : Older(f, rendered[f], disk[f])

(* A record and a rendering of its inputs that are unchanged stay in order. *)
LEMMA TraceableAges ==
  ASSUME FreshnessAssumption, TypeOK, Next, NEW a, NEW r, NEW v, TraceableAs(a, r, v, file)
  PROVE  TraceableAs(a, r, v, file')
<1>1. file \in [Files -> Nat] /\ file' \in [Files -> Nat] /\ \A f \in Files : Older(f, file[f], file'[f])
  BY FilesAge DEF TypeOK
<1>2. ASSUME NEW f \in DOMAIN r PROVE Older(f, v[f], file'[f])
  <2>1. f \in Files /\ v[f] \in Nat /\ Older(f, v[f], file[f])
    BY ContentIsFiles DEF TraceableAs, Before
  <2> QED BY <1>1, <2>1, OlderOrders
<1> QED BY <1>2 DEF TraceableAs

(* A record of no later content than a rendering made of files on disk. *)
LEMMA RenderedIsTraceable ==
  ASSUME NEW a, NEW r, NEW v, NEW disk,
         Before(a, r, v), v \in [Content(a) -> Nat], Before(a, v, disk)
  PROVE  TraceableAs(a, r, v, disk)
BY DEF TraceableAs, Before

LEMMA NoRecordIsTraceable ==
  ASSUME NEW a, NEW v, NEW disk
  PROVE  TraceableAs(a, << >>, v, disk) /\ Before(a, << >>, v)
<1>1. DOMAIN << >> = {}
  OBVIOUS
<1> QED BY <1>1 DEF TraceableAs, Before

(* A session whose own state a step leaves alone. *)
LEMMA OthersTracked ==
  ASSUME FreshnessAssumption, TypeOK, Next, NEW q \in Producers, Tracked(q),
         pc'[q] = pc[q], queue'[q] = queue[q], stage'[q] = stage[q],
         captured'[q] = captured[q], view'[q] = view[q], overlapped \subseteq overlapped',
         Active(q) /\ Art(q) \notin overlapped' =>
           /\ made'[Art(q)] = made[Art(q)]
           /\ Recorded(Art(q))' = Recorded(Art(q)) \/ Recorded(Art(q))' = << >>
  PROVE  Tracked(q)'
<1> DEFINE a == Art(q)
           c == captured[q].content
           v == view[q]
           m == made[a]
           r == Recorded(a)
<1>1. /\ Active(q)' = Active(q) /\ Art(q)' = a /\ Producing(q)' = Producing(q)
      /\ captured'[q].content = c /\ view'[q] = v
  BY DEF Active, Art, Producing
<1> SUFFICES ASSUME Active(q), a \notin overlapped' \cup {Plan}
             PROVE  Tracked(q)'
  BY <1>1 DEF Tracked
<1>2. made'[a] = m /\ (Recorded(a)' = r \/ Recorded(a)' = << >>) /\ a \notin overlapped
  OBVIOUS
<1>3. Before(a, c, file) => Before(a, c, file')
  BY BeforeAges
<1>4. Before(a, v, file) => Before(a, v, file')
  BY BeforeAges
<1>5. Before(a, r, v) => Before(a, Recorded(a)', v)
  BY <1>2, NoRecordIsTraceable
<1>6. /\ pc[q] = "render" => Before(a, c, file)
      /\ pc[q] = "write" => /\ v \in [Content(a) -> Nat] /\ Before(a, v, file)
                            /\ Before(a, c, v) /\ Before(a, r, v)
      /\ Producing(q) => /\ v \in [Content(a) -> Nat] /\ Before(a, v, file)
                         /\ m = v /\ Before(a, c, v)
      /\ pc[q] = "snapshot" => Before(a, r, v)
  BY <1>2 DEF Tracked, Rendered
<1> HIDE DEF c, v, m, r
<1> QED BY <1>1, <1>2, <1>3, <1>4, <1>5, <1>6 DEF Tracked, Rendered

LEMMA TraceableStays ==
  ASSUME FreshnessAssumption, TypeOK, Next, NEW a \in Artifacts, Traceable(a),
         overlapped \subseteq overlapped', made'[a] = made[a],
         Recorded(a)' = Recorded(a) \/ Recorded(a)' = << >>
  PROVE  Traceable(a)'
<1> DEFINE r == Recorded(a)
           m == made[a]
<1> SUFFICES ASSUME a \notin overlapped' \cup {Plan}
             PROVE  TraceableAs(a, Recorded(a)', made'[a], file')
  BY DEF Traceable, TraceableAs
<1>1. TraceableAs(a, r, m, file)
  BY DEF Traceable, TraceableAs
<1> HIDE DEF r, m
<1>2. TraceableAs(a, r, m, file') /\ TraceableAs(a, << >>, m, file')
  BY <1>1, TraceableAges, NoRecordIsTraceable
<1> QED BY <1>2 DEF r, m

(* A step of one session that writes neither report nor sidecar. *)
LEMMA QuietStep ==
  ASSUME FreshnessAssumption, IInv, Next, NEW p \in Producers, Tracked(p)',
         UNCHANGED << made, sidecar >>,
         \A q \in Producers \ {p} :
           /\ pc'[q] = pc[q] /\ queue'[q] = queue[q] /\ stage'[q] = stage[q]
           /\ captured'[q] = captured[q] /\ view'[q] = view[q]
  PROVE  VersionInv'
<1>1. overlapped \subseteq overlapped'
  BY OverlapsPreserved DEF IInv
<1>2. \A a : Recorded(a)' = Recorded(a)
  BY DEF Recorded
<1>3. ASSUME NEW q \in Producers PROVE Tracked(q)'
  <2>1. CASE q = p BY <2>1
  <2>2. CASE q # p
    <3>1. Tracked(q) /\ TypeOK BY DEF IInv, VersionInv
    <3>2. /\ pc'[q] = pc[q] /\ queue'[q] = queue[q] /\ stage'[q] = stage[q]
          /\ captured'[q] = captured[q] /\ view'[q] = view[q]
      BY <2>2
    <3>3. made'[Art(q)] = made[Art(q)] /\ Recorded(Art(q))' = Recorded(Art(q))
      BY <3>2 DEF Recorded, Art
    <3> QED BY <1>1, <3>1, <3>2, <3>3, OthersTracked
  <2> QED BY <2>1, <2>2
<1>4. ASSUME NEW a \in Artifacts PROVE Traceable(a)'
  <2>1. Traceable(a) BY DEF IInv, VersionInv
  <2> QED BY <1>1, <1>2, <2>1, TraceableStays DEF IInv
<1> QED BY <1>3, <1>4 DEF VersionInv

(* What a session captures of its inputs. *)
LEMMA CapturedIsOfNow ==
  ASSUME FreshnessAssumption, TypeOK, Next, NEW a
  PROVE  Before(a, Capture(a).content, file')
<1> DEFINE content == {f \in Content(a) : f \in (Collections[a] \cup Scanned(a)) \ StaticContent[a] => Present(f)}
           c == [f \in content |-> file[f]]
<1>1. Capture(a).content = c
  BY DEF Capture
<1>2. Before(a, c, file)
  <2>1. content \subseteq Content(a) /\ content \subseteq Files
    BY ContentIsFiles
  <2> HIDE DEF content
  <2>2. \A f \in DOMAIN c : f \in Content(a) /\ c[f] = file[f] /\ file[f] \in Nat
    BY <2>1 DEF TypeOK
  <2> HIDE DEF c
  <2> QED BY <2>2, OlderOrders DEF Before
<1> HIDE DEF c
<1> QED BY <1>1, <1>2, BeforeAges

(* What a session renders, having captured its inputs before. *)
LEMMA RenderedIsOfNow ==
  ASSUME FreshnessAssumption, TypeOK, Next, NEW a, NEW c
  PROVE  LET v == [f \in Content(a) |-> file[f]] IN
         /\ v \in [Content(a) -> Nat] /\ Before(a, v, file')
         /\ Before(a, c, file) => Before(a, c, v)
<1> DEFINE v == [f \in Content(a) |-> file[f]]
<1>1. v \in [Content(a) -> Nat] /\ \A f \in Content(a) : v[f] = file[f]
  BY ContentIsFiles DEF TypeOK
<1> HIDE DEF v
<1>2. Before(a, v, file)
  BY <1>1, OlderOrders DEF Before
<1>3. Before(a, c, file) => Before(a, c, v)
  BY <1>1 DEF Before
<1> QED BY <1>1, <1>2, <1>3, BeforeAges DEF v

LEMMA VersionsPreserved ==
  ASSUME FreshnessAssumption, IInv, Next
  PROVE  VersionInv'
<1> USE DEF Goto
<1>1. TypeOK /\ LockInv /\ NoticesOverlaps /\ overlapped \subseteq overlapped'
      /\ (\A p \in Producers : Tracked(p)) /\ (\A a \in Artifacts : Traceable(a))
  BY OverlapsPreserved DEF IInv, VersionInv
<1>2. ASSUME NEW p \in Producers,
             \/ Start(p) \/ GiveUp(p) \/ RefuseMissing(p) \/ RefuseChanged(p) \/ Finish(p) \/ Kill(p)
      PROVE  VersionInv'
  <2>1. pc'[p] \in Ended \/ (pc'[p] = "lock" /\ stage'[p] = "init")
    BY <1>1, <1>2 DEF Start, GiveUp, RefuseMissing, RefuseChanged, Finish, Kill, Fail, Ended, TypeOK
  <2>2. Tracked(p)'
    BY <2>1 DEF Tracked, Active, Producing, Ended
  <2>3. UNCHANGED << made, sidecar >>
    BY <1>2 DEF Start, GiveUp, RefuseMissing, RefuseChanged, Finish, Kill, Fail
  <2>4. \A q \in Producers \ {p} :
          /\ pc'[q] = pc[q] /\ queue'[q] = queue[q] /\ stage'[q] = stage[q]
          /\ captured'[q] = captured[q] /\ view'[q] = view[q]
    BY <1>1, <1>2 DEF Start, GiveUp, RefuseMissing, RefuseChanged, Finish, Kill, Fail, Forget, TypeOK
  <2> QED BY <2>2, <2>3, <2>4, QuietStep
<1>3. ASSUME NEW p \in Producers, TakeLock(p) \/ Record(p) \/ Release(p)
      PROVE  VersionInv'
  <2> DEFINE a == Art(p)
             c == captured[p].content
             v == view[p]
             r == Recorded(a)
  <2>1. /\ UNCHANGED << made, sidecar, queue, captured, view, file, overlapped >>
        /\ \A q \in Producers \ {p} : pc'[q] = pc[q] /\ stage'[q] = stage[q]
    BY <1>1, <1>3 DEF TakeLock, Locked, Record, Release, TypeOK
  <2>2. Active(p) /\ Active(p)'
    BY <1>1, <1>3 DEF TakeLock, Locked, Record, Release, Active, Ended, TypeOK
  <2>3. /\ Producing(p)' => Producing(p)
        /\ pc'[p] = "snapshot" => Producing(p)
        /\ pc'[p] = "render" => a = Plan
        /\ pc'[p] # "write"
    BY <1>1, <1>3 DEF TakeLock, Locked, Record, Release, Producing, RendersFirst, Plan, TypeOK
  <2>4. a \in Artifacts
    BY <1>1, <2>2, ArtIsArtifact DEF TypeOK
  <2>5. a \notin overlapped \cup {Plan} /\ Producing(p) =>
          /\ Rendered(a, v) /\ made[a] = v /\ Before(a, c, v) /\ Before(a, r, v)
    BY <1>1, <2>2, <2>4 DEF Tracked, Traceable
  <2>6. Art(p)' = a /\ Recorded(a)' = r
    BY <2>1 DEF Art, Recorded
  <2>7. Tracked(p)'
    BY <2>1, <2>2, <2>3, <2>5, <2>6 DEF Tracked, Rendered
  <2> QED BY <2>1, <2>7, QuietStep
<1>4. ASSUME NEW p \in Producers, Preflight(p) PROVE VersionInv'
  <2>1. /\ UNCHANGED << made, sidecar, queue, stage, view, file, overlapped >>
        /\ \A q \in Producers \ {p} : pc'[q] = pc[q] /\ captured'[q] = captured[q]
        /\ captured'[p] = Capture(Art(p))
    BY <1>1, <1>4 DEF Preflight, TypeOK
  <2>2. pc'[p] = "render" \/ (pc'[p] = "write" /\ Art(p) = Plan)
    BY <1>1, <1>4 DEF Preflight, RendersFirst, Plan, TypeOK
  <2>3. Art(p)' = Art(p)
    BY <2>1 DEF Art
  <2>4. Before(Art(p), Capture(Art(p)).content, file')
    BY <1>1, CapturedIsOfNow
  <2>5. Tracked(p)'
    BY <2>1, <2>2, <2>3, <2>4 DEF Tracked, Producing
  <2> QED BY <2>1, <2>5, QuietStep
<1>5. ASSUME NEW p \in Producers, Render(p) PROVE VersionInv'
  <2> DEFINE a == Art(p)
             c == captured[p].content
             v == [f \in Content(a) |-> file[f]]
             r == Recorded(a)
  <2>1. /\ UNCHANGED << made, sidecar, queue, stage, captured, file, overlapped >>
        /\ \A q \in Producers \ {p} : pc'[q] = pc[q] /\ view'[q] = view[q]
        /\ view'[p] = v /\ pc[p] = "render"
    BY <1>1, <1>5 DEF Render, TypeOK
  <2>2. (pc'[p] = "write" /\ a # Plan) \/ (pc'[p] = "preflight" /\ a = Plan)
    BY <1>1, <1>5 DEF Render, RendersFirst, Plan, TypeOK
  <2>3. Art(p)' = a /\ Recorded(a)' = r
    BY <2>1 DEF Art, Recorded
  <2>4. a \in Artifacts /\ Active(p)
    BY <1>1, <2>1, ArtIsArtifact DEF TypeOK, Active, Ended
  <2>5. /\ v \in [Content(a) -> Nat] /\ Before(a, v, file')
        /\ Before(a, c, file) => Before(a, c, v)
        /\ Before(a, r, file) => Before(a, r, v)
    BY <1>1, RenderedIsOfNow
  <2>6. a \notin overlapped \cup {Plan} => Before(a, c, file)
    BY <1>1, <2>1, <2>4 DEF Tracked
  <2>7. a \notin overlapped \cup {Plan} => Before(a, r, file)
    <3> SUFFICES ASSUME a \notin overlapped \cup {Plan} PROVE Before(a, r, file)
      OBVIOUS
    <3>1. Before(a, r, made[a]) /\ \A f \in DOMAIN r : Older(f, made[a][f], file[f])
      BY <1>1, <2>4 DEF Traceable
    <3>2. ASSUME NEW f \in DOMAIN r
          PROVE  f \in Content(a) /\ r[f] \in Nat /\ file[f] \in Nat /\ Older(f, r[f], file[f])
      <4>1. /\ f \in Content(a) /\ r[f] \in Nat /\ made[a][f] \in Nat
            /\ Older(f, r[f], made[a][f]) /\ Older(f, made[a][f], file[f])
        BY <3>1 DEF Before
      <4>2. file[f] \in Nat
        BY <1>1, <4>1, ContentIsFiles DEF TypeOK
      <4> DEFINE x == r[f]
                 y == made[a][f]
                 z == file[f]
      <4>3. x \in Nat /\ y \in Nat /\ z \in Nat /\ Older(f, x, y) /\ Older(f, y, z)
        BY <4>1, <4>2
      <4>4. Older(f, x, z)
        <5> HIDE DEF x, y, z
        <5> QED BY <4>3, OlderOrders
      <4> QED BY <4>1, <4>3, <4>4
    <3> HIDE DEF r
    <3> QED BY <3>2 DEF Before
  <2> HIDE DEF v, r, c
  <2>8. Tracked(p)'
    BY <2>1, <2>2, <2>3, <2>5, <2>6, <2>7 DEF Tracked, Producing, Rendered, c
  <2> QED BY <2>1, <2>8, QuietStep
<1>6. ASSUME NEW p \in Producers, Write(p) \/ Snapshot(p) PROVE VersionInv'
  <2> DEFINE a == Art(p)
             c == captured[p].content
             v == view[p]
             r == Recorded(a)
  <2>1. /\ UNCHANGED << sidecar, queue, stage, captured, view, overlapped >>
        /\ \A q \in Producers \ {p} : pc'[q] = pc[q]
        /\ made' = [made EXCEPT ![a] = v]
    BY <1>1, <1>6 DEF Write, Snapshot, Replace, TypeOK
  <2>2. /\ pc[p] = "write" \/ (pc[p] = "snapshot" /\ pc'[p] = "written")
        /\ pc'[p] \in {"record", "written"}
    BY <1>1, <1>6 DEF Write, Snapshot, Replace, TypeOK
  <2>3. Art(p)' = a /\ \A b : Recorded(b)' = Recorded(b)
    BY <2>1 DEF Art, Recorded
  <2>4. a \in Artifacts /\ Active(p) /\ made'[a] = v
    BY <1>1, <1>6, <2>1, ArtIsArtifact DEF TypeOK, Active, Ended, Write, Snapshot
  <2>5. a \notin overlapped \cup {Plan} => v \in [Content(a) -> Nat] /\ Before(a, v, file) /\ Before(a, r, v)
    <3>1. CASE pc[p] = "write"
      BY <1>1, <2>4, <3>1 DEF Tracked, Rendered
    <3>2. CASE pc[p] = "snapshot"
      BY <1>1, <1>6, <2>4, <3>2 DEF Tracked, Rendered, Producing
    <3> QED BY <2>2, <3>1, <3>2
  <2>6. Before(a, v, file) => Before(a, v, file')
    BY <1>1, BeforeAges
  <2>7. Tracked(p)'
    <3>1. CASE pc'[p] = "written"
      BY <3>1 DEF Tracked, Producing
    <3>2. CASE pc'[p] = "record"
      <4>1. pc[p] = "write"
        BY <2>2, <3>2
      <4>2. a \notin overlapped \cup {Plan} => Before(a, c, v)
        BY <1>1, <2>4, <4>1 DEF Tracked
      <4> QED BY <2>1, <2>3, <2>4, <2>5, <2>6, <3>2, <4>2 DEF Tracked, Rendered
    <3> QED BY <2>2, <3>1, <3>2
  <2>8. ASSUME NEW q \in Producers PROVE Tracked(q)'
    <3>1. CASE q = p BY <2>7, <3>1
    <3>2. CASE q # p
      <4>1. /\ pc'[q] = pc[q] /\ queue'[q] = queue[q] /\ stage'[q] = stage[q]
            /\ captured'[q] = captured[q] /\ view'[q] = view[q] /\ Tracked(q)
        BY <1>1, <2>1, <3>2
      <4>2. Active(q) /\ Art(q) \notin overlapped' => Art(q) # a
        BY <1>1, <2>1, <2>4, <3>2 DEF NoticesOverlaps
      <4>3. Active(q) /\ Art(q) \notin overlapped' => made'[Art(q)] = made[Art(q)]
        <5>1. Active(q) => Art(q) \in Artifacts
          BY <1>1, ArtIsArtifact DEF TypeOK
        <5> QED BY <1>1, <2>1, <4>2, <5>1 DEF TypeOK
      <4>4. Recorded(Art(q))' = Recorded(Art(q))
        BY <4>1, <2>1 DEF Art, Recorded
      <4> QED BY <1>1, <4>1, <4>3, <4>4, OthersTracked
    <3> QED BY <3>1, <3>2
  <2>9. ASSUME NEW b \in Artifacts PROVE Traceable(b)'
    <3>1. CASE b = a
      <4> SUFFICES ASSUME a \notin overlapped' \cup {Plan} PROVE TraceableAs(a, r, v, file')
        BY <2>3, <2>4, <3>1 DEF Traceable, TraceableAs
      <4>1. v \in [Content(a) -> Nat] /\ Before(a, v, file') /\ Before(a, r, v)
        BY <2>1, <2>5, <2>6
      <4> HIDE DEF a, r, v
      <4> QED BY <4>1, RenderedIsTraceable
    <3>2. CASE b # a
      <4>1. made'[b] = made[b]
        BY <1>1, <2>1, <3>2 DEF TypeOK
      <4> QED BY <1>1, <2>3, <4>1, TraceableStays
    <3> QED BY <3>1, <3>2
  <2> QED BY <2>8, <2>9 DEF VersionInv
<1>7. ASSUME NEW p \in Producers, WriteSidecar(p) PROVE VersionInv'
  <2> DEFINE a == Art(p)
             c == captured[p].content
             v == view[p]
  <2>1. /\ UNCHANGED << made, file, queue, stage, captured, view, overlapped >>
        /\ \A q \in Producers \ {p} : pc'[q] = pc[q]
        /\ pc[p] = "write sidecar" /\ pc'[p] = "release"
    BY <1>1, <1>7 DEF WriteSidecar, TypeOK
  <2>2. a \in Artifacts /\ Active(p)
    BY <1>1, <2>1, ArtIsArtifact DEF TypeOK, Active, Ended
  <2>3. \A b \in Artifacts :
          \/ Recorded(b)' = Recorded(b) \/ Recorded(b)' = << >>
          \/ stage[p] = "update" /\ b = a /\ Recorded(b)' = c
    <3>1. CASE stage[p] = "init"
      BY <1>7, <3>1 DEF WriteSidecar, Recorded, NoRecords, NoRecord
    <3>2. CASE stage[p] = "update"
      <4>1. sidecar'.records = [sidecar.records EXCEPT ![a] = captured[p]] /\ DOMAIN sidecar.records = Artifacts
        BY <1>1, <1>7, <3>2 DEF WriteSidecar, LockInv, TypeOK
      <4> QED BY <3>2, <4>1 DEF Recorded
    <3> QED BY <1>1, <3>1, <3>2 DEF TypeOK
  <2>4. Art(p)' = a /\ Producing(p)' = Producing(p) /\ Active(p)' = Active(p)
    BY <2>1, <2>2 DEF Art, Producing, Active, Ended
  <2>5. Tracked(p)'
    BY <1>1, <2>1, <2>2, <2>4 DEF Tracked, Rendered
  <2>6. ASSUME NEW q \in Producers PROVE Tracked(q)'
    <3>1. CASE q = p BY <2>5, <3>1
    <3>2. CASE q # p
      <4>1. /\ pc'[q] = pc[q] /\ queue'[q] = queue[q] /\ stage'[q] = stage[q]
            /\ captured'[q] = captured[q] /\ view'[q] = view[q] /\ Tracked(q)
        BY <1>1, <2>1, <3>2
      <4>2. Active(q) /\ Art(q) \notin overlapped' => Art(q) # a
        BY <1>1, <2>1, <2>2, <3>2 DEF NoticesOverlaps
      <4>3. Active(q) => Art(q) \in Artifacts /\ Art(q)' = Art(q)
        BY <1>1, <4>1, ArtIsArtifact DEF TypeOK, Art
      <4>4. Active(q) /\ Art(q) \notin overlapped' =>
              Recorded(Art(q))' = Recorded(Art(q)) \/ Recorded(Art(q))' = << >>
        <5> DEFINE b == Art(q)
        <5>1. Active(q) /\ b \notin overlapped' => b \in Artifacts /\ b # a /\ b' = b
          BY <4>2, <4>3
        <5>2. Active(q) /\ b \notin overlapped' =>
                sidecar'.records[b].content = Recorded(b) \/ sidecar'.records[b].content = << >>
          BY <2>3, <5>1 DEF Recorded
        <5> QED BY <5>1, <5>2 DEF Recorded
      <4>5. made' = made
        BY <2>1
      <4>6. Active(q) /\ Art(q) \notin overlapped' => made'[Art(q)] = made[Art(q)]
        BY <4>5
      <4> QED BY <1>1, <4>1, <4>4, <4>6, OthersTracked
    <3> QED BY <3>1, <3>2
  <2>7. ASSUME NEW b \in Artifacts PROVE Traceable(b)'
    <3>1. CASE Recorded(b)' = Recorded(b) \/ Recorded(b)' = << >>
      BY <1>1, <2>1, <3>1, TraceableStays
    <3>2. CASE stage[p] = "update" /\ b = a /\ Recorded(b)' = c
      <4> SUFFICES ASSUME a \notin overlapped' \cup {Plan} PROVE TraceableAs(a, c, v, file)
        <5>1. a \notin overlapped' \cup {Plan} => made[a] = v
          BY <1>1, <2>1, <2>2, <3>2 DEF Tracked, Producing
        <5> QED BY <2>1, <3>2, <5>1 DEF Traceable, TraceableAs
      <4>1. v \in [Content(a) -> Nat] /\ Before(a, v, file) /\ Before(a, c, v)
        BY <1>1, <2>1, <2>2, <3>2 DEF Tracked, Producing, Rendered
      <4> HIDE DEF a, c, v
      <4> QED BY <4>1, RenderedIsTraceable
    <3> QED BY <2>3, <3>1, <3>2
  <2> QED BY <2>6, <2>7 DEF VersionInv
<1>8. ASSUME NEW f, EditSource(f) PROVE VersionInv'
  <2>1. UNCHANGED << sidecar, pc, queue, stage, captured, view, made, overlapped >>
    BY <1>8 DEF EditSource
  <2>2. \A a : Recorded(a)' = Recorded(a)
    BY <2>1 DEF Recorded
  <2>3. ASSUME NEW q \in Producers PROVE Tracked(q)'
    <3>1. Recorded(Art(q))' = Recorded(Art(q)) /\ made'[Art(q)] = made[Art(q)]
      BY <2>1 DEF Art, Recorded
    <3> QED BY <1>1, <2>1, <3>1, OthersTracked
  <2>4. ASSUME NEW a \in Artifacts PROVE Traceable(a)'
    BY <1>1, <2>1, <2>2, TraceableStays
  <2> QED BY <2>3, <2>4 DEF VersionInv
<1> QED BY <1>2, <1>3, <1>4, <1>5, <1>6, <1>7, <1>8 DEF Next, Step

-----------------------------------------------------------------------------
(* What the versions and the lock entail. *)

LEMMA FreshnessInvariant ==
  ASSUME FreshnessAssumption
  PROVE  Spec => []IInv
<1>1. Init => IInv
  BY FreshnessStarts
<1>2. IInv /\ [Next]_vars => IInv'
  <2>1. ASSUME IInv, Next PROVE IInv'
    BY <2>1, TypesPreserved, LockPreserved, OverlapsPreserved, VersionsPreserved DEF IInv
  <2>2. ASSUME IInv, UNCHANGED vars PROVE IInv'
    <3> USE <2>2 DEF IInv, vars
    <3>1. TypeOK'
      BY DEF TypeOK, Active
    <3>2. LockInv'
      BY DEF LockInv
    <3>3. NoticesOverlaps'
      BY DEF NoticesOverlaps, Active, Art
    <3>4. VersionInv'
      <4>1. ASSUME NEW q \in Producers PROVE Tracked(q)'
        <5>1. Tracked(q)
          BY DEF VersionInv
        <5>2. Recorded(Art(q))' = Recorded(Art(q)) /\ Art(q)' = Art(q)
          BY DEF Recorded, Art
        <5>3. Active(q)' = Active(q) /\ Producing(q)' = Producing(q)
          BY DEF Active, Producing
        <5> QED BY <5>1, <5>2, <5>3 DEF Tracked, Rendered, Before
      <4>2. ASSUME NEW a \in Artifacts PROVE Traceable(a)'
        <5>1. Traceable(a)
          BY DEF VersionInv
        <5> QED BY <5>1 DEF Traceable, Recorded, Before
      <4> QED BY <4>1, <4>2 DEF VersionInv
    <3> QED BY <3>1, <3>2, <3>3, <3>4
  <2> QED BY <2>1, <2>2
<1> QED BY <1>1, <1>2, PTL DEF Spec

LEMMA OrderedVersionsAreCurrent ==
  ASSUME IInv
  PROVE  FreshMeansCurrent
<1> SUFFICES ASSUME NEW a \in Artifacts \ (overlapped \cup {Plan}), Assessed(a) = "fresh",
                    NEW f \in DOMAIN Recorded(a)
             PROVE  made[a][f] = file[f]
  BY DEF FreshMeansCurrent, Plan, Recorded
<1> DEFINE x == Recorded(a)[f]
           y == made[a][f]
           z == file[f]
<1>1. ~ Missing(a, sidecar.records[a]) /\ ~ Stale(sidecar.records[a])
  BY DEF Assessed
<1>2. x = z
  BY <1>1 DEF Missing, Stale, Present, Recorded
<1>3. Before(a, Recorded(a), made[a]) /\ Older(f, y, z)
  BY DEF IInv, VersionInv, Traceable
<1>4. x \in Nat /\ y \in Nat /\ Older(f, x, y)
  BY <1>3 DEF Before
<1> HIDE DEF x, y, z
<1>5. y = z
  BY <1>2, <1>3, <1>4, OlderOrders
<1> QED BY <1>5 DEF y, z

(* A report that is assessed as fresh was rendered from the content its inputs have *)
(* now (report_freshness.py, record_artifact and _assess_record), for any number of *)
(* sessions, sources, edits and kills.                                              *)
THEOREM FreshReportsAreCurrent ==
  ASSUME FreshnessAssumption
  PROVE  Spec => []FreshMeansCurrent
<1>1. IInv => FreshMeansCurrent
  BY OrderedVersionsAreCurrent
<1> QED BY <1>1, FreshnessInvariant, PTL

(* Concurrent producers do not lose one another's records (_update_sidecar and      *)
(* initialize_freshness, under the lock directory): who writes the sidecar has      *)
(* loaded what is in it.                                                            *)
THEOREM ConcurrentRecordsSurvive ==
  ASSUME FreshnessAssumption
  PROVE  Spec => RecordsSurvive
<1> DEFINE Kept(a) ==
      sidecar'.records[a] # sidecar.records[a] =>
        \E p \in Producers : /\ pc[p] = "write sidecar" /\ stage[p] = "update" /\ Art(p) = a
                             /\ sidecar'.records[a] = captured[p]
<1>1. ASSUME IInv, Next PROVE \A a \in Artifacts : Kept(a)
  <2>1. TypeOK /\ LockInv
    BY <1>1 DEF IInv
  <2>2. ASSUME NEW p \in Producers, WriteSidecar(p), NEW a \in Artifacts PROVE Kept(a)
    <3>1. pc[p] = "write sidecar" /\ DOMAIN sidecar.records = Artifacts
      BY <2>1, <2>2 DEF WriteSidecar, TypeOK
    <3>2. CASE stage[p] = "init"
      <4>1. sidecar'.records = sidecar.records
        BY <2>1, <2>2, <3>2 DEF WriteSidecar, LockInv
      <4> QED BY <4>1
    <3>3. CASE stage[p] = "update"
      <4>1. sidecar'.records = [sidecar.records EXCEPT ![Art(p)] = captured[p]]
        BY <2>1, <2>2, <3>3 DEF WriteSidecar, LockInv
      <4>2. CASE a = Art(p)
        BY <3>1, <3>3, <4>1, <4>2
      <4>3. CASE a # Art(p)
        BY <3>1, <4>1, <4>3
      <4> QED BY <4>2, <4>3
    <3> QED BY <2>1, <3>2, <3>3 DEF TypeOK
  <2>3. ASSUME sidecar' = sidecar PROVE \A a \in Artifacts : Kept(a)
    BY <2>3
  <2>4. ASSUME NEW p \in Producers,
               \/ Start(p) \/ TakeLock(p) \/ GiveUp(p) \/ Release(p) \/ Preflight(p)
               \/ RefuseMissing(p) \/ Render(p) \/ Write(p) \/ Record(p) \/ RefuseChanged(p)
               \/ Snapshot(p) \/ Finish(p) \/ Kill(p)
        PROVE  sidecar' = sidecar
    BY <2>4 DEF Start, TakeLock, GiveUp, Release, Preflight, RefuseMissing, Render, Write, Record,
                RefuseChanged, Snapshot, Finish, Kill, Locked, Fail, Replace
  <2>5. ASSUME NEW f, EditSource(f) PROVE sidecar' = sidecar
    BY <2>5 DEF EditSource
  <2> HIDE DEF Kept
  <2> QED BY <1>1, <2>2, <2>3, <2>4, <2>5 DEF Next, Step
<1>2. IInv /\ [Next]_vars => [\A a \in Artifacts : Kept(a)]_vars
  BY <1>1
<1>3. [][\A a \in Artifacts : Kept(a)]_vars => RecordsSurvive
  BY PTL DEF RecordsSurvive, Kept
<1> QED BY <1>2, <1>3, FreshnessInvariant, PTL DEF Spec
-----------------------------------------------------------------------------
(* The regeneration order. *)

Rest(k) == SubSeq(RegenerationOrder, k, 9)
Later(k) == {RegenerationOrder[m] : m \in k .. 9}
Earlier(k) == {RegenerationOrder[m] : m \in 1 .. k - 1}

LEMMA OrderByPlace ==
  ASSUME NEW m \in 1 .. 9
  PROVE  /\ RegenerationOrder[m] =
              IF m = 1 THEN "sarif" ELSE IF m = 2 THEN Plan ELSE IF m = 3 THEN "store_import_state"
              ELSE IF m \in {4, 8} THEN "metrics" ELSE IF m = 5 THEN "evidence_graph"
              ELSE IF m \in {6, 9} THEN "dashboard" ELSE "benchmark"
         /\ RegenerationOrder[m] \in Artifacts
BY DEF RegenerationOrder, Plan, Artifacts

(* Which artifacts are still to be produced when k - 1 commands have ended. *)
LEMMA OrderBySets ==
  /\ Later(1) = Artifacts
  /\ Later(2) = Artifacts \ {"sarif"}
  /\ Later(3) = Artifacts \ {"sarif", Plan}
  /\ Later(4) = {"metrics", "evidence_graph", "dashboard", "benchmark"}
  /\ Later(5) = {"metrics", "evidence_graph", "dashboard", "benchmark"}
  /\ Later(6) = {"metrics", "dashboard", "benchmark"}
  /\ Later(7) = {"metrics", "dashboard", "benchmark"}
  /\ Later(8) = {"metrics", "dashboard"}
  /\ Later(9) = {"dashboard"}
  /\ Later(10) = {}
<1>1. \A k \in 1 .. 10 : \A a : a \in Later(k) <=> \E m \in 1 .. 9 : m >= k /\ a = RegenerationOrder[m]
  BY DEF Later
<1>2. ASSUME NEW k \in 1 .. 10
      PROVE  Later(k) = {a \in Artifacts :
               \/ k <= 1 /\ a = "sarif"
               \/ k <= 2 /\ a = Plan
               \/ k <= 3 /\ a = "store_import_state"
               \/ k <= 8 /\ a = "metrics"
               \/ k <= 5 /\ a = "evidence_graph"
               \/ k <= 9 /\ a = "dashboard"
               \/ k <= 7 /\ a = "benchmark"}
  <2>1. SUFFICES ASSUME NEW a \in Artifacts
                 PROVE  (\E m \in 1 .. 9 : m >= k /\ a = RegenerationOrder[m]) <=>
                          \/ k <= 1 /\ a = "sarif"
                          \/ k <= 2 /\ a = Plan
                          \/ k <= 3 /\ a = "store_import_state"
                          \/ k <= 8 /\ a = "metrics"
                          \/ k <= 5 /\ a = "evidence_graph"
                          \/ k <= 9 /\ a = "dashboard"
                          \/ k <= 7 /\ a = "benchmark"
    BY <1>1, OrderByPlace
  <2>2. ASSUME NEW m \in 1 .. 9, m >= k, a = RegenerationOrder[m]
        PROVE  \/ k <= 1 /\ a = "sarif"
               \/ k <= 2 /\ a = Plan
               \/ k <= 3 /\ a = "store_import_state"
               \/ k <= 8 /\ a = "metrics"
               \/ k <= 5 /\ a = "evidence_graph"
               \/ k <= 9 /\ a = "dashboard"
               \/ k <= 7 /\ a = "benchmark"
    BY <2>2, OrderByPlace DEF Plan
  <2>3. /\ RegenerationOrder[1] = "sarif" /\ RegenerationOrder[2] = Plan
        /\ RegenerationOrder[3] = "store_import_state" /\ RegenerationOrder[8] = "metrics"
        /\ RegenerationOrder[5] = "evidence_graph" /\ RegenerationOrder[9] = "dashboard"
        /\ RegenerationOrder[7] = "benchmark"
    BY DEF RegenerationOrder, Plan
  <2> QED BY <2>2, <2>3
<1> QED BY <1>2 DEF Artifacts, Plan

LEMMA OneMoreIsProduced ==
  ASSUME NEW k \in 1 .. 9
  PROVE  /\ Earlier(k + 1) = Earlier(k) \cup {RegenerationOrder[k]}
         /\ Later(k) = Later(k + 1) \cup {RegenerationOrder[k]}
         /\ Earlier(k) \subseteq Artifacts /\ Later(k) \subseteq Artifacts
<1>1. ASSUME NEW a
      PROVE  (\E m \in 1 .. k : a = RegenerationOrder[m]) <=>
               (\E m \in 1 .. k - 1 : a = RegenerationOrder[m]) \/ a = RegenerationOrder[k]
  OBVIOUS
<1>2. ASSUME NEW a
      PROVE  (\E m \in k .. 9 : a = RegenerationOrder[m]) <=>
               (\E m \in k + 1 .. 9 : a = RegenerationOrder[m]) \/ a = RegenerationOrder[k]
  OBVIOUS
<1>3. k + 1 - 1 = k
  OBVIOUS
<1>4. Earlier(k) \subseteq Artifacts /\ Later(k) \subseteq Artifacts
  BY OrderByPlace DEF Earlier, Later
<1> QED BY <1>1, <1>2, <1>3, <1>4 DEF Earlier, Later

LEMMA RestOfOrder ==
  /\ Rest(1) = RegenerationOrder
  /\ \A k \in 1 .. 10 : Rest(k) \in Seq(Artifacts) /\ Len(Rest(k)) = 10 - k
  /\ \A k \in 1 .. 9 : Head(Rest(k)) = RegenerationOrder[k] /\ Tail(Rest(k)) = Rest(k + 1)
<1>1. RegenerationOrder \in Seq(Artifacts) /\ Len(RegenerationOrder) = 9
  BY DEF RegenerationOrder, Artifacts
<1>2. ASSUME NEW k \in 1 .. 10
      PROVE  Rest(k) \in Seq(Artifacts) /\ Len(Rest(k)) = 10 - k
  <2>1. \A i \in k .. 9 : RegenerationOrder[i] \in Artifacts
    BY OrderByPlace
  <2> QED BY <1>1, <2>1, SubSeqProperties DEF Rest
<1>3. \A k \in 1 .. 9 : Head(Rest(k)) = RegenerationOrder[k] /\ Tail(Rest(k)) = Rest(k + 1)
  BY <1>1, HeadTailOfSubSeq DEF Rest
<1>4. Rest(1) = RegenerationOrder
  <2>1. Rest(1) \in Seq(Artifacts) /\ Len(Rest(1)) = 9
    <3>1. PICK k \in 1 .. 10 : k = 1
      OBVIOUS
    <3>2. Rest(k) \in Seq(Artifacts) /\ Len(Rest(k)) = 10 - k
      BY <1>2
    <3> QED BY <3>1, <3>2
  <2>2. \A i \in 1 .. 9 : Rest(1)[i] = RegenerationOrder[i]
    <3>1. PICK k \in Int, n \in Int : k = 1 /\ n = 9
      OBVIOUS
    <3>2. \A i \in k .. n : RegenerationOrder[i] \in Artifacts
      BY <3>1, OrderByPlace
    <3>3. \A i \in 1 .. n - k + 1 : SubSeq(RegenerationOrder, k, n)[i] = RegenerationOrder[k + i - 1]
      BY <3>2, SubSeqProperties
    <3>4. \A i \in 1 .. 9 : i \in 1 .. n - k + 1 /\ k + i - 1 = i
      BY <3>1
    <3> QED BY <3>1, <3>3, <3>4 DEF Rest
  <2> QED BY <1>1, <2>1, <2>2, SeqEqual
<1> QED BY <1>2, <1>3, <1>4

(* Past the last command nothing rests. *)
LEMMA NothingRests == Rest(10) = << >>
<1>1. 10 \in 1 .. 10 /\ 10 - 10 = 0
  OBVIOUS
<1>2. Rest(10) \in Seq(Artifacts) /\ Len(Rest(10)) = 10 - 10
  BY <1>1, RestOfOrder, Zenon
<1> QED BY <1>1, <1>2

(* No report reads itself, or one that is produced after it for the last time; *)
(* those whose presence it records are there by then; and nothing that is      *)
(* complete when the plan is reads the ledger.                                 *)
LEMMA OrderRespectsInputs ==
  ASSUME FreshnessAssumption, NEW k \in 1 .. 9, NEW a, a = RegenerationOrder[k]
  PROVE  /\ a \notin Content(a)
         /\ \A b \in Artifacts \ Later(k) : Content(b) \cap Later(k) = {}
         /\ a \notin Later(k + 1) => StaticPresence[a] \subseteq Earlier(k)
         /\ a = Plan => \A b \in Artifacts \ Later(k + 1) : "issue_ledger" \notin Content(b)
<1>1. \A b \in Artifacts : Content(b) \cap Artifacts = StaticContent[b] \cap Artifacts
  BY SourcesAreNoReports DEF Content, Scanned, Collections, Files, Artifacts
<1>2. a \in Artifacts /\ a \notin StaticContent[a]
  BY OrderByPlace DEF StaticContent, Artifacts, Plan
<1>3. \A b \in Artifacts \ Later(k) : StaticContent[b] \cap Later(k) = {}
  <2>1. /\ StaticContent["sarif"] \cap Artifacts = {}
        /\ StaticContent[Plan] \cap Artifacts = {}
        /\ StaticContent["store_import_state"] \cap Artifacts = {}
        /\ StaticContent["metrics"] \cap Artifacts = {Plan}
        /\ StaticContent["benchmark"] \cap Artifacts = {}
        /\ StaticContent["evidence_graph"] \cap Artifacts = {Plan}
        /\ StaticContent["dashboard"] \cap Artifacts = {"metrics", "benchmark", "evidence_graph"}
    BY DEF StaticContent, Artifacts, Plan
  <2>2. Plan \in Later(k) => {"metrics", "evidence_graph", "dashboard"} \subseteq Later(k)
    BY OrderBySets DEF Artifacts, Plan
  <2>3. "dashboard" \in Later(k)
    BY OrderBySets DEF Artifacts, Plan
  <2>4. Later(k) \subseteq Artifacts
    BY OneMoreIsProduced
  <2> QED BY <2>1, <2>2, <2>3, <2>4 DEF Artifacts, Plan
<1>4. a \notin Later(k + 1) => StaticPresence[a] \subseteq Earlier(k)
  <2>1. StaticPresence[a] = IF a = "metrics" THEN {"evidence_graph", "benchmark"}
                            ELSE IF a = "benchmark" THEN {"metrics", "evidence_graph", "dashboard", "sarif"}
                            ELSE IF a = "evidence_graph" THEN {"metrics"} ELSE {}
    BY <1>2 DEF StaticPresence, Artifacts
  <2>2. \A m \in 1 .. 9 : m < k => RegenerationOrder[m] \in Earlier(k)
    BY DEF Earlier
  <2>3. a = "metrics" /\ a \notin Later(k + 1) => k = 8
    <3>1. a = "metrics" => k \in {4, 8}
      BY OrderByPlace DEF Plan
    <3>2. "metrics" \in Later(5)
      BY OrderBySets
    <3> QED BY <3>1, <3>2
  <2>4. (a = "benchmark" => k = 7) /\ (a = "evidence_graph" => k = 5)
    BY OrderByPlace DEF Plan
  <2>5. /\ RegenerationOrder[1] = "sarif" /\ RegenerationOrder[4] = "metrics"
        /\ RegenerationOrder[5] = "evidence_graph" /\ RegenerationOrder[6] = "dashboard"
        /\ RegenerationOrder[7] = "benchmark"
    BY DEF RegenerationOrder
  <2>6. CASE a = "metrics"
    BY <2>1, <2>2, <2>3, <2>5, <2>6
  <2>7. CASE a = "benchmark"
    BY <2>1, <2>2, <2>4, <2>5, <2>7
  <2>8. CASE a = "evidence_graph"
    BY <2>1, <2>2, <2>4, <2>5, <2>8
  <2> QED BY <2>1, <2>6, <2>7, <2>8
<1>5. a = Plan => \A b \in Artifacts \ Later(k + 1) : "issue_ledger" \notin Content(b)
  <2>1. a = Plan => k = 2
    BY OrderByPlace DEF Plan
  <2>2. Artifacts \ Later(3) = {"sarif", Plan}
    BY OrderBySets DEF Artifacts, Plan
  <2>3. "issue_ledger" \notin Content("sarif") /\ "issue_ledger" \notin Content(Plan)
    BY DEF Content, StaticContent, Collections, Scanned, Artifacts, Plan
  <2> QED BY <2>1, <2>2, <2>3
<1>6. Later(k) \subseteq Artifacts
  BY OneMoreIsProduced
<1> QED BY <1>1, <1>2, <1>3, <1>4, <1>5, <1>6

(* The record r of a is up to date, and only an input of a can change that: no *)
(* file whose absence it records is left to be produced.                       *)
Current(disk, a, r) ==
  /\ "findings" \in DOMAIN r.content /\ disk["findings"] # Absent
  /\ DOMAIN r.content \subseteq Content(a)
  /\ r.absent = {} /\ r.present \subseteq Files
  /\ \A f \in DOMAIN r.content : disk[f] = r.content[f]
  /\ \A f \in r.present : disk[f] # Absent

(* How far the command of a session is with the report it produces. *)
Written(p) ==
  \/ pc[p] \in {"record", "snapshot", "written"}
  \/ stage[p] = "update" /\ pc[p] \in {"lock", "write sidecar", "release"}
HasCaptured(p) ==
  \/ Written(p) \/ pc[p] = "write"
  \/ pc[p] = "render" /\ ~ RendersFirst(Art(p))
HasRecorded(p) ==
  \/ pc[p] \in {"snapshot", "written"}
  \/ stage[p] = "update" /\ pc[p] = "release"
HasSidecar(p) ==
  Active(p) /\ (stage[p] = "update" \/ pc[p] \notin {"lock", "write sidecar"})

(* What a session has achieved before its k-th command, if nobody else changed a   *)
(* file: what it will not produce again is up to date.                             *)
Undisturbed(p, k) ==
  /\ \A a \in Earlier(k) : Present(a)
  /\ \A a \in Artifacts \ Later(k) : Current(file, a, sidecar.records[a])
  /\ Written(p) => Present(Art(p))
  /\ Art(p) \notin Later(k + 1) =>
       /\ HasCaptured(p) => Current(file, Art(p), captured[p])
       /\ HasRecorded(p) => sidecar.records[Art(p)] = captured[p]

Placed(p, k) ==
  /\ queue[p] = Rest(k)
  /\ pc[p] = "done" => k = 10
  /\ k > 1 \/ HasSidecar(p) => sidecar.exists
  /\ p \in calm => Undisturbed(p, k)

OrderInv == \A p \in Restorers : \E k \in 1 .. 10 : Placed(p, k)

(* One file is replaced. *)
Replaced(disk, later, g) == later[g] # Absent /\ \A f \in Files \ {g} : later[f] = disk[f]

LEMMA CurrentStays ==
  ASSUME NEW disk, NEW later, NEW g, Replaced(disk, later, g),
         NEW a, g \notin Content(a), NEW r, Current(disk, a, r)
  PROVE  Current(later, a, r)
<1>1. later[g] # Absent /\ \A f \in Files \ {g} : later[f] = disk[f]
  BY DEF Replaced
<1>2. DOMAIN r.content \subseteq Content(a) /\ r.present \subseteq Files /\ Content(a) \subseteq Files
  BY ContentIsFiles DEF Current
<1> QED BY <1>1, <1>2 DEF Current

LEMMA CaptureIsCurrent ==
  ASSUME FreshnessAssumption, TypeOK, NEW a \in Artifacts, Present("findings"),
         \A f \in StaticPresence[a] : Present(f)
  PROVE  Current(file, a, Capture(a))
<1> DEFINE dynamic == (Collections[a] \cup Scanned(a)) \ StaticContent[a]
           content == {f \in Content(a) : f \in dynamic => Present(f)}
           presence == StaticPresence[a] \cup {f \in Peers(a) : Present(f)}
           r == Capture(a)
<1>1. /\ r.content = [f \in content |-> file[f]]
      /\ r.present = {f \in presence : Present(f)} /\ r.absent = {f \in presence : ~ Present(f)}
  BY DEF Capture
<1>2. "findings" \in Files /\ "findings" \in StaticContent[a]
  BY DEF FreshnessAssumption, Files, StaticContent, Artifacts
<1>3. "findings" \in content
  BY <1>2 DEF Content
<1>4. presence \subseteq Artifacts
  BY DEF StaticPresence, Peers, Artifacts
<1>5. \A f \in presence : Present(f)
  OBVIOUS
<1> HIDE DEF content, presence, r
<1>6. r.absent = {} /\ r.present \subseteq Files
  BY <1>1, <1>4, <1>5 DEF Files
<1>7. DOMAIN r.content = content /\ \A f \in content : r.content[f] = file[f]
  BY <1>1
<1>8. content \subseteq Content(a)
  BY DEF content
<1>9. Current(file, a, r)
  BY <1>1, <1>3, <1>6, <1>7, <1>8 DEF Current, Present
<1> QED BY <1>9 DEF r

(* What one command leaves of the work of those before it. *)
LEMMA EarlierWorkStays ==
  ASSUME FreshnessAssumption, TypeOK, NEW k \in 1 .. 9,
         \A a \in Earlier(k) : Present(a),
         \A a \in Artifacts \ Later(k) : Current(file, a, sidecar.records[a]),
         \/ file' = file
         \/ file' = [file EXCEPT ![RegenerationOrder[k]] = file[RegenerationOrder[k]] + 1],
         \A a \in Artifacts \ Later(k) : sidecar'.records[a] = sidecar.records[a]
  PROVE  /\ \A a \in Earlier(k) : Present(a)'
         /\ \A a \in Artifacts \ Later(k) : Current(file', a, sidecar'.records[a])
<1> DEFINE g == RegenerationOrder[k]
<1>1. CASE file' = file
  BY <1>1 DEF Present
<1>2. CASE file' = [file EXCEPT ![g] = file[g] + 1]
  <2>1. g \in Files /\ g \in Later(k) /\ Earlier(k) \subseteq Files /\ file \in [Files -> Nat]
    <3>1. g \in Artifacts
      BY OrderByPlace
    <3>2. g \in Later(k) /\ Earlier(k) \subseteq Artifacts
      BY OneMoreIsProduced
    <3> QED BY <3>1, <3>2 DEF Files, TypeOK
  <2>2. \A a \in Artifacts \ Later(k) : g \notin Content(a)
    BY <2>1, OrderRespectsInputs
  <2> HIDE DEF g
  <2>3. \A a \in Earlier(k) : Present(a)'
    BY <1>2, <2>1 DEF Present, Absent
  <2>4. Replaced(file, file', g)
    BY <1>2, <2>1 DEF Replaced, Absent
  <2>5. ASSUME NEW a \in Artifacts \ Later(k) PROVE Current(file', a, sidecar'.records[a])
    <3>1. PICK disk, later : disk = file /\ later = file'
      OBVIOUS
    <3>2. PICK r : r = sidecar.records[a]
      OBVIOUS
    <3>3. Replaced(disk, later, g) /\ g \notin Content(a) /\ Current(disk, a, r)
      BY <2>2, <2>4, <3>1, <3>2
    <3>4. Current(later, a, r)
      BY <3>3, CurrentStays
    <3> QED BY <3>1, <3>2, <3>4
  <2> QED BY <2>3, <2>5
<1> QED BY <1>1, <1>2

LEMMA CommandKeepsPlace ==
  ASSUME FreshnessAssumption, TypeOK, NEW p \in Restorers, NEW k \in 1 .. 9, Placed(p, k),
         queue'[p] = queue[p], pc'[p] # "done",
         sidecar.exists \/ HasSidecar(p)' => sidecar'.exists,
         p \in calm' => p \in calm,
         p \in calm =>
           /\ \/ file' = file
              \/ file' = [file EXCEPT ![RegenerationOrder[k]] = file[RegenerationOrder[k]] + 1]
           /\ \A a \in Artifacts \ Later(k) : sidecar'.records[a] = sidecar.records[a]
           /\ Written(p)' => file'[Art(p)] # Absent
           /\ Art(p) \notin Later(k + 1) =>
                /\ HasCaptured(p)' => Current(file', Art(p), captured'[p])
                /\ HasRecorded(p)' => sidecar'.records[Art(p)] = captured'[p]
  PROVE  Placed(p, k)'
<1>1. Art(p)' = Art(p)
  BY DEF Art
<1>2. ASSUME p \in calm PROVE Undisturbed(p, k)'
  <2>1. Undisturbed(p, k)
    BY <1>2 DEF Placed
  <2>2. /\ \A a \in Earlier(k) : Present(a)'
        /\ \A a \in Artifacts \ Later(k) : Current(file', a, sidecar'.records[a])
    BY <1>2, <2>1, EarlierWorkStays DEF Undisturbed
  <2> QED BY <1>1, <1>2, <2>2 DEF Undisturbed, Present
<1> QED BY <1>2 DEF Placed

(* Another session that works with p's files ends p's calm. *)
LEMMA OthersKeepPlace ==
  ASSUME NEW p \in Restorers, NEW k \in 1 .. 10, Placed(p, k),
         queue'[p] = queue[p], pc'[p] = pc[p], stage'[p] = stage[p], captured'[p] = captured[p],
         sidecar.exists => sidecar'.exists,
         p \in calm' => p \in calm /\ file' = file /\ sidecar' = sidecar
  PROVE  Placed(p, k)'
<1>1. /\ Art(p)' = Art(p) /\ Written(p)' = Written(p) /\ HasCaptured(p)' = HasCaptured(p)
      /\ HasRecorded(p)' = HasRecorded(p) /\ HasSidecar(p)' = HasSidecar(p)
  BY DEF Art, Written, HasCaptured, HasRecorded, HasSidecar, Active
<1>2. ASSUME p \in calm' PROVE Undisturbed(p, k)'
  BY <1>1, <1>2 DEF Placed, Undisturbed, Present
<1> QED BY <1>1, <1>2 DEF Placed

LEMMA OwnCommandKeepsPlace ==
  ASSUME FreshnessAssumption, IInv, NEW p \in Restorers, NEW k \in 1 .. 10, Placed(p, k),
         \/ TakeLock(p) \/ GiveUp(p) \/ WriteSidecar(p) \/ Release(p) \/ Preflight(p)
         \/ RefuseMissing(p) \/ Render(p) \/ Write(p) \/ Record(p) \/ RefuseChanged(p)
         \/ Snapshot(p) \/ Kill(p)
  PROVE  Placed(p, k)'
<1> DEFINE a == Art(p)
<1>1. TypeOK /\ LockInv /\ p \in Producers
  BY DEF IInv, FreshnessAssumption
<1>2. Active(p)
  BY DEF TakeLock, GiveUp, WriteSidecar, Release, Preflight, RefuseMissing, Render, Write, Record,
         RefuseChanged, Snapshot, Kill, Active, Ended
<1>3. queue[p] = Rest(k) /\ queue[p] # << >>
  BY <1>1, <1>2 DEF Placed, TypeOK
<1>4. k \in 1 .. 9
  <2>1. Rest(10) = << >>
    BY NothingRests
  <2> QED BY <1>3, <2>1
<1>5. a = RegenerationOrder[k] /\ a \in Artifacts /\ a \in Files /\ a \in Later(k)
  <2>1. a = RegenerationOrder[k]
    BY <1>3, <1>4, RestOfOrder DEF Art
  <2>2. a \in Artifacts
    BY <1>4, <2>1, OrderByPlace
  <2>3. a \in Later(k)
    BY <1>4, <2>1, OneMoreIsProduced
  <2> QED BY <2>1, <2>2, <2>3 DEF Files
<1>6. pc \in [Producers -> Places] /\ stage[p] \in {"init", "update"} /\ file \in [Files -> Nat]
      /\ DOMAIN sidecar.records = Artifacts /\ DOMAIN captured = Producers
  BY <1>1 DEF TypeOK
<1>7. p \in calm => Undisturbed(p, k)
  BY DEF Placed
<1>8. HasSidecar(p) => sidecar.exists
  BY DEF Placed
<1> HIDE DEF a
<1>9. ASSUME UNCHANGED << queue, stage, sidecar, calm, file >>, pc'[p] \in {"failed", "killed"}
      PROVE  Placed(p, k)'
  <2>1. ~ Written(p)' /\ ~ HasCaptured(p)' /\ ~ HasRecorded(p)' /\ ~ HasSidecar(p)'
    BY <1>9 DEF Written, HasCaptured, HasRecorded, HasSidecar, Active, Ended
  <2> QED BY <1>1, <1>4, <1>9, <2>1, CommandKeepsPlace
<1>10. CASE GiveUp(p) \/ RefuseMissing(p) \/ RefuseChanged(p)
  BY <1>1, <1>6, <1>9, <1>10 DEF GiveUp, RefuseMissing, RefuseChanged, Fail, Goto
<1>11. CASE Kill(p)
  BY <1>1, <1>6, <1>9, <1>11 DEF Kill, Goto
<1>12. CASE TakeLock(p)
  <2>1. /\ pc[p] = "lock" /\ UNCHANGED << file, sidecar, queue, stage, captured, calm >>
        /\ pc'[p] = IF stage[p] = "init" /\ sidecar.exists THEN "release" ELSE "write sidecar"
    BY <1>1, <1>6, <1>12 DEF TakeLock, Locked, Goto
  <2>2. HasSidecar(p)' => sidecar.exists
    BY <1>2, <1>8, <2>1 DEF HasSidecar, Active, Ended
  <2>3. /\ Written(p)' => Written(p) /\ ~ HasRecorded(p)'
        /\ HasCaptured(p)' => HasCaptured(p)
    BY <1>6, <2>1 DEF Written, HasCaptured, HasRecorded
  <2>4. ~ HasRecorded(p)'
    BY <1>6, <2>1 DEF HasRecorded
  <2>5. p \in calm =>
          /\ Written(p)' => file'[a] # Absent
          /\ a \notin Later(k + 1) => (HasCaptured(p)' => Current(file', a, captured'[p]))
    BY <1>7, <2>1, <2>3 DEF Undisturbed, Present, a
  <2> QED BY <1>1, <1>4, <2>1, <2>2, <2>4, <2>5, CommandKeepsPlace DEF a
<1>13. CASE WriteSidecar(p)
  <2>1. /\ pc[p] = "write sidecar" /\ pc'[p] = "release" /\ sidecar'.exists
        /\ UNCHANGED << file, queue, stage, captured >> /\ (p \in calm' => p \in calm)
        /\ sidecar'.records = IF stage[p] = "init" THEN NoRecords
                              ELSE [loaded[p] EXCEPT ![a] = captured[p]]
    BY <1>1, <1>6, <1>13 DEF WriteSidecar, Goto, Disturb, a
  <2>2. loaded[p] = sidecar.records /\ (stage[p] = "init" => ~ sidecar.exists)
    BY <1>1, <2>1 DEF LockInv
  <2>3. /\ Written(p)' => Written(p) /\ stage[p] = "update"
        /\ HasCaptured(p)' => HasCaptured(p)
        /\ HasRecorded(p)' => stage[p] = "update"
    BY <1>6, <2>1 DEF Written, HasCaptured, HasRecorded
  <2>4. \A b \in Artifacts \ Later(k) : sidecar'.records[b] = sidecar.records[b]
    <3>1. CASE stage[p] = "init"
      <4>1. k = 1
        BY <1>4, <2>2, <3>1 DEF Placed
      <4> QED BY <4>1, OrderBySets
    <3>2. CASE stage[p] = "update"
      BY <1>5, <1>6, <2>1, <2>2, <3>2
    <3> QED BY <1>6, <3>1, <3>2
  <2>5. HasRecorded(p)' => sidecar'.records[a] = captured'[p]
    BY <1>5, <1>6, <2>1, <2>2, <2>3
  <2>6. p \in calm =>
          /\ Written(p)' => file'[a] # Absent
          /\ a \notin Later(k + 1) => (HasCaptured(p)' => Current(file', a, captured'[p]))
    BY <1>7, <2>1, <2>3 DEF Undisturbed, Present, a
  <2> QED BY <1>1, <1>4, <2>1, <2>4, <2>5, <2>6, CommandKeepsPlace DEF a
<1>14. CASE Release(p)
  <2>1. /\ pc[p] = "release" /\ UNCHANGED << file, queue, stage, captured, sidecar, calm >>
        /\ pc'[p] = CASE stage[p] = "init" /\ RendersFirst(a) -> "render"
                      [] stage[p] = "init" /\ ~ RendersFirst(a) -> "preflight"
                      [] stage[p] = "update" /\ Snapshots(a) -> "snapshot"
                      [] OTHER -> "written"
    BY <1>1, <1>6, <1>14 DEF Release, Goto, a
  <2>2. \/ stage[p] = "init" /\ RendersFirst(a) /\ pc'[p] = "render"
        \/ stage[p] = "init" /\ pc'[p] = "preflight"
        \/ stage[p] = "update" /\ pc'[p] \in {"snapshot", "written"}
    BY <1>6, <2>1
  <2>3. /\ Written(p)' => Written(p)
        /\ HasCaptured(p)' => HasCaptured(p)
        /\ HasRecorded(p)' => HasRecorded(p)
    BY <2>1, <2>2 DEF Written, HasCaptured, HasRecorded, Art, a
  <2>4. HasSidecar(p)' => sidecar.exists
    BY <1>2, <1>8, <2>1 DEF HasSidecar
  <2>5. p \in calm =>
          /\ Written(p)' => file'[a] # Absent
          /\ a \notin Later(k + 1) => /\ HasCaptured(p)' => Current(file', a, captured'[p])
                                      /\ HasRecorded(p)' => sidecar'.records[a] = captured'[p]
    BY <1>7, <2>1, <2>3 DEF Undisturbed, Present, a
  <2>6. pc'[p] # "done"
    BY <2>2
  <2> QED BY <1>1, <1>4, <2>1, <2>4, <2>5, <2>6, CommandKeepsPlace DEF a
<1>15. CASE Preflight(p)
  <2>1. /\ pc[p] = "preflight" /\ pc'[p] \in {"write", "render"}
        /\ UNCHANGED << file, queue, stage, sidecar, calm >>
        /\ captured'[p] = Capture(a) /\ Present("findings")
    BY <1>1, <1>6, <1>15 DEF Preflight, Goto, Required, a
  <2>2. ~ Written(p)' /\ ~ HasRecorded(p)'
    BY <2>1 DEF Written, HasRecorded
  <2>3. HasSidecar(p)' => sidecar.exists
    BY <1>2, <1>8, <2>1 DEF HasSidecar
  <2>4. p \in calm /\ a \notin Later(k + 1) => Current(file', a, captured'[p])
    <3>1. SUFFICES ASSUME p \in calm, a \notin Later(k + 1) PROVE Current(file, a, Capture(a))
      BY <2>1
    <3>2. \A f \in StaticPresence[a] : Present(f)
      BY <1>4, <1>5, <1>7, <3>1, OrderRespectsInputs DEF Undisturbed
    <3> QED BY <1>1, <1>5, <2>1, <3>2, CaptureIsCurrent
  <2> QED BY <1>1, <1>4, <2>1, <2>2, <2>3, <2>4, CommandKeepsPlace DEF a
<1>16. CASE Render(p)
  <2>1. /\ pc[p] = "render" /\ UNCHANGED << file, queue, stage, captured, sidecar, calm >>
        /\ pc'[p] = IF RendersFirst(a) THEN "preflight" ELSE "write"
    BY <1>1, <1>6, <1>16 DEF Render, Goto, a
  <2>2. ~ Written(p)' /\ ~ HasRecorded(p)' /\ (HasCaptured(p)' => HasCaptured(p))
    BY <2>1 DEF Written, HasRecorded, HasCaptured, a
  <2>3. HasSidecar(p)' => sidecar.exists
    BY <1>2, <1>8, <2>1 DEF HasSidecar
  <2>4. p \in calm /\ a \notin Later(k + 1) => (HasCaptured(p)' => Current(file', a, captured'[p]))
    BY <1>7, <2>1, <2>2 DEF Undisturbed, a
  <2> QED BY <1>1, <1>4, <2>1, <2>2, <2>3, <2>4, CommandKeepsPlace DEF a
<1>17. CASE Write(p) \/ Snapshot(p)
  <2>1. /\ \/ pc[p] = "write" /\ pc'[p] = "record"
           \/ pc[p] = "snapshot" /\ pc'[p] = "written"
        /\ UNCHANGED << queue, stage, captured, sidecar >> /\ (p \in calm' => p \in calm)
        /\ file' = [file EXCEPT ![a] = file[a] + 1]
    BY <1>1, <1>6, <1>17 DEF Write, Snapshot, Replace, Goto, Disturb, a
  <2>2. HasCaptured(p) /\ (HasRecorded(p)' => HasRecorded(p))
    BY <2>1 DEF Written, HasRecorded, HasCaptured
  <2>3. HasSidecar(p)' => sidecar.exists
    BY <1>2, <1>8, <2>1 DEF HasSidecar
  <2>4. file'[a] # Absent
    BY <1>5, <1>6, <2>1 DEF Absent
  <2>5. Replaced(file, file', a) /\ a \notin Content(a)
    BY <1>4, <1>5, <1>6, <2>1, <2>4, OrderRespectsInputs DEF Replaced
  <2>6. p \in calm /\ a \notin Later(k + 1) => Current(file', a, captured'[p])
    <3>1. SUFFICES ASSUME p \in calm, a \notin Later(k + 1) PROVE Current(file', a, captured[p])
      BY <2>1
    <3>2. Current(file, a, captured[p])
      BY <1>7, <2>2, <3>1 DEF Undisturbed, a
    <3>3. PICK disk, later, r : disk = file /\ later = file' /\ r = captured[p]
      OBVIOUS
    <3>4. Current(later, a, r)
      BY <2>5, <3>2, <3>3, CurrentStays
    <3> QED BY <3>3, <3>4
  <2>7. p \in calm /\ a \notin Later(k + 1) => (HasRecorded(p)' => sidecar'.records[a] = captured'[p])
    BY <1>7, <2>1, <2>2 DEF Undisturbed, a
  <2> QED BY <1>1, <1>4, <1>5, <2>1, <2>3, <2>4, <2>6, <2>7, CommandKeepsPlace DEF a
<1>18. CASE Record(p)
  <2>1. /\ pc[p] = "record" /\ pc'[p] = "lock" /\ Present(a)
        /\ UNCHANGED << file, queue, captured, sidecar, calm >>
    BY <1>1, <1>6, <1>18 DEF Record, Goto, a
  <2>2. HasCaptured(p) /\ ~ HasRecorded(p)'
    BY <2>1 DEF Written, HasRecorded, HasCaptured
  <2>3. sidecar.exists
    BY <1>2, <1>8, <2>1 DEF HasSidecar
  <2>4. p \in calm /\ a \notin Later(k + 1) => Current(file', a, captured'[p])
    BY <1>7, <2>1, <2>2 DEF Undisturbed, a
  <2> QED BY <1>1, <1>4, <2>1, <2>2, <2>3, <2>4, CommandKeepsPlace DEF a, Present
<1> QED BY <1>10, <1>11, <1>12, <1>13, <1>14, <1>15, <1>16, <1>17, <1>18

LEMMA SessionStarts ==
  ASSUME FreshnessAssumption, IInv, NEW p \in Restorers, NEW k \in 1 .. 10, Placed(p, k), Start(p)
  PROVE  Placed(p, k)'
<1>1. TypeOK /\ p \in Producers
  BY DEF IInv, FreshnessAssumption
<1>2. /\ pc'[p] = "lock" /\ stage'[p] = "init" /\ UNCHANGED << file, queue, sidecar >>
      /\ calm' = IF queue[p] = RegenerationOrder THEN calm \cup {p} ELSE calm
  BY <1>1 DEF Start, Goto, TypeOK
<1>3. ~ Written(p)' /\ ~ HasCaptured(p)' /\ ~ HasRecorded(p)' /\ ~ HasSidecar(p)'
  BY <1>2 DEF Written, HasCaptured, HasRecorded, HasSidecar
<1>4. ASSUME p \in calm' PROVE Undisturbed(p, k)'
  <2>1. CASE k = 1
    <3>1. Earlier(1) = {} /\ Later(1) = Artifacts
      BY OrderBySets DEF Earlier
    <3> QED BY <1>3, <2>1, <3>1 DEF Undisturbed
  <2>2. CASE k # 1
    <3>1. queue[p] # RegenerationOrder
      <4>1. Len(Rest(k)) # 9
        <5>1. Len(Rest(k)) = 10 - k
          BY RestOfOrder
        <5> QED BY <2>2, <5>1
      <4>2. Len(RegenerationOrder) = 9
        BY DEF RegenerationOrder
      <4> QED BY <4>1, <4>2 DEF Placed
    <3>2. p \in calm
      BY <1>2, <1>4, <3>1
    <3>3. Undisturbed(p, k)
      BY <3>2 DEF Placed
    <3> QED BY <1>2, <1>3, <3>3 DEF Undisturbed, Present
  <2> QED BY <2>1, <2>2
<1> QED BY <1>2, <1>3, <1>4 DEF Placed

LEMMA CommandEnds ==
  ASSUME FreshnessAssumption, IInv, NEW p \in Restorers, NEW k \in 1 .. 10, Placed(p, k), Finish(p)
  PROVE  \E m \in 1 .. 10 : Placed(p, m)'
<1> DEFINE a == Art(p)
           ledger == "issue_ledger"
<1>1. TypeOK /\ p \in Producers
  BY DEF IInv, FreshnessAssumption
<1>2. pc[p] = "written" /\ Active(p) /\ queue[p] = Rest(k) /\ queue[p] # << >>
  BY <1>1 DEF Finish, Active, Ended, TypeOK, Placed
<1>3. k \in 1 .. 9 /\ k + 1 \in 1 .. 10 /\ k + 1 > 1
  <2>1. Rest(10) = << >>
    BY NothingRests
  <2>2. k # 10
    BY <1>2, <2>1
  <2> QED BY <2>2
<1>4. a = RegenerationOrder[k] /\ a \in Artifacts
  <2>1. a = RegenerationOrder[k]
    BY <1>2, <1>3, RestOfOrder DEF Art
  <2> QED BY <1>3, <2>1, OrderByPlace
<1>5. queue'[p] = Rest(k + 1) /\ Len(queue[p]) = 10 - k
  <2>1. queue'[p] = Tail(queue[p])
    BY <1>1 DEF Finish, TypeOK
  <2> QED BY <1>2, <1>3, <2>1, RestOfOrder
<1>6. /\ UNCHANGED << sidecar, stage >> /\ pc'[p] \in {"idle", "done"}
      /\ pc'[p] = "done" => k + 1 = 10
  <2>1. pc'[p] = IF Len(queue[p]) = 1 THEN "done" ELSE "idle"
    BY <1>1 DEF Finish, Goto, TypeOK
  <2> QED BY <1>3, <1>5, <2>1 DEF Finish
<1>7. sidecar.exists
  BY <1>2 DEF Placed, HasSidecar
<1>8. ~ Written(p)' /\ ~ HasCaptured(p)' /\ ~ HasRecorded(p)' /\ ~ HasSidecar(p)'
  BY <1>6 DEF Written, HasCaptured, HasRecorded, HasSidecar, Active, Ended
<1>9. ASSUME p \in calm' PROVE Undisturbed(p, k + 1)'
  <2>1. Undisturbed(p, k)
    BY <1>9 DEF Finish, Disturb, Placed
  <2>2. HasCaptured(p) /\ HasRecorded(p) /\ Written(p)
    BY <1>2 DEF HasCaptured, HasRecorded, Written
  <2>3. /\ Earlier(k + 1) = Earlier(k) \cup {a} /\ Later(k) = Later(k + 1) \cup {a}
        /\ Earlier(k + 1) \subseteq Artifacts
    BY <1>3, <1>4, OneMoreIsProduced
  <2> HIDE DEF a
  <2>4. \A b \in Earlier(k + 1) : Present(b)
    BY <2>1, <2>2, <2>3 DEF Undisturbed, a
  <2>5. \A b \in Artifacts \ Later(k + 1) : Current(file, b, sidecar.records[b])
    <3>1. ASSUME a \notin Later(k + 1) PROVE Current(file, a, sidecar.records[a])
      BY <2>1, <2>2, <3>1 DEF Undisturbed, a
    <3>2. \A b \in Artifacts \ Later(k) : Current(file, b, sidecar.records[b])
      BY <2>1 DEF Undisturbed
    <3> QED BY <2>3, <3>1, <3>2
  <2>6. CASE file' = file
    BY <1>6, <1>8, <2>4, <2>5, <2>6 DEF Undisturbed, Present
  <2>7. CASE a = Plan /\ ledger \in Sources /\ file' = [file EXCEPT ![ledger] = file[ledger] + 1]
    <3>1. ledger \in Files /\ file \in [Files -> Nat] /\ ledger \notin Artifacts /\ Artifacts \subseteq Files
      BY <1>1, <2>7, SourcesAreNoReports DEF Files, TypeOK
    <3> HIDE DEF ledger
    <3>2. Replaced(file, file', ledger)
      BY <2>7, <3>1 DEF Replaced, Absent
    <3>3. \A b \in Artifacts \ Later(k + 1) : ledger \notin Content(b)
      BY <1>3, <1>4, <2>7, OrderRespectsInputs DEF ledger
    <3>4. ASSUME NEW b \in Artifacts \ Later(k + 1) PROVE Current(file', b, sidecar'.records[b])
      <4>1. PICK disk, later, r : disk = file /\ later = file' /\ r = sidecar.records[b]
        OBVIOUS
      <4>2. Replaced(disk, later, ledger) /\ ledger \notin Content(b) /\ Current(disk, b, r)
        BY <2>5, <3>2, <3>3, <4>1
      <4>3. Current(later, b, r)
        BY <4>2, CurrentStays
      <4> QED BY <1>6, <4>1, <4>3
    <3>5. \A b \in Earlier(k + 1) : Present(b)'
      BY <2>3, <2>4, <3>1, <3>2 DEF Replaced, Present
    <3> QED BY <1>8, <3>4, <3>5 DEF Undisturbed
  <2> QED BY <2>6, <2>7 DEF Finish, RendersFirst, Plan, a
<1> HIDE DEF a
<1>10. Placed(p, k + 1)'
  BY <1>3, <1>5, <1>6, <1>7, <1>9 DEF Placed
<1> QED BY <1>3, <1>10

(* What the step of anybody else does to a calm session: nothing. *)
LEMMA OthersLeaveCalm ==
  ASSUME FreshnessAssumption, IInv, NEW p \in Restorers,
         \/ \E q \in Producers \ {p} : Step(q) \/ Kill(q)
         \/ \E f \in Sources : EditSource(f)
  PROVE  /\ queue'[p] = queue[p] /\ pc'[p] = pc[p] /\ stage'[p] = stage[p] /\ captured'[p] = captured[p]
         /\ sidecar.exists => sidecar'.exists
         /\ p \in calm' => p \in calm /\ file' = file /\ sidecar' = sidecar
<1>1. TypeOK /\ p \in Producers
  BY DEF IInv, FreshnessAssumption
<1>2. CASE \E f \in Sources : EditSource(f)
  BY <1>2 DEF EditSource
<1>3. ASSUME NEW q \in Producers \ {p}, Step(q) \/ Kill(q)
      PROVE  /\ queue'[p] = queue[p] /\ pc'[p] = pc[p] /\ stage'[p] = stage[p]
             /\ captured'[p] = captured[p] /\ (sidecar.exists => sidecar'.exists)
             /\ p \in calm' => p \in calm /\ file' = file /\ sidecar' = sidecar
  <2> USE <1>1 DEF TypeOK, Goto, Forget, Fail, Disturb
  <2>1. CASE Start(q)
    BY <1>3, <2>1 DEF Start
  <2>2. CASE TakeLock(q)
    BY <1>3, <2>2 DEF TakeLock, Locked
  <2>3. CASE GiveUp(q) \/ RefuseMissing(q) \/ RefuseChanged(q)
    BY <1>3, <2>3 DEF GiveUp, RefuseMissing, RefuseChanged
  <2>4. CASE WriteSidecar(q)
    BY <1>3, <2>4 DEF WriteSidecar
  <2>5. CASE Release(q)
    BY <1>3, <2>5 DEF Release
  <2>6. CASE Preflight(q)
    BY <1>3, <2>6 DEF Preflight
  <2>7. CASE Render(q)
    BY <1>3, <2>7 DEF Render
  <2>8. CASE Write(q) \/ Snapshot(q)
    BY <1>3, <2>8 DEF Write, Snapshot, Replace
  <2>9. CASE Record(q)
    BY <1>3, <2>9 DEF Record
  <2>10. CASE Finish(q)
    BY <1>3, <2>10 DEF Finish
  <2>11. CASE Kill(q)
    BY <1>3, <2>11 DEF Kill
  <2> QED BY <1>3, <2>1, <2>2, <2>3, <2>4, <2>5, <2>6, <2>7, <2>8, <2>9, <2>10, <2>11 DEF Step
<1> QED BY <1>2, <1>3

LEMMA OrderPreserved ==
  ASSUME FreshnessAssumption, IInv, OrderInv, [Next]_vars
  PROVE  OrderInv'
<1> SUFFICES ASSUME NEW p \in Restorers PROVE \E m \in 1 .. 10 : Placed(p, m)'
  BY DEF OrderInv
<1>1. PICK k \in 1 .. 10 : Placed(p, k)
  BY DEF OrderInv
<1>2. CASE UNCHANGED vars
  <2>1. UNCHANGED << queue, pc, stage, captured, sidecar, calm, file >>
    BY <1>2 DEF vars
  <2> QED BY <1>1, <2>1, OthersKeepPlace
<1>3. CASE \/ \E q \in Producers \ {p} : Step(q) \/ Kill(q)
           \/ \E f \in Sources : EditSource(f)
  BY <1>1, <1>3, OthersLeaveCalm, OthersKeepPlace
<1>4. CASE Step(p) \/ Kill(p)
  BY <1>1, <1>4, OwnCommandKeepsPlace, SessionStarts, CommandEnds DEF Step
<1> QED BY <1>2, <1>3, <1>4 DEF Next

LEMMA CalmSessionConverges ==
  ASSUME FreshnessAssumption, OrderInv
  PROVE  OrderConverges
<1> SUFFICES ASSUME NEW p \in Restorers \cap calm, pc[p] = "done", NEW a \in Artifacts
             PROVE  Assessed(a) = "fresh"
  BY DEF OrderConverges
<1>1. PICK k \in 1 .. 10 : Placed(p, k)
  BY DEF OrderInv
<1>2. k = 10 /\ Undisturbed(p, k)
  BY <1>1 DEF Placed
<1>3. a \in Earlier(10) /\ Later(10) = {}
  <2>1. PICK i \in 1 .. 9 : RegenerationOrder[i] = a
    <3>1. a \in Later(1)
      BY OrderBySets
    <3> QED BY <3>1 DEF Later
  <2>2. a \in Earlier(10)
    BY <2>1 DEF Earlier
  <2> QED BY <2>2, OrderBySets
<1> DEFINE r == sidecar.records[a]
<1>4. Present(a) /\ Current(file, a, r)
  BY <1>2, <1>3 DEF Undisturbed
<1> HIDE DEF r
<1>5. IsRecord(r)
  BY <1>4 DEF IsRecord, Current
<1>6. ~ Missing(a, r)
  BY <1>4 DEF Missing, Current, Present, Required
<1>7. ~ Stale(r)
  BY <1>4 DEF Stale, Current, Present
<1> QED BY <1>5, <1>6, <1>7 DEF Assessed, r

(* The documented order converges (docs/REPORTING_AND_STORE.md:83): a          *)
(* session that ran all of it, while nobody else changed a file, leaves every      *)
(* report fresh, whatever state it began in and whatever failed and was killed     *)
(* before.                                                                         *)
THEOREM OrderAlwaysConverges ==
  ASSUME FreshnessAssumption
  PROVE  Spec => []OrderConverges
<1>1. Init => OrderInv
  <2> SUFFICES ASSUME Init, NEW p \in Restorers PROVE \E k \in 1 .. 10 : Placed(p, k)
    BY DEF OrderInv
  <2>1. PICK k \in 1 .. 10 : k = 1
    OBVIOUS
  <2>2. p \in Producers /\ queue[p] = RegenerationOrder /\ pc[p] = "idle" /\ calm = {}
    BY DEF FreshnessAssumption, Init
  <2>3. queue[p] = Rest(k)
    BY <2>1, <2>2, RestOfOrder
  <2>4. ~ HasSidecar(p)
    BY <2>2 DEF HasSidecar, Active, Ended
  <2>5. Placed(p, k)
    BY <2>1, <2>2, <2>3, <2>4 DEF Placed
  <2> QED BY <2>5
<1>2. IInv /\ OrderInv /\ [Next]_vars => OrderInv'
  BY OrderPreserved
<1>3. OrderInv => OrderConverges
  BY CalmSessionConverges
<1> QED BY <1>1, <1>2, <1>3, FreshnessInvariant, PTL DEF Spec
=============================================================================
