--------------------------- MODULE RunCommandsProofs ---------------------------
(* Proofs about the unlocked files of a run: run-state.json (RunState) and the  *)
(* findings, the imports and the ledger of known findings (FindingTriage), for  *)
(* any processes, findings, payloads and bounds.                                *)
EXTENDS RunState, FindingTriage, FiniteSetTheorems, SequenceTheorems, WellFoundedInduction, TLAPS

-------------------------------------------------------------------------------
(* RunState *)

\* A whole file is what was recorded last; whoever is past its gate found it so;
\* and what a --clear-pause wrote, or is about to, it wrote over a pause.
PausedAt(l, i) == i \in 1..Len(l) /\ l[i].status = "paused"

FileIsLast == file # "torn" => Status(file) = log[Len(log)].status

LookWasOpen ==
  \A g \in Gated : pc[g] \notin {"begun", "refused"} =>
    looked[g] \in 1..Len(log) /\ log[looked[g]].status \notin Stops(g)

ClearsFollowPauses ==
  /\ \A o \in Operators : command[o] = "clear" /\ pc[o] \in {"write", "truncated"} => PausedAt(log, found[o])
  /\ \A i \in 2..Len(log) : log[i].status = "active" => PausedAt(log, log[i].found)

GateInv == TypeOK /\ Len(log) > 0 /\ FileIsLast /\ LookWasOpen /\ ClearsFollowPauses

LEMMA OpenGate ==
  ASSUME NEW g \in Gated, GateOpen(g), file \in Contents
  PROVE  file # "torn" /\ Status(file) \notin Stops(g)
  BY DEF GateOpen, Stops, ToolGateOpen, StageGateOpen, Readable, Status, Contents, Statuses

LEMMA GateInit == Init => GateInv
<1> SUFFICES ASSUME Init PROVE GateInv
  OBVIOUS
<1>1. log = << [status |-> Status(file), found |-> 0] >> /\ Status(file) \in Statuses
  BY DEF Init, Status, Statuses, Readable
<1>2. Len(log) = 1 /\ log[1].status = Status(file) /\ log \in Seq([status : Statuses, found : Nat])
  BY <1>1
<1>3. /\ file \in Contents /\ command \in [Operators -> Commands]
      /\ found \in [Operators -> Nat] /\ looked \in [Gated -> Nat]
  BY DEF Init, Contents
<1>4. /\ DOMAIN pc = Operators \cup Gated /\ \A o \in Operators : pc[o] = "idle"
      /\ \A g \in Gated : pc[g] = "begun"
  <2>1. pc = [p \in Operators \cup Gated |-> IF p \in Operators THEN "idle" ELSE "begun"]
    BY DEF Init
  <2>2. \A g \in Gated : g \notin Operators
    BY UsersDiffer DEF Gated
  <2> QED BY <2>1, <2>2
<1>5. TypeOK
  BY <1>2, <1>3, <1>4 DEF TypeOK, OperatorPlaces, GatedPlaces
<1> QED BY <1>2, <1>4, <1>5 DEF GateInv, FileIsLast, LookWasOpen, ClearsFollowPauses

\* Steps that leave the file and the log alone.
LEMMA ReadingTheState ==
  ASSUME GateInv, NEW p \in Operators \cup Gated, NEW place, Goto(p, place),
         UNCHANGED << file, command, log >>,
         found' \in [Operators -> Nat], looked' \in [Gated -> Nat],
         \A o \in Operators \ {p} : found'[o] = found[o],
         \A g \in Gated \ {p} : looked'[g] = looked[g],
         p \in Operators => place \in OperatorPlaces
           /\ (command[p] = "clear" /\ place \in {"write", "truncated"} => PausedAt(log, found'[p])),
         p \in Gated => place \in GatedPlaces
           /\ (place \notin {"begun", "refused"} =>
                 looked'[p] \in 1..Len(log) /\ log[looked'[p]].status \notin Stops(p))
  PROVE  GateInv'
<1>1. /\ DOMAIN pc' = Operators \cup Gated /\ pc'[p] = place
      /\ \A q \in Operators \cup Gated : q # p => pc'[q] = pc[q]
  BY DEF GateInv, TypeOK, Goto
<1>2. TypeOK'
  <2>1. \A o \in Operators : pc'[o] \in OperatorPlaces
    BY <1>1 DEF GateInv, TypeOK
  <2>2. \A g \in Gated : pc'[g] \in GatedPlaces
    BY <1>1 DEF GateInv, TypeOK
  <2> QED BY <1>1, <2>1, <2>2 DEF GateInv, TypeOK
<1>3. LookWasOpen'
  <2> SUFFICES ASSUME NEW g \in Gated, pc'[g] \notin {"begun", "refused"}
               PROVE  looked'[g] \in 1..Len(log) /\ log[looked'[g]].status \notin Stops(g)
    BY DEF LookWasOpen, Stops
  <2>1. CASE g = p
    BY <1>1, <2>1
  <2>2. CASE g # p
    BY <1>1, <2>2 DEF GateInv, LookWasOpen
  <2> QED BY <2>1, <2>2
<1>4. ClearsFollowPauses'
  <2>1. ASSUME NEW o \in Operators, command[o] = "clear", pc'[o] \in {"write", "truncated"}
        PROVE  PausedAt(log, found'[o])
    <3>1. CASE o = p
      BY <1>1, <2>1, <3>1
    <3>2. CASE o # p
      BY <1>1, <2>1, <3>2 DEF GateInv, ClearsFollowPauses
    <3> QED BY <3>1, <3>2
  <2> QED BY <2>1 DEF GateInv, ClearsFollowPauses, PausedAt
<1> QED BY <1>2, <1>3, <1>4 DEF GateInv, FileIsLast, Status, Readable

LEMMA OperatorStep ==
  ASSUME GateInv, NEW o \in Operators, Operate(o) \/ Crash(o)
  PROVE  GateInv'
<1>0. o \notin Gated /\ file \in Contents /\ found \in [Operators -> Nat] /\ looked \in [Gated -> Nat]
  BY UsersDiffer DEF GateInv, TypeOK, Gated
<1>1. CASE Stop(o) \/ NotPaused(o) \/ Crash(o)
  <2>1. PICK place \in {"write", "refused", "crashed"} :
          Goto(o, place) /\ (command[o] = "clear" => place # "write")
    BY <1>1 DEF Stop, NotPaused, Crash
  <2>2. UNCHANGED << file, command, log, found, looked >>
    BY <1>1 DEF Stop, NotPaused, Crash
  <2> QED BY <1>0, <2>1, <2>2, ReadingTheState DEF OperatorPlaces
<1>2. CASE ReadPaused(o)
  <2>1. /\ found' = [found EXCEPT ![o] = Len(log)] /\ UNCHANGED << file, command, log, looked >>
        /\ Goto(o, "write")
    BY <1>2 DEF ReadPaused
  <2>2. found' \in [Operators -> Nat] /\ found'[o] = Len(log)
    BY <1>0, <2>1 DEF GateInv, TypeOK
  <2>3. PausedAt(log, Len(log))
    BY <1>2 DEF ReadPaused, FoundPaused, Readable, GateInv, FileIsLast, PausedAt, TypeOK
  <2>4. PausedAt(log, found'[o])
    BY <2>2, <2>3
  <2> QED BY <1>0, <2>1, <2>2, <2>4, ReadingTheState DEF OperatorPlaces
<1>3. CASE Truncate(o)
  <2>1. /\ file' = "torn" /\ UNCHANGED << command, log, found, looked >> /\ pc[o] = "write"
        /\ DOMAIN pc' = Operators \cup Gated /\ pc'[o] = "truncated"
        /\ \A q \in Operators \cup Gated : q # o => pc'[q] = pc[q]
    BY <1>3 DEF Truncate, Goto, GateInv, TypeOK
  <2>2. TypeOK'
    BY <1>0, <2>1 DEF GateInv, TypeOK, OperatorPlaces, Contents
  <2>3. LookWasOpen'
    BY <1>0, <2>1 DEF GateInv, LookWasOpen, Stops
  <2>4. ClearsFollowPauses'
    BY <1>0, <2>1 DEF GateInv, ClearsFollowPauses, PausedAt
  <2> QED BY <2>1, <2>2, <2>3, <2>4 DEF GateInv, FileIsLast
<1>4. CASE Write(o)
  <2> DEFINE new == [status |-> Written(command[o]), found |-> found[o]]
             n == Len(log)
  <2>1. /\ file' = Written(command[o]) /\ UNCHANGED << command, found, looked >> /\ pc[o] = "truncated"
        /\ log' = Append(log, new) /\ DOMAIN pc' = Operators \cup Gated /\ pc'[o] = "done"
        /\ \A q \in Operators \cup Gated : q # o => pc'[q] = pc[q]
    BY <1>4 DEF Write, Goto, GateInv, TypeOK
  <2>2. /\ Written(command[o]) \in Statuses /\ found[o] \in Nat
        /\ Written(command[o]) = "active" => command[o] = "clear"
    BY <1>0 DEF Written, GateInv, TypeOK, Commands, Statuses
  <2>3. /\ new \in [status : Statuses, found : Nat] /\ new.status = Written(command[o])
        /\ new.found = found[o]
    BY <2>2
  <2>4. /\ n \in Nat /\ n > 0 /\ Len(log') = n + 1 /\ log' \in Seq([status : Statuses, found : Nat])
        /\ log'[n + 1] = new /\ \A i \in 1..n : log'[i] = log[i]
    <3> HIDE DEF new
    <3> QED BY <2>1, <2>3 DEF GateInv, TypeOK
  <2>5. TypeOK'
    BY <1>0, <2>1, <2>2, <2>4 DEF GateInv, TypeOK, OperatorPlaces, Contents
  <2>6. FileIsLast'
    BY <2>1, <2>2, <2>3, <2>4 DEF FileIsLast, Status, Readable, Statuses
  <2>7. LookWasOpen'
    <3> SUFFICES ASSUME NEW g \in Gated, pc'[g] \notin {"begun", "refused"}
                 PROVE  looked[g] \in 1..Len(log') /\ log'[looked[g]].status \notin Stops(g)
      BY <2>1 DEF LookWasOpen, Stops
    <3>1. pc[g] \notin {"begun", "refused"}
      BY <1>0, <2>1
    <3>2. looked[g] \in 1..n /\ log[looked[g]].status \notin Stops(g)
      BY <3>1 DEF GateInv, LookWasOpen
    <3> QED BY <2>4, <3>2
  <2>8. ClearsFollowPauses'
    <3>1. \A i \in 1..n : PausedAt(log, i) => PausedAt(log', i)
      BY <2>4 DEF PausedAt
    <3>2. ASSUME NEW q \in Operators, command[q] = "clear", pc'[q] \in {"write", "truncated"}
          PROVE  PausedAt(log', found'[q])
      BY <2>1, <3>1, <3>2 DEF GateInv, ClearsFollowPauses, PausedAt
    <3>3. ASSUME NEW i \in 2..(n + 1), log'[i].status = "active" PROVE PausedAt(log', log'[i].found)
      <4>1. CASE i = n + 1
        <5>1. command[o] = "clear" /\ log'[i].found = found[o]
          BY <2>2, <2>3, <2>4, <3>3, <4>1
        <5>2. PausedAt(log, found[o])
          BY <2>1, <5>1 DEF GateInv, ClearsFollowPauses
        <5> QED BY <3>1, <5>1, <5>2 DEF PausedAt
      <4>2. CASE i \in 2..n
        <5>1. PausedAt(log, log[i].found) /\ log'[i] = log[i]
          BY <2>4, <3>3, <4>2 DEF GateInv, ClearsFollowPauses
        <5> QED BY <3>1, <5>1 DEF PausedAt
      <4> QED BY <2>4, <4>1, <4>2
    <3> QED BY <2>1, <2>4, <3>2, <3>3 DEF ClearsFollowPauses
  <2> QED BY <2>4, <2>5, <2>6, <2>7, <2>8 DEF GateInv
<1> QED BY <1>1, <1>2, <1>3, <1>4 DEF Operate

LEMMA GateOfOneStep ==
  ASSUME GateInv, NEW g \in Gated, Gate(g)
  PROVE  GateInv'
<1>0. g \notin Operators /\ file \in Contents /\ found \in [Operators -> Nat] /\ looked \in [Gated -> Nat]
  BY UsersDiffer DEF GateInv, TypeOK, Gated
<1>1. ASSUME NEW from, NEW to \in {"permitted", "entering"}, Looks(g, from, to) PROVE GateInv'
  <2>1. /\ looked' = [looked EXCEPT ![g] = Len(log)] /\ UNCHANGED << file, command, log, found >>
        /\ Goto(g, to)
    BY <1>1 DEF Looks
  <2>2. looked' \in [Gated -> Nat] /\ looked'[g] = Len(log)
    BY <1>0, <2>1 DEF GateInv, TypeOK
  <2>3. Len(log) \in 1..Len(log) /\ log[Len(log)].status \notin Stops(g)
    BY <1>0, <1>1, OpenGate DEF Looks, GateInv, TypeOK, FileIsLast
  <2> QED BY <1>0, <2>1, <2>2, <2>3, ReadingTheState DEF GatedPlaces
<1>2. CASE Prepare(g) \/ StartSession(g) \/ Refuse(g)
  <2>1. PICK place \in {"prepared", "session", "refused"} : Goto(g, place)
    BY <1>2 DEF Prepare, StartSession, Refuse
  <2>2. /\ UNCHANGED << file, command, log, found, looked >>
        /\ place # "refused" => pc[g] \in {"permitted", "entering"}
    <3>1. pc'[g] = place
      BY <2>1 DEF Goto, GateInv, TypeOK
    <3> QED BY <1>2, <3>1 DEF Prepare, StartSession, Refuse, Goto, GateInv, TypeOK
  <2>3. place # "refused" => looked[g] \in 1..Len(log) /\ log[looked[g]].status \notin Stops(g)
    BY <2>2 DEF GateInv, LookWasOpen
  <2> QED BY <1>0, <2>1, <2>2, <2>3, ReadingTheState DEF GatedPlaces
<1> QED BY <1>1, <1>2 DEF Gate, LookFirst, LookAgain

LEMMA GateStep ==
  ASSUME GateInv, [Next]_vars
  PROVE  GateInv'
<1>1. CASE UNCHANGED vars
  BY <1>1 DEF vars, GateInv, TypeOK, FileIsLast, LookWasOpen, ClearsFollowPauses, PausedAt,
              Stops, Status, Readable
<1>2. CASE Next
  BY <1>2, OperatorStep, GateOfOneStep DEF Next
<1> QED BY <1>1, <1>2

\* Nobody prepares a target or starts a session on the strength of a look before
\* which a pause (or for a stage a block) had been recorded that nobody has
\* lifted, however many gra-run-state processes rewrite the file or die.  And a
\* block is not lifted by a clearing that found it (gra-run-state:125-130).
THEOREM StopsAreAlwaysHeeded == Spec => []StopsAreHeeded
<1>1. GateInv => StopsAreHeeded
  <2> SUFFICES ASSUME GateInv, NEW g \in Gated, pc[g] \notin {"begun", "refused"},
                      NEW i \in 1..looked[g], log[i].status \in Stops(g)
               PROVE  \E n \in (i + 1)..looked[g] : LiftedBy(n, g, i)
    BY DEF StopsAreHeeded
  <2> DEFINE n == looked[g]
  <2>1. n \in 1..Len(log) /\ log[n].status \notin Stops(g) /\ Len(log) \in Nat
    BY DEF GateInv, LookWasOpen, TypeOK
  <2>2. n \in (i + 1)..looked[g] /\ n \in 2..Len(log)
    BY <2>1
  <2>3. ASSUME log[n].status = "active", ~(log[n].found < i)
        PROVE  \E k \in i..log[n].found : log[k].status = "paused"
    <3>1. PausedAt(log, log[n].found)
      BY <2>2, <2>3 DEF GateInv, ClearsFollowPauses
    <3>2. log[n].found \in i..log[n].found
      BY <2>3, <3>1 DEF PausedAt
    <3> QED BY <3>1, <3>2 DEF PausedAt
  <2>4. LiftedBy(n, g, i)
    BY <2>1, <2>3 DEF LiftedBy
  <2> QED BY <2>2, <2>4
<1> QED BY <1>1, GateInit, GateStep, PTL DEF Spec

-------------------------------------------------------------------------------
(* The elements of a list at given places. *)

LEMMA LeastNatural ==
  ASSUME NEW S \in SUBSET Nat, S # {}
  PROVE  \E m \in S : \A n \in S : m <= n
<1> DEFINE less == {ss \in Nat \X Nat : ss[1] < ss[2]}
<1>1. IsWellFoundedOn(less, Nat)
  BY NatLessThanWellFounded DEF OpToRel
<1>2. PICK m \in S : \A n \in S : << n, m >> \notin less
  BY <1>1, WFMin
<1>3. ASSUME NEW n \in S, ~ (m <= n) PROVE FALSE
  <2>1. << n, m >> \in Nat \X Nat /\ n < m
    BY <1>3
  <2> QED BY <1>2, <2>1
<1> QED BY <1>3

Lists(t, I) == Range(t) = I /\ \A i, j \in DOMAIN t : i < j => t[i] < t[j]

\* One more place at the end.
LEMMA ListsOneMore ==
  ASSUME NEW I \in SUBSET Nat, NEW h \in Nat, \A i \in I : i < h,
         NEW k \in Nat, NEW t \in [1..k -> I], Lists(t, I)
  PROVE  \E u \in [1..(k + 1) -> I \cup {h}] : Lists(u, I \cup {h})
<1> DEFINE u == [i \in 1..(k + 1) |-> IF i = k + 1 THEN h ELSE t[i]]
<1>1. u \in [1..(k + 1) -> I \cup {h}]
  OBVIOUS
<1>2. Range(u) = I \cup {h}
  <2>1. h \in Range(u)
    <3>1. u[k + 1] = h /\ k + 1 \in DOMAIN u
      OBVIOUS
    <3> QED BY <3>1 DEF Range
  <2>2. ASSUME NEW i \in I PROVE i \in Range(u)
    <3>1. PICK x \in 1..k : t[x] = i
      BY DEF Lists, Range
    <3>2. x \in DOMAIN u /\ u[x] = i
      BY <3>1
    <3> QED BY <3>2 DEF Range
  <2> QED BY <1>1, <2>1, <2>2 DEF Range
<1>3. ASSUME NEW i \in 1..(k + 1), NEW j \in 1..(k + 1), i < j PROVE u[i] < u[j]
  <2>1. i \in 1..k /\ u[i] = t[i] /\ t[i] \in I
    BY <1>3
  <2>2. CASE j = k + 1
    BY <2>1, <2>2
  <2>3. CASE j \in 1..k
    BY <1>3, <2>1, <2>3 DEF Lists
  <2> QED BY <2>2, <2>3
<1> QED BY <1>1, <1>2, <1>3 DEF Lists

LEMMA PlacesAreListed ==
  ASSUME NEW n \in Nat, NEW I \in SUBSET (1..n)
  PROVE  \E k \in 0..n : \E t \in [1..k -> I] : Lists(t, I)
<1> DEFINE Upto(m) == {i \in I : i <= m}
           Listed(m) == \E k \in 0..m : \E t \in [1..k -> Upto(m)] : Lists(t, Upto(m))
           bad == {m \in 0..n : ~Listed(m)}
<1>0. \A i \in I : i \in Nat /\ 1 <= i /\ i <= n
  OBVIOUS
<1>a. Upto(0) = {} /\ Upto(n) = I
  <2>1. (\A i \in I : ~(i <= 0)) /\ \A i \in I : i <= n
    BY <1>0
  <2> QED BY <2>1, Zenon
<1>b. ASSUME NEW m \in 1..n
      PROVE  /\ m \in I => Upto(m) = Upto(m - 1) \cup {m}
             /\ m \notin I => Upto(m) = Upto(m - 1)
             /\ Upto(m - 1) \in SUBSET Nat /\ \A i \in Upto(m - 1) : i < m
  <2>1. \A i \in I : i <= m <=> i <= m - 1 \/ i = m
    BY <1>0
  <2>2. m \in I => Upto(m) = Upto(m - 1) \cup {m}
    <3>1. m \in I => m <= m
      OBVIOUS
    <3> QED BY <2>1, <3>1, Zenon
  <2>3. m \notin I => Upto(m) = Upto(m - 1)
    BY <2>1, Zenon
  <2>4. \A i \in Upto(m - 1) : i \in Nat /\ i < m
    <3>1. \A i \in I : i <= m - 1 => i < m
      BY <1>0
    <3> QED BY <1>0, <3>1
  <2> QED BY <2>2, <2>3, <2>4
<1> HIDE DEF Upto
<1>1. bad = {}
  <2> SUFFICES ASSUME bad # {} PROVE FALSE
    OBVIOUS
  <2>1. PICK m \in bad : \A h \in bad : m <= h
    <3>1. bad \in SUBSET Nat
      OBVIOUS
    <3> HIDE DEF bad
    <3> QED BY <3>1, LeastNatural
  <2>2. m \in 0..n /\ ~Listed(m)
    BY <2>1
  <2>3. CASE m = 0
    <3>1. << >> \in [1..0 -> {}] /\ Lists(<< >>, {})
      BY DEF Lists, Range
    <3>2. Listed(0)
      <4>1. [1..0 -> Upto(0)] = [1..0 -> {}] /\ Lists(<< >>, Upto(0)) /\ 0 \in 0..0
        BY <1>a, <3>1
      <4> QED BY <3>1, <4>1
    <3> QED BY <2>2, <2>3, <3>2
  <2>4. CASE m # 0
    <3>1. m - 1 \in 0..n /\ m \in 1..n /\ m - 1 < m
      BY <2>2, <2>4
    <3>2. Listed(m - 1)
      <4>1. m - 1 \notin bad
        <5> HIDE DEF bad
        <5> QED BY <2>1, <2>2, <3>1
      <4> QED BY <3>1, <4>1
    <3>3. PICK k \in 0..(m - 1) : \E t \in [1..k -> Upto(m - 1)] : Lists(t, Upto(m - 1))
      BY <3>2
    <3>4. PICK t \in [1..k -> Upto(m - 1)] : Lists(t, Upto(m - 1))
      BY <3>3
    <3>5. k \in Nat /\ k \in 0..m /\ k + 1 \in 0..m
      BY <3>1, <3>3
    <3> HIDE DEF bad, Listed
    <3>6. CASE m \in I
      <4>1. \E u \in [1..(k + 1) -> Upto(m - 1) \cup {m}] : Lists(u, Upto(m - 1) \cup {m})
        <5>1. Upto(m - 1) \in SUBSET Nat /\ m \in Nat /\ \A i \in Upto(m - 1) : i < m
          BY <1>b, <3>1
        <5> DEFINE J == Upto(m - 1)
        <5>2. t \in [1..k -> J] /\ Lists(t, J) /\ J \in SUBSET Nat /\ \A i \in J : i < m
          BY <3>4, <5>1
        <5> HIDE DEF J
        <5> SUFFICES \E u \in [1..(k + 1) -> J \cup {m}] : Lists(u, J \cup {m})
          BY DEF J
        <5> QED BY <3>5, <5>1, <5>2, ListsOneMore
      <4>2. Upto(m) = Upto(m - 1) \cup {m}
        BY <1>b, <3>1, <3>6
      <4>3. Listed(m)
        BY <3>5, <4>1, <4>2 DEF Listed
      <4> QED BY <2>2, <4>3
    <3>7. CASE m \notin I
      <4>1. Upto(m) = Upto(m - 1)
        BY <1>b, <3>1, <3>7
      <4>2. Listed(m)
        BY <3>4, <3>5, <4>1 DEF Listed
      <4> QED BY <2>2, <4>2
    <3> QED BY <3>6, <3>7
  <2> QED BY <2>3, <2>4
<1>2. n \in 0..n
  OBVIOUS
<1>3. Listed(n)
  BY <1>1, <1>2
<1> QED BY <1>a, <1>3

LEMMA InOrderFacts ==
  ASSUME NEW n \in Nat, NEW I \in SUBSET (1..n)
  PROVE  \E k \in 0..n : InOrder(I, n) \in [1..k -> I] /\ Lists(InOrder(I, n), I)
<1> DEFINE all == UNION {[1..m -> I] : m \in 0..n}
<1>1. \E t \in all : Lists(t, I)
  BY PlacesAreListed
<1>2. InOrder(I, n) = CHOOSE t \in all : Lists(t, I)
  BY DEF InOrder, Lists
<1>3. InOrder(I, n) \in all /\ Lists(InOrder(I, n), I)
  BY <1>1, <1>2
<1> QED BY <1>3

\* The elements at the places I, one place after the other.
Follows(sub, list, I) ==
  \E k \in Nat : \E t \in [1..k -> I] :
    /\ DOMAIN sub = 1..k /\ Len(sub) = k /\ \A i \in 1..k : sub[i] = list[t[i]]
    /\ \A i \in I : \E j \in 1..k : t[j] = i
    /\ \A i, j \in 1..k : i < j => t[i] < t[j]

LEMMA SublistFacts ==
  ASSUME NEW S, NEW list \in Seq(S), NEW I \in SUBSET (DOMAIN list)
  PROVE  Sublist(list, I) \in Seq(S) /\ Follows(Sublist(list, I), list, I)
<1>1. Len(list) \in Nat /\ DOMAIN list = 1..Len(list)
  OBVIOUS
<1>2. PICK k \in 0..Len(list) :
        InOrder(I, Len(list)) \in [1..k -> I] /\ Lists(InOrder(I, Len(list)), I)
  BY <1>1, InOrderFacts
<1> DEFINE t == InOrder(I, Len(list))
           sub == [i \in 1..k |-> list[t[i]]]
<1>3. Sublist(list, I) = sub
  BY <1>2 DEF Sublist
<1>4. k \in Nat /\ t \in [1..k -> I]
  BY <1>1, <1>2
<1>5. \A i \in 1..k : list[t[i]] \in S
  BY <1>1, <1>4
<1>6. sub \in Seq(S) /\ Len(sub) = k
  <2> HIDE DEF t
  <2>1. sub \in [1..k -> S]
    BY <1>5
  <2> HIDE DEF sub
  <2> QED BY <1>4, <2>1
<1>7. /\ \A i \in I : \E j \in 1..k : t[j] = i
      /\ \A i, j \in 1..k : i < j => t[i] < t[j]
  BY <1>2 DEF Lists, Range
<1>8. DOMAIN sub = 1..k /\ \A i \in 1..k : sub[i] = list[t[i]]
  OBVIOUS
<1> HIDE DEF t, sub
<1>9. Follows(sub, list, I)
  BY <1>4, <1>6, <1>7, <1>8 DEF Follows
<1> QED BY <1>3, <1>6, <1>9

-------------------------------------------------------------------------------
(* What the ledger says of a finding, and why. *)

GrantedIn(K) == {k \in K : k.novelty = "accepted-risk" /\ k.match = NoMatch}

GoesOnIn(fps, K) ==
  \A k \in K :
    k.novelty \notin Suppressing \/ (k.novelty = "duplicate" /\ k.match \in fps) => k.fp \in fps

TracedIn(K) ==
  LET all == {k.fp : k \in K} IN
  {fp \in all : \A fps \in SUBSET all : GoesOnIn(fps, K) => fp \in fps}

LEMMA KnownTraced == Granted = GrantedIn(known) /\ Traced = TracedIn(known)
  BY DEF Granted, GrantedIn, Traced, TracedIn, GoesOn, GoesOnIn

LEMMA TracedStep ==
  ASSUME NEW K, NEW k \in K,
         k.novelty \notin Suppressing \/ (k.novelty = "duplicate" /\ k.match \in TracedIn(K))
  PROVE  k.fp \in TracedIn(K)
  BY DEF TracedIn, GoesOnIn

LEMMA TracedGrows ==
  ASSUME NEW K, NEW L, K \subseteq L
  PROVE  TracedIn(K) \subseteq TracedIn(L)
<1> SUFFICES ASSUME NEW fp \in TracedIn(K), NEW fps \in SUBSET {k.fp : k \in L}, GoesOnIn(fps, L)
             PROVE  fp \in fps
  BY DEF TracedIn
<1> DEFINE old == {k.fp : k \in K}
           less == fps \cap old
<1>1. GoesOnIn(less, K)
  BY DEF GoesOnIn
<1>2. less \in SUBSET old
  OBVIOUS
<1> HIDE DEF less
<1>3. fp \in less
  BY <1>1, <1>2 DEF TracedIn
<1> QED BY <1>3 DEF less

\* What every entry of a ledger is like, and the reasons it has among others.
EntryWellFormed(e) ==
  /\ e.novelty \in NoveltyStatuses \ {"invalid-known"}
  /\ e.accepted <=> e.novelty = "accepted-risk"
  /\ e.novelty \in Suppressing => ~e.recommended
  /\ \A s \in Assessed : e.strength[s] \in Int

Reasoned(e, K) ==
  /\ e.novelty = "accepted-risk" => e.match = NoMatch \/ \E k \in GrantedIn(K) : NoWorse(e, k)
  /\ e.novelty = "duplicate" => e.match \in TracedIn(K)

EntryFits(e, K) == EntryWellFormed(e) /\ Reasoned(e, K)

LEMMA EntryFitsMore ==
  ASSUME NEW K, NEW L, K \subseteq L, NEW e, EntryFits(e, K)
  PROVE  EntryFits(e, L)
  BY TracedGrows DEF EntryFits, Reasoned, GrantedIn

\* An acceptance is handed on to what is no worse.
LEMMA AcceptanceIsHandedOn ==
  ASSUME NEW K, \A j \in K : EntryFits(j, K), NEW e, NEW k \in K, k.novelty = "accepted-risk",
         \A s \in Assessed : e.strength[s] \in Int, ~AcceptedRiskChanged(e, k)
  PROVE  \E g \in GrantedIn(K) : NoWorse(e, g)
<1>1. NoWorse(e, k)
  BY DEF AcceptedRiskChanged, Changed, Higher, NoWorse, EntryFits, EntryWellFormed
<1>2. CASE k.match = NoMatch
  BY <1>1, <1>2 DEF GrantedIn
<1>3. CASE k.match # NoMatch
  <2>1. PICK g \in GrantedIn(K) : NoWorse(k, g)
    BY <1>3 DEF EntryFits, Reasoned
  <2>2. \A s \in Assessed : k.strength[s] \in Int /\ g.strength[s] \in Int
    BY DEF EntryFits, EntryWellFormed, GrantedIn
  <2>3. \A s \in Assessed : e.strength[s] <= k.strength[s] /\ k.strength[s] <= g.strength[s]
    BY <1>1, <2>1 DEF NoWorse
  <2>4. \A s \in Assessed : e.strength[s] <= g.strength[s]
    BY <2>2, <2>3
  <2>5. \A n \in HashNames \ {"root_cause"} : e.hashes[n] = g.hashes[n]
    BY <1>1, <2>1 DEF NoWorse
  <2> QED BY <2>4, <2>5 DEF NoWorse
<1> QED BY <1>2, <1>3

LEMMA MatchFits ==
  ASSUME NEW K, \A k \in K : EntryFits(k, K), NEW f, FindingWellFormed(f), NEW k \in K, NEW exact \in BOOLEAN,
         NEW e, e = Matched(EntryBase(f), k, exact)
  PROVE  EntryFits(e, K) /\ e.id = f.id /\ e.fp = f.fp
<1> DEFINE b == EntryBase(f)
           v == Verdict(b, k, exact)
<1>1. /\ e.id = f.id /\ e.fp = f.fp /\ e.novelty = v /\ e.match = k.fp /\ e.strength = f.strength
      /\ e.hashes = f.text /\ b.strength = f.strength /\ b.hashes = f.text
      /\ e.accepted <=> v = "accepted-risk"
      /\ v \in Suppressing => ~e.recommended
  BY DEF Matched, EntryBase
<1>2. v \in {"needs-human-review", "regression", "accepted-risk", "better-example", "duplicate"}
  BY DEF Verdict
<1>3. v = "accepted-risk" => k.novelty = "accepted-risk" /\ ~AcceptedRiskChanged(b, k)
  BY DEF Verdict, IsAcceptedRisk, EntryFits, EntryWellFormed
<1>4. v = "duplicate" => k.novelty # "accepted-risk"
  BY DEF Verdict, IsAcceptedRisk
<1>a. \A s \in Assessed : f.strength[s] \in Int
  BY DEF FindingWellFormed
<1> HIDE DEF b, v
<1>5. EntryWellFormed(e)
  BY <1>1, <1>2, <1>a DEF EntryWellFormed, NoveltyStatuses, Suppressing
<1>6. v = "accepted-risk" => \E g \in GrantedIn(K) : NoWorse(e, g)
  <2>1. v = "accepted-risk" => \E g \in GrantedIn(K) : NoWorse(b, g)
    BY <1>1, <1>3, <1>a, AcceptanceIsHandedOn
  <2> QED BY <1>1, <2>1 DEF NoWorse
<1>7. v = "duplicate" => k.fp \in TracedIn(K)
  <2>1. k.novelty \in NoveltyStatuses \ {"invalid-known"} /\ (k.novelty = "duplicate" => k.match \in TracedIn(K))
    BY DEF EntryFits, EntryWellFormed, Reasoned
  <2>2. k.novelty = "accepted-risk" \/ k.novelty = "duplicate" \/ k.novelty \notin Suppressing
    BY <2>1 DEF NoveltyStatuses, Suppressing
  <2> QED BY <1>4, <2>1, <2>2, TracedStep
<1> QED BY <1>1, <1>5, <1>6, <1>7 DEF EntryFits, Reasoned

LEMMA ClassificationFits ==
  ASSUME NEW K, \A k \in K : EntryFits(k, K), NEW priors, Range(priors) \subseteq K,
         NEW f, FindingWellFormed(f), NEW ids
  PROVE  LET e == ClassifyEntry(f, priors, ids) IN EntryFits(e, K) /\ e.id = f.id /\ e.fp = f.fp
<1> DEFINE b == EntryBase(f)
           exact == SameFingerprint(b, priors)
           alike == SameRoot(b, priors)
<1>1. exact \subseteq K /\ alike \subseteq K
  BY DEF SameFingerprint, SameRoot, FirstAt, Range
<1>2. CASE f.id \in ids
  BY <1>2 DEF ClassifyEntry, Accepted, EntryBase, EntryFits, EntryWellFormed, Reasoned, FindingWellFormed,
              NoveltyStatuses, Suppressing
<1>3. CASE f.id \notin ids /\ exact # {}
  <2>1. ClassifyEntry(f, priors, ids) = Matched(b, CHOOSE k \in exact : TRUE, TRUE)
    BY <1>3 DEF ClassifyEntry
  <2>2. (CHOOSE k \in exact : TRUE) \in K
    BY <1>1, <1>3
  <2> DEFINE k == CHOOSE k \in exact : TRUE
  <2>3. k \in K /\ ClassifyEntry(f, priors, ids) = Matched(EntryBase(f), k, TRUE)
    BY <2>1, <2>2
  <2> HIDE DEF k
  <2>4. ASSUME NEW x \in BOOLEAN, NEW e, e = Matched(EntryBase(f), k, x)
        PROVE  EntryFits(e, K) /\ e.id = f.id /\ e.fp = f.fp
    BY <2>3, <2>4, MatchFits
  <2>5. TRUE \in BOOLEAN
    OBVIOUS
  <2> HIDE DEF b
  <2> QED BY <2>3, <2>4, <2>5
<1>4. CASE f.id \notin ids /\ exact = {} /\ alike # {}
  <2>1. ClassifyEntry(f, priors, ids) = Matched(b, CHOOSE k \in alike : TRUE, FALSE)
    BY <1>4 DEF ClassifyEntry
  <2>2. (CHOOSE k \in alike : TRUE) \in K
    BY <1>1, <1>4
  <2> DEFINE k == CHOOSE k \in alike : TRUE
  <2>3. k \in K /\ ClassifyEntry(f, priors, ids) = Matched(EntryBase(f), k, FALSE)
    BY <2>1, <2>2
  <2> HIDE DEF k
  <2>4. ASSUME NEW x \in BOOLEAN, NEW e, e = Matched(EntryBase(f), k, x)
        PROVE  EntryFits(e, K) /\ e.id = f.id /\ e.fp = f.fp
    BY <2>3, <2>4, MatchFits
  <2>5. FALSE \in BOOLEAN
    OBVIOUS
  <2> HIDE DEF b
  <2> QED BY <2>3, <2>4, <2>5
<1>5. CASE f.id \notin ids /\ exact = {} /\ alike = {}
  <2>1. ClassifyEntry(f, priors, ids) = b
    BY <1>5 DEF ClassifyEntry
  <2> QED BY <2>1 DEF EntryBase, EntryFits, EntryWellFormed, Reasoned, FindingWellFormed,
                      NoveltyStatuses, Suppressing
<1> QED BY <1>2, <1>3, <1>4, <1>5

-------------------------------------------------------------------------------
(* Lists of findings, the ledger of one, and what an import adds to one. *)

ListFits(list) ==
  /\ list \in Seq(Range(list)) /\ \A f \in Range(list) : FindingWellFormed(f)
  /\ \A i, j \in DOMAIN list : list[i].fp = list[j].fp => i = j

\* No two entries, or findings, of one id.
EntriesOnce(ledger) ==
  \A i, j \in DOMAIN ledger.entries : ledger.entries[i].id = ledger.entries[j].id => i = j

LedgerFits(ledger, K, P) ==
  LET es == ledger.entries IN
  /\ DOMAIN es \in SUBSET Nat
  /\ \A e \in Range(es) : EntryFits(e, K) /\ << e.id, e.fp >> \in P
  /\ ledger.suppressed = CountOf(es, Suppressing)
  /\ \A s \in NoveltyStatuses : ledger.counts[s] = CountOf(es, {s})

LEMMA LedgerOfList ==
  ASSUME NEW K, \A k \in K : EntryFits(k, K), NEW priors, Range(priors) \subseteq K,
         NEW list, ListFits(list), NEW ids
  PROVE  /\ LedgerFits(BuildLedger(list, priors, ids), K, Pairs(list))
         /\ NamesOnce(list) => EntriesOnce(BuildLedger(list, priors, ids))
<1> DEFINE es == [i \in DOMAIN list |-> ClassifyEntry(list[i], priors, ids)]
           ledger == BuildLedger(list, priors, ids)
<1>1. /\ ledger.entries = es /\ ledger.suppressed = CountOf(es, Suppressing)
      /\ \A s \in NoveltyStatuses : ledger.counts[s] = CountOf(es, {s})
  BY DEF BuildLedger
<1>2. ASSUME NEW i \in DOMAIN list
      PROVE  /\ EntryFits(es[i], K) /\ es[i].id = list[i].id /\ es[i].fp = list[i].fp
             /\ << es[i].id, es[i].fp >> \in Pairs(list)
  <2>1. list[i] \in Range(list) /\ FindingWellFormed(list[i])
    BY DEF ListFits, Range
  <2>2. es[i] = ClassifyEntry(list[i], priors, ids)
    OBVIOUS
  <2>3. EntryFits(es[i], K) /\ es[i].id = list[i].id /\ es[i].fp = list[i].fp
    BY <2>1, <2>2, ClassificationFits
  <2> QED BY <2>1, <2>3 DEF Pairs
<1>3. DOMAIN es = DOMAIN list
  OBVIOUS
<1>4. DOMAIN list \in SUBSET Nat
  BY DEF ListFits
<1> HIDE DEF es
<1>5. NamesOnce(list) => \A i, j \in DOMAIN es : es[i].id = es[j].id => i = j
  BY <1>2, <1>3 DEF NamesOnce, UniqueIn
<1>6. \A e \in Range(es) : EntryFits(e, K) /\ << e.id, e.fp >> \in Pairs(list)
  BY <1>2, <1>3 DEF Range
<1> HIDE DEF ledger
<1>7. LedgerFits(ledger, K, Pairs(list))
  BY <1>1, <1>3, <1>4, <1>6 DEF LedgerFits
<1>8. NamesOnce(list) => EntriesOnce(ledger)
  BY <1>1, <1>5 DEF EntriesOnce
<1> QED BY <1>7, <1>8 DEF ledger

\* The scales give numbers for the spellings they know.
LEMMA StrengthIsNumber ==
  ASSUME NEW source, NEW raw, RecordNormalizes(raw)
  PROVE  FindingWellFormed(BuildFinding(source, raw))
<1>1. SeverityRank[SeverityAliases[raw.severity]] \in Int
  <2>1. raw.severity \in {"critical", "high", "medium", "low", "info", "informational"}
    BY DEF RecordNormalizes, SeverityAliases
  <2>2. SeverityAliases[raw.severity] \in {"Critical", "High", "Medium", "Low", "Informational"}
    BY <2>1 DEF SeverityAliases
  <2> QED BY <2>2 DEF SeverityRank
<1>2. ConfidenceRank[ConfidenceAliases[raw.confidence]] \in Int
  <2>1. raw.confidence \in {"high", "medium", "low"}
    BY DEF RecordNormalizes, ConfidenceAliases
  <2>2. ConfidenceAliases[raw.confidence] \in {"High", "Medium", "Low"}
    BY <2>1 DEF ConfidenceAliases
  <2> QED BY <2>2 DEF ConfidenceRank
<1>3. StatusRank[StatusAliases[raw.status]] \in Int
  <2>1. StatusAliases[raw.status] \in DOMAIN StatusRank
    BY DEF RecordNormalizes, StatusAliases, StatusRank
  <2>2. \A s \in {"Confirmed", "Probable", "Potential", "Informational", "Invalid",
                  "Needs human review"} : StatusRank[s] \in {0, 1, 2, 3, 4}
    BY DEF StatusRank
  <2>3. DOMAIN StatusRank = {"Confirmed", "Probable", "Potential", "Informational", "Invalid",
                             "Needs human review"}
    BY DEF StatusRank
  <2>4. StatusRank[StatusAliases[raw.status]] \in {0, 1, 2, 3, 4}
    BY <2>1, <2>2, <2>3, Zenon
  <2> QED BY <2>4
<1> QED BY <1>1, <1>2, <1>3 DEF BuildFinding, FindingWellFormed, ImportedStrength, Assessed

LEMMA BuildFindingFacts ==
  ASSUME NEW source, NEW raw
  PROVE  LET f == BuildFinding(source, raw) IN
         f.id = [name |-> "IMP", of |-> f.fp] /\ f.recommended = FALSE
  BY DEF BuildFinding

NewsFit(news) ==
  \A i \in DOMAIN news :
    /\ news[i].id = [name |-> "IMP", of |-> news[i].fp] /\ news[i].recommended = FALSE
    /\ FindingWellFormed(news[i])

\* As many findings as there are records that pass.
LEMMA NewsFacts ==
  ASSUME NEW payload \in Payloads
  PROVE  LET news == NormalizedFindings(payload) IN
         /\ news \in Seq(Range(news)) /\ NewsFit(news)
         /\ Len(payload.records) \in Nat /\ Len(news) \in Nat /\ RejectedCount(payload) \in Nat
         /\ Len(payload.records) = Len(news) + RejectedCount(payload)
<1> DEFINE records == payload.records
           good == {i \in DOMAIN records : RecordNormalizes(records[i])}
           bad == {i \in DOMAIN records : ~RecordNormalizes(records[i])}
           sub == Sublist(records, good)
           news == [i \in DOMAIN sub |-> BuildFinding(payload.source, sub[i])]
<1>1. records \in Seq(Range(records)) /\ Len(records) \in Nat /\ DOMAIN records = 1..Len(records)
  BY PayloadsAreLists
<1>2. good \in SUBSET (DOMAIN records) /\ bad \in SUBSET (DOMAIN records)
  OBVIOUS
<1>3. NormalizedFindings(payload) = news /\ RejectedCount(payload) = Cardinality(bad)
  BY DEF NormalizedFindings, RejectedCount
<1>4. Follows(sub, records, good)
  <2>1. sub = Sublist(records, good)
    OBVIOUS
  <2> HIDE DEF good, records, sub
  <2> QED BY <1>1, <1>2, <2>1, SublistFacts
<1>a. PICK k \in Nat : \E t \in [1..k -> good] :
           /\ DOMAIN sub = 1..k /\ Len(sub) = k /\ \A i \in 1..k : sub[i] = records[t[i]]
           /\ \A i \in good : \E j \in 1..k : t[j] = i
           /\ \A i, j \in 1..k : i < j => t[i] < t[j]
  <2> HIDE DEF good, records, sub
  <2> QED BY <1>4 DEF Follows
<1>5. PICK t \in [1..k -> good] :
           /\ DOMAIN sub = 1..k /\ Len(sub) = k /\ \A i \in 1..k : sub[i] = records[t[i]]
           /\ \A i \in good : \E j \in 1..k : t[j] = i
           /\ \A i, j \in 1..k : i < j => t[i] < t[j]
  BY <1>a
<1>6. DOMAIN news = 1..k /\ \A i \in 1..k : t[i] \in good /\ news[i] = BuildFinding(payload.source, records[t[i]])
  BY <1>5
<1>7. Cardinality(good) = k
  <2>1. IsFiniteSet(1..k) /\ Cardinality(1..k) = k
    BY <1>a, FS_Interval
  <2>2. \A i, j \in 1..k : i # j => t[i] # t[j]
    <3>1. \A i \in 1..k : t[i] \in Nat
      BY <1>1, <1>5
    <3> SUFFICES ASSUME NEW i \in 1..k, NEW j \in 1..k, i # j PROVE t[i] # t[j]
      OBVIOUS
    <3>2. i < j \/ j < i
      BY <1>a
    <3>3. t[i] < t[j] \/ t[j] < t[i]
      BY <1>5, <3>2
    <3> QED BY <3>1, <3>3
  <2>3. t \in Bijection(1..k, good)
    <3> HIDE DEF good
    <3> QED BY <1>5, <2>2 DEF Bijection, Injection, Surjection, IsInjective
  <2>4. ExistsBijection(1..k, good)
    BY <2>3 DEF ExistsBijection
  <2> HIDE DEF good
  <2> QED BY <2>1, <2>4, FS_Bijection
<1>8. Cardinality(good) + Cardinality(bad) = Len(records) /\ Cardinality(bad) \in Nat
  <2>1. IsFiniteSet(1..Len(records)) /\ Cardinality(1..Len(records)) = Len(records)
    BY <1>1, FS_Interval
  <2>2. IsFiniteSet(good) /\ IsFiniteSet(bad)
    BY <1>1, <1>2, <2>1, FS_Subset
  <2>3. good \cap bad = {} /\ good \cup bad = 1..Len(records)
    BY <1>1
  <2> HIDE DEF good, bad
  <2>4. Cardinality(good) \in Nat /\ Cardinality(bad) \in Nat
    BY <2>2, FS_CardinalityType
  <2>5. Cardinality(good \cup bad) = Cardinality(good) + Cardinality(bad) - Cardinality(good \cap bad)
    BY <2>2, FS_Union
  <2>6. Cardinality({}) = 0
    BY FS_EmptySet
  <2>7. Cardinality(good \cup bad) = Len(records)
    <3>1. Cardinality(good \cup bad) = Cardinality(1..Len(records))
      BY <2>3
    <3> QED BY <2>1, <3>1
  <2>8. Cardinality(good \cap bad) = 0
    BY <2>3, <2>6
  <2>9. Cardinality(good) + Cardinality(bad) = Len(records)
    <3> HIDE DEF records
    <3> QED BY <2>4, <2>5, <2>7, <2>8
  <2> QED BY <2>4, <2>9
<1>9. NewsFit(news)
  <2> SUFFICES ASSUME NEW i \in 1..k
               PROVE  /\ news[i].id = [name |-> "IMP", of |-> news[i].fp] /\ news[i].recommended = FALSE
                      /\ FindingWellFormed(news[i])
    BY <1>6 DEF NewsFit
  <2> DEFINE raw == records[t[i]]
  <2>1. news[i] = BuildFinding(payload.source, raw) /\ RecordNormalizes(raw)
    BY <1>6
  <2> HIDE DEF news, raw
  <2>2. FindingWellFormed(news[i])
    BY <2>1, StrengthIsNumber
  <2>3. news[i].id = [name |-> "IMP", of |-> news[i].fp] /\ news[i].recommended = FALSE
    <3>1. LET f == BuildFinding(payload.source, raw) IN
          f.id = [name |-> "IMP", of |-> f.fp] /\ f.recommended = FALSE
      BY BuildFindingFacts
    <3> QED BY <2>1, <3>1
  <2> QED BY <2>2, <2>3
<1>10. news \in Seq(Range(news)) /\ Len(news) = k
  <2>1. news \in [1..k -> Range(news)]
    BY <1>6 DEF Range
  <2> HIDE DEF news
  <2> QED BY <1>a, <2>1
<1> HIDE DEF news, good, bad, records
<1> QED BY <1>1, <1>3, <1>a, <1>7, <1>8, <1>9, <1>10 DEF records

FpsOf(list) == {f.fp : f \in Range(list)}

\* What the report of an import is like, and where what it appended is.
ImportFits(import) ==
  LET its == import.items IN
  /\ \A i \in DOMAIN its :
       /\ (\E j \in 1..(i - 1) : its[j].finding.fp = its[i].finding.fp) =>
            its[i].status = "duplicate-skipped"
       /\ ~its[i].finding.recommended
  /\ import.valid = Len(its)
  /\ import.input = import.valid + import.rejected
  /\ import.appended = Len(ItemsWith(its, "appended"))
  /\ import.skipped = Len(ItemsWith(its, "duplicate-skipped"))

AppendedIn(import, fps) ==
  \A i \in DOMAIN import.items :
    import.items[i].status = "appended" => import.items[i].finding.fp \in fps

ItemsFit(its, append, existing) ==
  /\ its \in Seq(Range(its))
  /\ \A i \in DOMAIN its :
       /\ its[i].finding.id = [name |-> "IMP", of |-> its[i].finding.fp]
       /\ FindingWellFormed(its[i].finding)
       /\ its[i].status = "appended" => append /\ its[i].finding.fp \notin existing
       /\ \A j \in DOMAIN its :
            j < i /\ its[j].finding.fp = its[i].finding.fp => its[i].status # "appended"

LEMMA ImportOfPayload ==
  ASSUME NEW payload \in Payloads, NEW append \in BOOLEAN, NEW existing,
         NEW import, import = BuildImport(payload, append, existing)
  PROVE  ImportFits(import) /\ ItemsFit(import.items, append, existing)
<1> DEFINE news == NormalizedFindings(payload)
           its == [i \in DOMAIN news |->
                     [finding |-> news[i], status |-> AppendStatus(news, i, append, existing)]]
<1>1. /\ news \in Seq(Range(news)) /\ NewsFit(news) /\ Len(news) \in Nat
      /\ Len(payload.records) = Len(news) + RejectedCount(payload)
  BY NewsFacts
<1>2. /\ import.items = its /\ import.input = Len(payload.records) /\ import.valid = Len(its)
      /\ import.rejected = RejectedCount(payload)
      /\ import.appended = Len(ItemsWith(its, "appended"))
      /\ import.skipped = Len(ItemsWith(its, "duplicate-skipped"))
  BY DEF BuildImport
<1> HIDE DEF news
<1>3. DOMAIN news = 1..Len(news) /\ DOMAIN its = 1..Len(news)
  BY <1>1
<1>4. its \in Seq(Range(its)) /\ Len(its) = Len(news)
  <2>1. its \in [1..Len(news) -> Range(its)]
    BY <1>3 DEF Range
  <2> HIDE DEF its
  <2> QED BY <1>1, <2>1
<1>5. ASSUME NEW i \in DOMAIN its
      PROVE  /\ its[i].finding = news[i] /\ its[i].status = AppendStatus(news, i, append, existing)
             /\ its[i].finding.id = [name |-> "IMP", of |-> its[i].finding.fp]
             /\ ~its[i].finding.recommended /\ FindingWellFormed(its[i].finding)
  BY <1>1, <1>3 DEF NewsFit
<1>6. ASSUME NEW i \in DOMAIN its
      PROVE  /\ (\E j \in 1..(i - 1) : its[j].finding.fp = its[i].finding.fp) =>
                  its[i].status = "duplicate-skipped"
             /\ its[i].status = "appended" => append /\ its[i].finding.fp \notin existing
  <2>1. \A j \in 1..(i - 1) : j \in DOMAIN its /\ its[j].finding = news[j]
    BY <1>3, <1>5
  <2> QED BY <1>5, <2>1 DEF AppendStatus
<1> HIDE DEF its
<1>7. ImportFits(import)
  BY <1>1, <1>2, <1>4, <1>5, <1>6 DEF ImportFits
<1>8. ASSUME NEW i \in DOMAIN its, NEW j \in DOMAIN its, j < i, its[j].finding.fp = its[i].finding.fp
      PROVE  its[i].status # "appended"
  <2>1. j \in 1..(i - 1)
    BY <1>3, <1>8
  <2> QED BY <1>6, <1>8, <2>1
<1>9. ItemsFit(its, append, existing)
  BY <1>4, <1>5, <1>6, <1>8 DEF ItemsFit
<1> QED BY <1>2, <1>7, <1>9

\* Appending what a list does not have.
LEMMA ListsJoin ==
  ASSUME NEW a, NEW b, ListFits(a), ListFits(b),
         \A f \in Range(a), g \in Range(b) : f.id # g.id /\ f.fp # g.fp
  PROVE  /\ ListFits(a \o b) /\ Range(a \o b) = Range(a) \cup Range(b)
         /\ NamesOnce(a) /\ NamesOnce(b) => NamesOnce(a \o b)
<1> DEFINE S == Range(a) \cup Range(b)
           c == a \o b
<1>0. a \in Seq(Range(a)) /\ b \in Seq(Range(b))
  BY DEF ListFits
<1>1. a \in Seq(S) /\ b \in Seq(S) /\ Len(a) \in Nat /\ Len(b) \in Nat
      /\ DOMAIN a = 1..Len(a) /\ DOMAIN b = 1..Len(b)
  <2>1. a \in Seq(S)
    BY <1>0, SeqDef
  <2>2. b \in Seq(S)
    BY <1>0, SeqDef
  <2> QED BY <2>1, <2>2
<1>2. /\ c \in Seq(S) /\ DOMAIN c = 1..(Len(a) + Len(b))
      /\ \A i \in DOMAIN a : c[i] = a[i]
      /\ \A i \in DOMAIN c : i \notin DOMAIN a => i - Len(a) \in DOMAIN b /\ c[i] = b[i - Len(a)]
      /\ \A i \in DOMAIN b : i + Len(a) \in DOMAIN c /\ c[i + Len(a)] = b[i]
  <2> HIDE DEF S
  <2> QED BY <1>1
<1> HIDE DEF c
<1>3. Range(c) = S
  <2>1. ASSUME NEW i \in DOMAIN c PROVE c[i] \in S
    BY <1>2, <2>1 DEF Range
  <2>2. ASSUME NEW i \in DOMAIN a PROVE a[i] \in Range(c)
    <3>1. i \in DOMAIN c /\ c[i] = a[i]
      BY <1>1, <1>2
    <3> QED BY <3>1 DEF Range
  <2>3. ASSUME NEW i \in DOMAIN b PROVE b[i] \in Range(c)
    BY <1>2 DEF Range
  <2> QED BY <2>1, <2>2, <2>3 DEF Range
<1>4. ASSUME NEW i \in DOMAIN c, NEW j \in DOMAIN c,
             (NamesOnce(a) /\ NamesOnce(b) /\ c[i].id = c[j].id) \/ c[i].fp = c[j].fp
      PROVE  i = j
  <2>a. i \in Int /\ j \in Int
    BY <1>2
  <2>1. CASE i \in DOMAIN a /\ j \in DOMAIN a
    BY <1>2, <1>4, <2>1 DEF ListFits, NamesOnce, UniqueIn
  <2>2. CASE i \notin DOMAIN a /\ j \notin DOMAIN a
    <3>1. i - Len(a) = j - Len(a)
      BY <1>2, <1>4, <2>2 DEF ListFits, NamesOnce, UniqueIn
    <3> QED BY <1>1, <2>a, <3>1
  <2>3. CASE i \in DOMAIN a /\ j \notin DOMAIN a
    <3>1. c[i] \in Range(a) /\ c[j] \in Range(b)
      <4>1. c[i] = a[i] /\ j - Len(a) \in DOMAIN b /\ c[j] = b[j - Len(a)]
        BY <1>2, <2>3
      <4> QED BY <2>3, <4>1 DEF Range
    <3>2. c[i].id # c[j].id /\ c[i].fp # c[j].fp
      BY <3>1
    <3> QED BY <1>4, <3>2
  <2>4. CASE i \notin DOMAIN a /\ j \in DOMAIN a
    <3>1. c[j] \in Range(a) /\ c[i] \in Range(b)
      <4>1. c[j] = a[j] /\ i - Len(a) \in DOMAIN b /\ c[i] = b[i - Len(a)]
        BY <1>2, <2>4
      <4> QED BY <2>4, <4>1 DEF Range
    <3>2. c[j].id # c[i].id /\ c[j].fp # c[i].fp
      BY <3>1
    <3> QED BY <1>4, <3>2
  <2> QED BY <2>1, <2>2, <2>3, <2>4
<1>5. c \in Seq(Range(c)) /\ \A f \in Range(c) : FindingWellFormed(f)
  BY <1>2, <1>3 DEF ListFits
<1>6. ListFits(c)
  BY <1>4, <1>5 DEF ListFits
<1>7. NamesOnce(a) /\ NamesOnce(b) => NamesOnce(c)
  BY <1>4 DEF NamesOnce, UniqueIn
<1> QED BY <1>3, <1>6, <1>7 DEF c

LEMMA AppendedFits ==
  ASSUME NEW payload \in Payloads, NEW list, ListFits(list),
         NEW import, import = BuildImport(payload, TRUE, {f.fp : f \in Range(list)})
  PROVE  /\ ListFits(list \o Appended(import))
         /\ AppendedIn(import, FpsOf(list \o Appended(import)))
         /\ NamesOnce(list) => NamesOnce(list \o Appended(import))
<1> DEFINE its == import.items
           there == {i \in DOMAIN its : its[i].status = "appended"}
           added == Sublist(its, there)
           news == Appended(import)
<1>1. /\ its \in Seq(Range(its))
      /\ \A i \in DOMAIN its :
           /\ its[i].finding.id = [name |-> "IMP", of |-> its[i].finding.fp]
           /\ FindingWellFormed(its[i].finding)
           /\ its[i].status = "appended" => its[i].finding.fp \notin {f.fp : f \in Range(list)}
           /\ \A j \in DOMAIN its :
                j < i /\ its[j].finding.fp = its[i].finding.fp => its[i].status # "appended"
  <2>1. PICK app \in BOOLEAN : app = TRUE
    OBVIOUS
  <2> DEFINE present == {f.fp : f \in Range(list)}
  <2>2. import = BuildImport(payload, app, present)
    BY <2>1
  <2> HIDE DEF present
  <2>3. ItemsFit(its, app, present)
    BY <2>2, ImportOfPayload
  <2> QED BY <2>3 DEF present, ItemsFit
<1>a. its \in Seq(Range(its))
  BY <1>1
<1>2. there \in SUBSET (DOMAIN its) /\ DOMAIN its = 1..Len(its) /\ Len(its) \in Nat
  <2> HIDE DEF its
  <2> QED BY <1>a
<1>3. Follows(added, its, there)
  <2>1. added = Sublist(its, there)
    OBVIOUS
  <2> HIDE DEF added, there, its
  <2> QED BY <1>a, <1>2, <2>1, SublistFacts
<1>4. news = [i \in DOMAIN added |-> added[i].finding]
  BY DEF Appended, ItemsWith
<1>5. PICK k \in Nat : \E t \in [1..k -> there] :
           /\ DOMAIN added = 1..k /\ Len(added) = k /\ \A i \in 1..k : added[i] = its[t[i]]
           /\ \A i \in there : \E j \in 1..k : t[j] = i
           /\ \A i, j \in 1..k : i < j => t[i] < t[j]
  <2> HIDE DEF added, there, its
  <2> QED BY <1>3 DEF Follows
<1>6. PICK t \in [1..k -> there] :
           /\ DOMAIN added = 1..k /\ \A i \in 1..k : added[i] = its[t[i]]
           /\ \A i \in there : \E j \in 1..k : t[j] = i
           /\ \A i, j \in 1..k : i < j => t[i] < t[j]
  BY <1>5
<1>b. DOMAIN news = 1..k /\ \A i \in 1..k : news[i] = added[i].finding
  <2> HIDE DEF added, news, its, there
  <2> QED BY <1>4, <1>6
<1>7. /\ \A i \in 1..k : /\ t[i] \in DOMAIN its /\ t[i] \in Nat
                         /\ its[t[i]].status = "appended" /\ news[i] = its[t[i]].finding
      /\ \A i \in there : \E j \in 1..k : news[j] = its[i].finding
  <2>1. \A i \in there : i \in DOMAIN its /\ i \in Nat /\ its[i].status = "appended"
    <3>1. \A i \in there : i \in DOMAIN its /\ its[i].status = "appended"
      OBVIOUS
    <3> HIDE DEF there, its
    <3> QED BY <1>2, <3>1
  <2> HIDE DEF news, added, there, its
  <2>2. \A i \in 1..k : t[i] \in there /\ news[i] = its[t[i]].finding
    BY <1>6, <1>b
  <2>3. ASSUME NEW i \in there PROVE \E j \in 1..k : news[j] = its[i].finding
    <3>1. PICK j \in 1..k : t[j] = i
      BY <1>6
    <3> QED BY <2>2, <3>1
  <2> QED BY <2>1, <2>2, <2>3
<1> HIDE DEF news, added, there, its
<1>8. ASSUME NEW i \in 1..k, NEW j \in 1..k, i < j PROVE news[i].fp # news[j].fp
  <2>1. t[i] \in DOMAIN its /\ t[j] \in DOMAIN its /\ t[i] < t[j] /\ its[t[j]].status = "appended"
    BY <1>6, <1>7, <1>8
  <2>2. its[t[i]].finding.fp # its[t[j]].finding.fp
    BY <1>1, <2>1
  <2> QED BY <1>7, <2>2
<1>9. \A i \in 1..k : /\ news[i].id = [name |-> "IMP", of |-> news[i].fp] /\ FindingWellFormed(news[i])
                      /\ news[i].fp \notin {f.fp : f \in Range(list)}
  <2> SUFFICES ASSUME NEW i \in 1..k
               PROVE  /\ news[i].id = [name |-> "IMP", of |-> news[i].fp] /\ FindingWellFormed(news[i])
                      /\ news[i].fp \notin {f.fp : f \in Range(list)}
    OBVIOUS
  <2>1. t[i] \in DOMAIN its /\ its[t[i]].status = "appended" /\ news[i] = its[t[i]].finding
    BY <1>7
  <2> QED BY <1>1, <2>1
<1>10. ListFits(news) /\ NamesOnce(news)
  <2>1. news \in [1..k -> Range(news)]
    <3>1. news = [i \in 1..k |-> news[i]]
      BY <1>4, <1>b DEF added
    <3> QED BY <1>b, <3>1 DEF Range
  <2>2. news \in Seq(Range(news))
    BY <1>5, <2>1
  <2>3. ASSUME NEW i \in 1..k, NEW j \in 1..k, news[i].fp = news[j].fp PROVE i = j
    <3>1. ~(i < j) /\ ~(j < i)
      BY <1>8, <2>3
    <3> QED BY <3>1
  <2>4. \A i, j \in 1..k : news[i].id = news[j].id => news[i].fp = news[j].fp
    <3> SUFFICES ASSUME NEW i \in 1..k, NEW j \in 1..k, news[i].id = news[j].id
                 PROVE  news[i].fp = news[j].fp
      OBVIOUS
    <3>1. /\ news[i].id = [name |-> "IMP", of |-> news[i].fp]
          /\ news[j].id = [name |-> "IMP", of |-> news[j].fp]
      BY <1>9, Zenon
    <3>2. ASSUME NEW x, NEW y, [name |-> "IMP", of |-> x] = [name |-> "IMP", of |-> y] PROVE x = y
      <4>1. [name |-> "IMP", of |-> x].of = [name |-> "IMP", of |-> y].of
        BY <3>2
      <4> QED BY <4>1
    <3> QED BY <3>1, <3>2
  <2>5. \A f \in Range(news) : FindingWellFormed(f)
    BY <1>b, <1>9 DEF Range
  <2>6. NamesOnce(news)
    BY <1>b, <2>3, <2>4 DEF NamesOnce, UniqueIn
  <2> QED BY <1>b, <2>2, <2>3, <2>5, <2>6 DEF ListFits
<1>11. \A f \in Range(list), g \in Range(news) : f.id # g.id /\ f.fp # g.fp
  <2> SUFFICES ASSUME NEW f \in Range(list), NEW g \in Range(news) PROVE f.id # g.id /\ f.fp # g.fp
    OBVIOUS
  <2>1. g.id = [name |-> "IMP", of |-> g.fp] /\ g.fp \notin {h.fp : h \in Range(list)}
    BY <1>b, <1>9 DEF Range
  <2>2. f.fp # g.fp
    BY <2>1
  <2>3. f.id.name = "IMP" => f.id.of = f.fp
    BY DEF ListFits, FindingWellFormed
  <2> QED BY <2>1, <2>2, <2>3
<1>12. /\ ListFits(list \o news) /\ Range(list \o news) = Range(list) \cup Range(news)
       /\ NamesOnce(list) => NamesOnce(list \o news)
  BY <1>10, <1>11, ListsJoin
<1>13. AppendedIn(import, FpsOf(list \o news))
  <2> SUFFICES ASSUME NEW i \in there PROVE its[i].finding.fp \in FpsOf(list \o news)
    BY DEF AppendedIn, there, its
  <2>1. its[i].finding \in Range(news)
    BY <1>7, <1>b DEF Range
  <2> QED BY <1>12, <2>1 DEF FpsOf
<1> QED BY <1>12, <1>13 DEF news

-------------------------------------------------------------------------------
(* The inductive invariant of FindingTriage. *)

\* What has been in findings.json since the run began, as pairs and as
\* fingerprints.
Present == Pairs(report.findings.of) \cup gone
FpsPresent(P) == {pair[2] : pair \in P}

\* What a command has read, or made of it, when the entries K have been written
\* to ledgers and the findings P are or were there.
JobFits(j, K, P) ==
  \/ j = Idle
  \/ j = [at |-> "read", risks |-> j.risks, prior |-> j.prior]
       /\ j.prior \in {"archive", "ledger", "none"}
  \/ j = [at |-> "classify", risks |-> j.risks, prior |-> j.prior, findings |-> j.findings]
       /\ j.prior \in {"archive", "ledger", "none"}
       /\ ListFits(j.findings) /\ Pairs(j.findings) \subseteq P
  \/ j.at \in {"classified", "ledgerOpen"} /\ j = [at |-> j.at, ledger |-> j.ledger]
       /\ LedgerFits(j.ledger, K, P)
  \/ j = [at |-> "load", payload |-> j.payload] /\ j.payload \in Payloads
  \/ j.at \in {"loaded", "findingsOpen"}
       /\ j = [at |-> j.at, import |-> j.import, findings |-> j.findings]
       /\ ListFits(j.findings) /\ ImportFits(j.import) /\ AppendedIn(j.import, FpsOf(j.findings))
  \/ j.at \in {"imported", "importedOpen"} /\ j = [at |-> j.at, import |-> j.import]
       /\ ImportFits(j.import) /\ AppendedIn(j.import, FpsPresent(P))

IsFile(content) == content = [is |-> content.is, of |-> content.of]

FilesFit ==
  /\ report = [findings |-> report.findings, ledger |-> report.ledger, imported |-> report.imported]
  /\ IsFile(report.findings) /\ IsFile(report.ledger) /\ IsFile(report.imported)

KnownFit ==
  /\ \A k \in known : EntryFits(k, known)
  /\ Range(archive) \subseteq known /\ Range(report.ledger.of.entries) \subseteq known

ReportsFit ==
  /\ ListFits(report.findings.of)
  /\ LedgerFits(report.ledger.of, known, Present)
  /\ report.imported.is = "whole" =>
       ImportFits(report.imported.of) /\ AppendedIn(report.imported.of, FpsPresent(Present))

JobsFit == DOMAIN job = Triagers /\ \A p \in Triagers : JobFits(job[p], known, Present)

TriageInv == FilesFit /\ KnownFit /\ ReportsFit /\ JobsFit

LEMMA LedgerFitsMore ==
  ASSUME NEW K, NEW L, K \subseteq L, NEW P, NEW Q, P \subseteq Q, NEW ledger, LedgerFits(ledger, K, P)
  PROVE  LedgerFits(ledger, L, Q)
<1>1. \A e \in Range(ledger.entries) : EntryFits(e, L) /\ << e.id, e.fp >> \in Q
  BY EntryFitsMore DEF LedgerFits
<1> QED BY <1>1 DEF LedgerFits

LEMMA AppendedInMore ==
  ASSUME NEW P, NEW Q, P \subseteq Q, NEW import, AppendedIn(import, P)
  PROVE  AppendedIn(import, Q)
  BY DEF AppendedIn

LEMMA JobFitsMore ==
  ASSUME NEW K, NEW L, K \subseteq L, NEW P, NEW Q, P \subseteq Q, NEW j, JobFits(j, K, P)
  PROVE  JobFits(j, L, Q)
<1>1. FpsPresent(P) \subseteq FpsPresent(Q)
  BY DEF FpsPresent
<1>2. CASE j.at \in {"classified", "ledgerOpen"} /\ j = [at |-> j.at, ledger |-> j.ledger]
             /\ LedgerFits(j.ledger, K, P)
  BY <1>2, LedgerFitsMore DEF JobFits
<1>3. CASE j.at \in {"imported", "importedOpen"} /\ j = [at |-> j.at, import |-> j.import]
             /\ ImportFits(j.import) /\ AppendedIn(j.import, FpsPresent(P))
  BY <1>1, <1>3, AppendedInMore DEF JobFits
<1> QED BY <1>2, <1>3 DEF JobFits

\* The others go on with what they have.
LEMMA JobsElsewhere ==
  ASSUME JobsFit, NEW p \in Triagers, NEW j, job' = [job EXCEPT ![p] = j],
         known \subseteq known', Present \subseteq Present', JobFits(j, known', Present')
  PROVE  JobsFit'
<1>1. DOMAIN job' = Triagers /\ job'[p] = j /\ \A q \in Triagers : q # p => job'[q] = job[q]
  BY DEF JobsFit
<1>2. ASSUME NEW q \in Triagers, q # p PROVE JobFits(job[q], known', Present')
  <2>1. JobFits(job[q], known, Present)
    BY DEF JobsFit
  <2> DEFINE K == known L == known' P == Present Q == Present' x == job[q]
  <2>2. JobFits(x, K, P) /\ K \subseteq L /\ P \subseteq Q
    BY <2>1
  <2> HIDE DEF K, L, P, Q, x
  <2>3. JobFits(x, L, Q)
    BY <2>2, JobFitsMore
  <2> QED BY <2>3 DEF L, Q, x
<1>3. \A q \in Triagers : JobFits(job'[q], known', Present')
  BY <1>1, <1>2
<1> QED BY <1>1, <1>3 DEF JobsFit

\* A step that only reads.
LEMMA ReadingKeeps ==
  ASSUME TriageInv, NEW p \in Triagers, NEW j, job' = [job EXCEPT ![p] = j],
         UNCHANGED << report, archive, gone, known >>, JobFits(j, known, Present)
  PROVE  TriageInv'
<1>1. Present' = Present
  BY DEF Present
<1>2. FilesFit' /\ KnownFit' /\ ReportsFit'
  BY <1>1 DEF TriageInv, FilesFit, KnownFit, ReportsFit
<1>3. JobFits(j, known', Present')
  BY <1>1
<1>4. JobsFit'
  BY <1>1, <1>3, JobsElsewhere DEF TriageInv
<1> QED BY <1>2, <1>4 DEF TriageInv

\* A file that is opened for writing keeps in .of what it had.
LEMMA OpeningFacts ==
  ASSUME FilesFit, NEW name \in {"findings", "ledger", "imported"},
         report' = [report EXCEPT ![name].is = "torn"]
  PROVE  /\ FilesFit' /\ report'.findings.of = report.findings.of
         /\ report'.ledger.of = report.ledger.of /\ report'.imported.of = report.imported.of
         /\ report'.imported.is = "whole" => report.imported.is = "whole"
<1>1. CASE name = "findings"
  BY <1>1 DEF FilesFit, IsFile
<1>2. CASE name = "ledger"
  BY <1>2 DEF FilesFit, IsFile
<1>3. CASE name = "imported"
  BY <1>3 DEF FilesFit, IsFile
<1> QED BY <1>1, <1>2, <1>3

LEMMA OpeningKeeps ==
  ASSUME TriageInv, NEW p \in Triagers, NEW j, job' = [job EXCEPT ![p] = j],
         NEW name \in {"findings", "ledger", "imported"},
         report' = [report EXCEPT ![name].is = "torn"],
         UNCHANGED << archive, gone, known >>, JobFits(j, known, Present)
  PROVE  TriageInv'
<1>0. /\ FilesFit' /\ report'.findings.of = report.findings.of
      /\ report'.ledger.of = report.ledger.of /\ report'.imported.of = report.imported.of
      /\ report'.imported.is = "whole" => report.imported.is = "whole"
  BY OpeningFacts DEF TriageInv
<1>1. Present' = Present
  BY <1>0 DEF Present
<1>2. KnownFit' /\ ReportsFit'
  BY <1>0, <1>1 DEF TriageInv, KnownFit, ReportsFit
<1>3. JobFits(j, known', Present')
  BY <1>1
<1>4. JobsFit'
  BY <1>1, <1>3, JobsElsewhere DEF TriageInv
<1> QED BY <1>0, <1>2, <1>4 DEF TriageInv

LEMMA PutFacts ==
  ASSUME FilesFit, NEW name \in {"findings", "ledger", "imported"}, NEW content, Put(name, content)
  PROVE  /\ FilesFit'
         /\ report'.findings = IF name = "findings" THEN Whole(content) ELSE report.findings
         /\ report'.ledger = IF name = "ledger" THEN Whole(content) ELSE report.ledger
         /\ report'.imported = IF name = "imported" THEN Whole(content) ELSE report.imported
<1>1. CASE name = "findings"
  BY <1>1 DEF FilesFit, IsFile, Put, Whole
<1>2. CASE name = "ledger"
  BY <1>2 DEF FilesFit, IsFile, Put, Whole
<1>3. CASE name = "imported"
  BY <1>3 DEF FilesFit, IsFile, Put, Whole
<1> QED BY <1>1, <1>2, <1>3

\* What a writer takes out of findings.json is remembered as gone.
LEMMA NothingIsForgotten ==
  ASSUME TriageInv, NEW list, ListFits(list), PutFindings(list), UNCHANGED << archive, known >>
  PROVE  /\ Present \subseteq Present' /\ Pairs(list) \subseteq Present'
         /\ FilesFit' /\ KnownFit' /\ ReportsFit'
<1>1. FilesFit' /\ report'.findings = Whole(list)
      /\ report'.ledger = report.ledger /\ report'.imported = report.imported
  BY PutFacts DEF TriageInv, PutFindings
<1>2. report'.findings.of = list
  BY <1>1 DEF Whole
<1>3. Present' = Pairs(list) \cup ((gone \cup Pairs(report.findings.of)) \ Pairs(list))
  BY <1>2 DEF Present, PutFindings
<1>4. Present \subseteq Present' /\ Pairs(list) \subseteq Present'
  BY <1>3 DEF Present
<1>5. KnownFit'
  BY <1>1 DEF TriageInv, KnownFit
<1>6. LedgerFits(report'.ledger.of, known', Present')
  <2> DEFINE l == report.ledger.of K == known P == Present Q == Present'
  <2>1. LedgerFits(l, K, P) /\ P \subseteq Q
    BY <1>4 DEF TriageInv, ReportsFit
  <2> HIDE DEF l, K, P, Q
  <2>2. LedgerFits(l, K, Q)
    BY <2>1, LedgerFitsMore
  <2> QED BY <1>1, <2>2 DEF l, K, Q
<1>7. FpsPresent(Present) \subseteq FpsPresent(Present')
  BY <1>4 DEF FpsPresent
<1>8. report'.imported.is = "whole" =>
        ImportFits(report'.imported.of) /\ AppendedIn(report'.imported.of, FpsPresent(Present'))
  BY <1>1, <1>7, AppendedInMore DEF TriageInv, ReportsFit
<1>9. ReportsFit'
  BY <1>2, <1>6, <1>8 DEF ReportsFit
<1> QED BY <1>1, <1>4, <1>5, <1>9

LEMMA StoredLedgerFits ==
  ASSUME TriageInv, NEW p \in Triagers, StoreLedger(p)
  PROVE  TriageInv'
<1> DEFINE l == job[p].ledger
           L == known \cup Range(l.entries)
<1>0. JobFits(job[p], known, Present) /\ job[p].at = "ledgerOpen"
  BY DEF StoreLedger, TriageInv, JobsFit
<1>1. LedgerFits(l, known, Present)
  BY <1>0 DEF JobFits, Idle
<1>2. /\ FilesFit' /\ report'.findings = report.findings /\ report'.imported = report.imported
      /\ report'.ledger = Whole(l)
  BY PutFacts DEF TriageInv, StoreLedger
<1>3. Present' = Present /\ known' = L /\ archive' = archive /\ report'.ledger.of = l
  BY <1>2 DEF Present, StoreLedger, Whole
<1>4. \A k \in L : EntryFits(k, L)
  <2>1. \A k \in L : EntryFits(k, known)
    BY <1>1 DEF TriageInv, KnownFit, LedgerFits
  <2>2. known \subseteq L
    OBVIOUS
  <2> HIDE DEF L
  <2> QED BY <2>1, <2>2, EntryFitsMore
<1>5. KnownFit'
  BY <1>3, <1>4 DEF TriageInv, KnownFit
<1>6. LedgerFits(l, L, Present)
  <2>1. known \subseteq L
    OBVIOUS
  <2> HIDE DEF L, l
  <2> DEFINE P == Present
  <2>2. LedgerFits(l, known, P) /\ P \subseteq P
    BY <1>1
  <2> HIDE DEF P
  <2>3. LedgerFits(l, L, P)
    BY <2>1, <2>2, LedgerFitsMore
  <2> QED BY <2>3 DEF P
<1>7. ReportsFit'
  BY <1>2, <1>3, <1>6 DEF TriageInv, ReportsFit
<1>8. JobFits(Idle, known', Present')
  BY DEF JobFits
<1>9. job' = [job EXCEPT ![p] = Idle]
  BY DEF StoreLedger, Becomes
<1>10. JobsFit'
  BY <1>3, <1>8, <1>9, JobsElsewhere DEF TriageInv
<1> QED BY <1>2, <1>5, <1>7, <1>10 DEF TriageInv

LEMMA StoredFindingsFit ==
  ASSUME TriageInv, NEW p \in Triagers, StoreFindings(p)
  PROVE  TriageInv'
<1> DEFINE list == job[p].findings
           imp == job[p].import
<1>0. JobFits(job[p], known, Present) /\ job[p].at = "findingsOpen"
  BY DEF StoreFindings, TriageInv, JobsFit
<1>1. ListFits(list) /\ ImportFits(imp) /\ AppendedIn(imp, FpsOf(list))
  BY <1>0 DEF JobFits, Idle
<1>2. /\ PutFindings(list) /\ UNCHANGED << archive, known >>
      /\ job' = [job EXCEPT ![p] = [at |-> "imported", import |-> imp]]
  BY DEF StoreFindings, Becomes
<1> HIDE DEF list, imp
<1>3. /\ Present \subseteq Present' /\ Pairs(list) \subseteq Present'
      /\ FilesFit' /\ KnownFit' /\ ReportsFit'
  BY <1>1, <1>2, NothingIsForgotten
<1>4. FpsOf(list) \subseteq FpsPresent(Present')
  <2> SUFFICES ASSUME NEW f \in Range(list) PROVE f.fp \in FpsPresent(Present')
    BY DEF FpsOf
  <2>1. << f.id, f.fp >> \in Present'
    BY <1>3 DEF Pairs
  <2> QED BY <2>1 DEF FpsPresent
<1>5. JobFits([at |-> "imported", import |-> imp], known', Present')
  <2>1. AppendedIn(imp, FpsPresent(Present'))
    BY <1>1, <1>4, AppendedInMore
  <2> QED BY <1>1, <2>1 DEF JobFits
<1>6. JobsFit'
  BY <1>2, <1>3, <1>5, JobsElsewhere DEF TriageInv
<1> QED BY <1>3, <1>6 DEF TriageInv

LEMMA StoredImportFits ==
  ASSUME TriageInv, NEW p \in Triagers, StoreImported(p)
  PROVE  TriageInv'
<1> DEFINE imp == job[p].import
<1>0. JobFits(job[p], known, Present) /\ job[p].at = "importedOpen"
  BY DEF StoreImported, TriageInv, JobsFit
<1>1. ImportFits(imp) /\ AppendedIn(imp, FpsPresent(Present))
  BY <1>0 DEF JobFits, Idle
<1>2. /\ FilesFit' /\ report'.findings = report.findings /\ report'.ledger = report.ledger
      /\ report'.imported = Whole(imp)
  BY PutFacts DEF TriageInv, StoreImported
<1>3. Present' = Present /\ UNCHANGED << known, archive >> /\ report'.imported.of = imp
  BY <1>2 DEF Present, StoreImported, Whole
<1>4. KnownFit' /\ ReportsFit'
  BY <1>1, <1>2, <1>3 DEF TriageInv, KnownFit, ReportsFit
<1>5. JobFits(Idle, known', Present')
  BY DEF JobFits
<1>6. job' = [job EXCEPT ![p] = Idle]
  BY DEF StoreImported, Becomes
<1>7. JobsFit'
  BY <1>3, <1>5, <1>6, JobsElsewhere DEF TriageInv
<1> QED BY <1>2, <1>4, <1>7 DEF TriageInv

LEMMA GivenListsFit == \A list \in FindingLists : ListFits(list)
  BY ListsAreValid DEF ListFits, UniqueIn

LEMMA EmptyFits ==
  /\ NoLedger.entries = << >> /\ Range(<< >>) = {}
  /\ \A K, P : LedgerFits(NoLedger, K, P)
  /\ ListFits(<< >>)
<1>1. Range(<< >>) = {} /\ DOMAIN << >> = {}
  BY DEF Range
<1>2. /\ NoLedger.entries = << >> /\ NoLedger.suppressed = CountOf(<< >>, Suppressing)
      /\ \A s \in NoveltyStatuses : NoLedger.counts[s] = CountOf(<< >>, {s})
  <2>1. [i \in DOMAIN << >> |-> ClassifyEntry(<< >>[i], << >>, {})] = << >>
    OBVIOUS
  <2> QED BY <2>1 DEF NoLedger, BuildLedger
<1>3. ListFits(<< >>)
  BY <1>1 DEF ListFits
<1>4. \A K, P : LedgerFits(NoLedger, K, P)
  BY <1>1, <1>2 DEF LedgerFits
<1> QED BY <1>1, <1>2, <1>3, <1>4

LEMMA EditKeeps ==
  ASSUME TriageInv, NEW list \in FindingLists, EditFindings(list)
  PROVE  TriageInv'
<1>1. /\ Present \subseteq Present' /\ FilesFit' /\ KnownFit' /\ ReportsFit'
  BY GivenListsFit, NothingIsForgotten DEF EditFindings
<1>2. ASSUME NEW p \in Triagers PROVE JobFits(job[p], known', Present')
  <2> DEFINE x == job[p] K == known P == Present Q == Present'
  <2>1. JobFits(x, K, P) /\ P \subseteq Q
    BY <1>1 DEF TriageInv, JobsFit
  <2> HIDE DEF x, K, P, Q
  <2>2. JobFits(x, K, Q)
    BY <2>1, JobFitsMore
  <2> QED BY <2>2 DEF x, K, Q, EditFindings
<1>3. JobsFit'
  BY <1>2 DEF JobsFit, TriageInv, EditFindings
<1> QED BY <1>1, <1>3 DEF TriageInv

LEMMA NewRunKeeps ==
  ASSUME TriageInv, NEW list \in FindingLists, NewRun(list)
  PROVE  TriageInv'
<1>1. /\ report' = [findings |-> Whole(list), ledger |-> Missing(NoLedger), imported |-> Missing(NoImport)]
      /\ archive' = (IF report.ledger.is = "whole" THEN report.ledger.of.entries ELSE << >>)
      /\ UNCHANGED << job, known >> /\ \A p \in Triagers : job[p] = Idle
  BY DEF NewRun
<1>2. /\ report'.findings.of = list /\ report'.ledger.of = NoLedger /\ report'.imported.is = "missing"
      /\ FilesFit'
  BY <1>1 DEF Whole, Missing, FilesFit, IsFile
<1>3. KnownFit'
  BY <1>1, <1>2, EmptyFits DEF TriageInv, KnownFit
<1>4. ReportsFit'
  BY <1>2, GivenListsFit, EmptyFits DEF ReportsFit
<1>5. JobsFit'
  BY <1>1 DEF TriageInv, JobsFit, JobFits
<1> QED BY <1>2, <1>3, <1>4, <1>5 DEF TriageInv

LEMMA NoveltyKeeps ==
  ASSUME TriageInv, NEW p \in Triagers, Novelty(p)
  PROVE  TriageInv'
<1>0. JobFits(job[p], known, Present) /\ \A k \in known : EntryFits(k, known)
  BY DEF TriageInv, JobsFit, KnownFit
<1>1. ASSUME NEW risks, NEW given \in BOOLEAN, BeginNovelty(p, risks, given) PROVE TriageInv'
  <2> DEFINE j == [at |-> "read", risks |-> risks,
                   prior |-> IF given THEN "archive"
                             ELSE IF report.ledger.is # "missing" THEN "ledger" ELSE "none"]
  <2>1. job' = [job EXCEPT ![p] = j] /\ UNCHANGED << report, archive, gone, known >>
    BY <1>1 DEF BeginNovelty, Starts
  <2>2. JobFits(j, known, Present)
    BY DEF JobFits
  <2> HIDE DEF j
  <2> QED BY <2>1, <2>2, ReadingKeeps
<1>2. CASE ReadFindings(p)
  <2> DEFINE j == [at |-> "classify", risks |-> job[p].risks, prior |-> job[p].prior,
                   findings |-> report.findings.of]
  <2>1. job' = [job EXCEPT ![p] = j] /\ UNCHANGED << report, archive, gone, known >>
    BY <1>2 DEF ReadFindings, Becomes
  <2>2. job[p].prior \in {"archive", "ledger", "none"}
    BY <1>0, <1>2 DEF ReadFindings, JobFits, Idle
  <2>3. ListFits(report.findings.of) /\ Pairs(report.findings.of) \subseteq Present
    BY DEF TriageInv, ReportsFit, Present
  <2>4. JobFits(j, known, Present)
    BY <2>2, <2>3 DEF JobFits
  <2> HIDE DEF j
  <2> QED BY <2>1, <2>4, ReadingKeeps
<1>3. CASE ClassifyFindings(p)
  <2> DEFINE list == job[p].findings
             l == BuildLedger(list, Priors(job[p].prior), job[p].risks)
             j == [at |-> "classified", ledger |-> l]
  <2>1. job' = [job EXCEPT ![p] = j] /\ UNCHANGED << report, archive, gone, known >>
    BY <1>3 DEF ClassifyFindings, Becomes
  <2>2. /\ job[p].prior \in {"archive", "ledger", "none"} /\ ListFits(list)
        /\ Pairs(list) \subseteq Present
    BY <1>0, <1>3 DEF ClassifyFindings, JobFits, Idle
  <2>3. Range(Priors(job[p].prior)) \subseteq known
    BY <2>2, EmptyFits DEF TriageInv, KnownFit, Priors
  <2>4. LedgerFits(l, known, Pairs(list))
    <3> DEFINE K == known priors == Priors(job[p].prior) ids == job[p].risks f == list
    <3>1. (\A k \in K : EntryFits(k, K)) /\ Range(priors) \subseteq K /\ ListFits(f)
      BY <1>0, <2>2, <2>3
    <3> HIDE DEF K, priors, ids, f
    <3>2. LedgerFits(BuildLedger(f, priors, ids), K, Pairs(f))
      BY <3>1, LedgerOfList
    <3> QED BY <3>2 DEF K, priors, ids, f
  <2> HIDE DEF l, list
  <2>5. LedgerFits(l, known, Present)
    <3> DEFINE K == known P == Pairs(list) Q == Present
    <3>1. LedgerFits(l, K, P) /\ P \subseteq Q /\ K \subseteq K
      BY <2>2, <2>4
    <3> HIDE DEF K, P, Q
    <3>2. LedgerFits(l, K, Q)
      BY <3>1, LedgerFitsMore
    <3> QED BY <3>2 DEF K, Q
  <2>6. JobFits(j, known, Present)
    BY <2>5 DEF JobFits
  <2> HIDE DEF j
  <2> QED BY <2>1, <2>6, ReadingKeeps
<1>4. CASE OpenLedger(p)
  <2> DEFINE j == [job[p] EXCEPT !.at = "ledgerOpen"]
  <2>1. /\ job' = [job EXCEPT ![p] = j] /\ UNCHANGED << archive, gone, known >>
        /\ report' = [report EXCEPT !["ledger"].is = "torn"]
    BY <1>4 DEF OpenLedger, Open, Becomes
  <2>2. job[p] = [at |-> "classified", ledger |-> job[p].ledger] /\ LedgerFits(job[p].ledger, known, Present)
    BY <1>0, <1>4 DEF OpenLedger, Open, JobFits, Idle
  <2>3. j = [at |-> "ledgerOpen", ledger |-> job[p].ledger]
    BY <2>2
  <2>4. JobFits(j, known, Present)
    BY <2>2, <2>3 DEF JobFits
  <2> HIDE DEF j
  <2> QED BY <2>1, <2>4, OpeningKeeps
<1>5. CASE StoreLedger(p)
  BY <1>5, StoredLedgerFits
<1> QED BY <1>1, <1>2, <1>3, <1>4, <1>5 DEF Novelty

LEMMA ImportKeeps ==
  ASSUME TriageInv, NEW p \in Triagers, Import(p)
  PROVE  TriageInv'
<1>0. JobFits(job[p], known, Present)
  BY DEF TriageInv, JobsFit
<1>1. ASSUME NEW payload \in Payloads, NEW append \in BOOLEAN, BeginImport(p, payload, append)
      PROVE  TriageInv'
  <2>1. CASE append
    <3> DEFINE j == [at |-> "load", payload |-> payload]
    <3>1. job' = [job EXCEPT ![p] = j] /\ UNCHANGED << report, archive, gone, known >>
      BY <1>1, <2>1 DEF BeginImport, Starts
    <3>2. JobFits(j, known, Present)
      BY DEF JobFits
    <3> HIDE DEF j
    <3> QED BY <3>1, <3>2, ReadingKeeps
  <2>2. CASE ~append
    <3> DEFINE imp == BuildImport(payload, FALSE, {})
               j == [at |-> "imported", import |-> imp]
    <3>1. job' = [job EXCEPT ![p] = j] /\ UNCHANGED << report, archive, gone, known >>
      BY <1>1, <2>2 DEF BeginImport, Starts
    <3>2. ImportFits(imp) /\ \A i \in DOMAIN imp.items : imp.items[i].status # "appended"
      <4>1. imp = BuildImport(payload, append, {})
        BY <2>2
      <4> HIDE DEF imp
      <4>2. ImportFits(imp) /\ ItemsFit(imp.items, append, {})
        BY <4>1, ImportOfPayload
      <4> QED BY <2>2, <4>2 DEF ItemsFit
    <3> HIDE DEF imp
    <3>3. JobFits(j, known, Present)
      BY <3>2 DEF JobFits, AppendedIn
    <3> HIDE DEF j
    <3> QED BY <3>1, <3>3, ReadingKeeps
  <2> QED BY <2>1, <2>2
<1>2. CASE LoadFindings(p)
  <2> DEFINE list == report.findings.of
             imp == BuildImport(job[p].payload, TRUE, {f.fp : f \in Range(list)})
             j == [at |-> "loaded", import |-> imp, findings |-> list \o Appended(imp)]
  <2>1. job' = [job EXCEPT ![p] = j] /\ UNCHANGED << report, archive, gone, known >>
    BY <1>2 DEF LoadFindings, Becomes
  <2>2. job[p].payload \in Payloads /\ ListFits(list)
    BY <1>0, <1>2 DEF LoadFindings, JobFits, Idle, TriageInv, ReportsFit
  <2>3. ImportFits(imp)
    <3> DEFINE ex == {f.fp : f \in Range(list)}
               pay == job[p].payload
    <3>1. PICK app \in BOOLEAN : app = TRUE
      OBVIOUS
    <3>2. imp = BuildImport(pay, app, ex) /\ pay \in Payloads
      BY <2>2, <3>1
    <3> HIDE DEF ex, imp, pay
    <3> QED BY <3>2, ImportOfPayload
  <2>4. ListFits(list \o Appended(imp)) /\ AppendedIn(imp, FpsOf(list \o Appended(imp)))
    <3> DEFINE pay == job[p].payload
    <3>1. imp = BuildImport(pay, TRUE, {f.fp : f \in Range(list)}) /\ pay \in Payloads /\ ListFits(list)
      BY <2>2
    <3> HIDE DEF list, imp, pay
    <3> QED BY <3>1, AppendedFits
  <2> HIDE DEF list, imp
  <2>5. JobFits(j, known, Present)
    BY <2>3, <2>4 DEF JobFits
  <2> HIDE DEF j
  <2> QED BY <2>1, <2>5, ReadingKeeps
<1>3. CASE OpenFindings(p)
  <2> DEFINE j == [job[p] EXCEPT !.at = "findingsOpen"]
  <2>1. /\ job' = [job EXCEPT ![p] = j] /\ UNCHANGED << archive, gone, known >>
        /\ report' = [report EXCEPT !["findings"].is = "torn"]
    BY <1>3 DEF OpenFindings, Open, Becomes
  <2>2. /\ job[p] = [at |-> "loaded", import |-> job[p].import, findings |-> job[p].findings]
        /\ ListFits(job[p].findings) /\ ImportFits(job[p].import)
        /\ AppendedIn(job[p].import, FpsOf(job[p].findings))
    BY <1>0, <1>3 DEF OpenFindings, Open, JobFits, Idle
  <2>3. j = [at |-> "findingsOpen", import |-> job[p].import, findings |-> job[p].findings]
    BY <2>2
  <2>4. JobFits(j, known, Present)
    BY <2>2, <2>3 DEF JobFits
  <2> HIDE DEF j
  <2> QED BY <2>1, <2>4, OpeningKeeps
<1>4. CASE StoreFindings(p)
  BY <1>4, StoredFindingsFit
<1>5. CASE OpenImported(p)
  <2> DEFINE j == [job[p] EXCEPT !.at = "importedOpen"]
  <2>1. /\ job' = [job EXCEPT ![p] = j] /\ UNCHANGED << archive, gone, known >>
        /\ report' = [report EXCEPT !["imported"].is = "torn"]
    BY <1>5 DEF OpenImported, Open, Becomes
  <2>2. /\ job[p] = [at |-> "imported", import |-> job[p].import]
        /\ ImportFits(job[p].import) /\ AppendedIn(job[p].import, FpsPresent(Present))
    BY <1>0, <1>5 DEF OpenImported, Open, JobFits, Idle
  <2>3. j = [at |-> "importedOpen", import |-> job[p].import]
    BY <2>2
  <2>4. JobFits(j, known, Present)
    BY <2>2, <2>3 DEF JobFits
  <2> HIDE DEF j
  <2> QED BY <2>1, <2>4, OpeningKeeps
<1>6. CASE StoreImported(p)
  BY <1>6, StoredImportFits
<1> QED BY <1>1, <1>2, <1>3, <1>4, <1>5, <1>6 DEF Import

LEMMA DeathKeeps ==
  ASSUME TriageInv, NEW p \in Triagers, Dies(p)
  PROVE  TriageInv'
<1>1. job' = [job EXCEPT ![p] = Idle] /\ UNCHANGED << report, archive, gone, known >>
  BY DEF Dies, Becomes
<1>2. JobFits(Idle, known, Present)
  BY DEF JobFits
<1> QED BY <1>1, <1>2, ReadingKeeps

LEMMA TriageStepKeeps ==
  ASSUME TriageInv, [TriageStep]_triageVars
  PROVE  TriageInv'
<1>1. CASE UNCHANGED triageVars
  <2>1. Present' = Present
    BY <1>1 DEF triageVars, Present
  <2> QED BY <1>1, <2>1 DEF triageVars, TriageInv, FilesFit, KnownFit, ReportsFit, JobsFit
<1>2. CASE TriageStep
  BY <1>2, NoveltyKeeps, ImportKeeps, DeathKeeps, EditKeeps, NewRunKeeps DEF TriageStep
<1> QED BY <1>1, <1>2

LEMMA TriageInitFits == TriageInit => TriageInv
<1> SUFFICES ASSUME TriageInit PROVE TriageInv
  OBVIOUS
<1>1. /\ report \in [findings : {Missing(<< >>)} \cup {Whole(list) : list \in FindingLists},
                     ledger : {Missing(NoLedger)}, imported : {Missing(NoImport)}]
      /\ archive = << >> /\ job = [p \in Triagers |-> Idle] /\ gone = {} /\ known = {}
  BY DEF TriageInit
<1>2. /\ report.findings = Missing(<< >>) \/ \E list \in FindingLists : report.findings = Whole(list)
      /\ report.ledger = Missing(NoLedger) /\ report.imported = Missing(NoImport)
      /\ report = [findings |-> report.findings, ledger |-> report.ledger, imported |-> report.imported]
  BY <1>1
<1>3. FilesFit /\ ListFits(report.findings.of)
  BY <1>2, GivenListsFit, EmptyFits DEF FilesFit, IsFile, Missing, Whole
<1>4. report.ledger.of = NoLedger /\ report.imported.is = "missing"
  BY <1>2 DEF Missing
<1>5. KnownFit /\ ReportsFit
  BY <1>1, <1>3, <1>4, EmptyFits DEF KnownFit, ReportsFit
<1>6. JobsFit
  BY <1>1 DEF JobsFit, JobFits
<1> QED BY <1>3, <1>5, <1>6 DEF TriageInv

LEMMA TriageInductive == TriageSpec => []TriageInv
<1>1. TriageInv /\ [TriageStep]_triageVars => TriageInv'
  BY TriageStepKeeps
<1> QED BY <1>1, TriageInitFits, PTL DEF TriageSpec

-------------------------------------------------------------------------------
(* While every findings.json of the run has named its findings apart, so does   *)
(* all that was read from one or made of it.                                    *)

JobNamesOnce(j) ==
  /\ j.at \in {"classify", "loaded", "findingsOpen"} => NamesOnce(j.findings)
  /\ j.at \in {"classified", "ledgerOpen"} => EntriesOnce(j.ledger)

NamedInv ==
  named => /\ NamesOnce(report.findings.of) /\ EntriesOnce(report.ledger.of)
           /\ \A p \in Triagers : JobNamesOnce(job[p])

LEMMA IdleNamesOnce == JobNamesOnce(Idle) /\ EntriesOnce(NoLedger)
  BY EmptyFits DEF JobNamesOnce, Idle, EntriesOnce

\* The files hold what they held, but for one that is put there; and one process
\* goes on.
LEMMA NamesKept ==
  ASSUME TriageInv, NamedInv, named' => named, NEW p \in Triagers, NEW j,
         job' = [job EXCEPT ![p] = j],
         named' => NamesOnce(report'.findings.of) /\ EntriesOnce(report'.ledger.of) /\ JobNamesOnce(j)
  PROVE  NamedInv'
<1>1. \A q \in Triagers : job'[q] = IF q = p THEN j ELSE job[q]
  BY DEF TriageInv, JobsFit
<1> QED BY <1>1 DEF NamedInv

LEMMA NamesKeptByReading ==
  ASSUME TriageInv, NamedInv, UNCHANGED << report, named >>, NEW p \in Triagers, NEW j,
         job' = [job EXCEPT ![p] = j], named => JobNamesOnce(j)
  PROVE  NamedInv'
<1>1. named' => NamesOnce(report'.findings.of) /\ EntriesOnce(report'.ledger.of) /\ JobNamesOnce(j)
  BY DEF NamedInv
<1> QED BY <1>1, NamesKept

LEMMA NamesKeptByOpening ==
  ASSUME TriageInv, NamedInv, NEW p \in Triagers, NEW name \in {"findings", "ledger", "imported"},
         NEW from \in {"classified", "loaded", "imported"},
         NEW to \in {"ledgerOpen", "findingsOpen", "importedOpen"},
         Open(p, from, name, to),
         to = "ledgerOpen" => from = "classified", to = "findingsOpen" => from = "loaded"
  PROVE  NamedInv'
<1> DEFINE j == [job[p] EXCEPT !.at = to]
<1>1. /\ job' = [job EXCEPT ![p] = j] /\ job[p].at = from /\ named' = named
      /\ report' = [report EXCEPT ![name].is = "torn"]
  BY DEF Open, Becomes
<1>2. report'.findings.of = report.findings.of /\ report'.ledger.of = report.ledger.of
  BY <1>1, OpeningFacts DEF TriageInv
<1>3. JobFits(job[p], known, Present)
  BY DEF TriageInv, JobsFit
<1>4. CASE from = "classified"
  <2>1. job[p] = [at |-> from, ledger |-> job[p].ledger]
    BY <1>1, <1>3, <1>4 DEF JobFits, Idle
  <2>2. j.at = to /\ j.ledger = job[p].ledger
    BY <2>1
  <2>3. named' => JobNamesOnce(j)
    BY <1>1, <1>4, <2>2 DEF NamedInv, JobNamesOnce
  <2> HIDE DEF j
  <2> QED BY <1>1, <1>2, <2>3, NamesKept DEF NamedInv
<1>5. CASE from = "loaded"
  <2>1. job[p] = [at |-> from, import |-> job[p].import, findings |-> job[p].findings]
    BY <1>1, <1>3, <1>5 DEF JobFits, Idle
  <2>2. j.at = to /\ j.findings = job[p].findings
    BY <2>1
  <2>3. named' => JobNamesOnce(j)
    BY <1>1, <1>5, <2>2 DEF NamedInv, JobNamesOnce
  <2> HIDE DEF j
  <2> QED BY <1>1, <1>2, <2>3, NamesKept DEF NamedInv
<1>6. CASE from = "imported"
  <2>1. job[p] = [at |-> from, import |-> job[p].import]
    BY <1>1, <1>3, <1>6 DEF JobFits, Idle
  <2>2. j.at = to
    BY <2>1
  <2>3. named' => JobNamesOnce(j)
    BY <1>6, <2>2 DEF JobNamesOnce
  <2> HIDE DEF j
  <2> QED BY <1>1, <1>2, <2>3, NamesKept DEF NamedInv
<1> QED BY <1>4, <1>5, <1>6

LEMMA NamesKeptByNovelty ==
  ASSUME TriageInv, NamedInv, NEW p \in Triagers, Novelty(p)
  PROVE  NamedInv'
<1>1. ASSUME NEW risks, NEW given \in BOOLEAN, BeginNovelty(p, risks, given) PROVE NamedInv'
  <2> DEFINE j == [at |-> "read", risks |-> risks,
                   prior |-> IF given THEN "archive"
                             ELSE IF report.ledger.is # "missing" THEN "ledger" ELSE "none"]
  <2>1. job' = [job EXCEPT ![p] = j] /\ UNCHANGED << report, named >>
    BY <1>1 DEF BeginNovelty, Starts
  <2>2. JobNamesOnce(j)
    BY DEF JobNamesOnce
  <2> HIDE DEF j
  <2> QED BY <2>1, <2>2, NamesKeptByReading
<1>2. CASE ReadFindings(p)
  <2> DEFINE j == [at |-> "classify", risks |-> job[p].risks, prior |-> job[p].prior,
                   findings |-> report.findings.of]
  <2>1. job' = [job EXCEPT ![p] = j] /\ UNCHANGED << report, named >>
    BY <1>2 DEF ReadFindings, Becomes
  <2>2. named => JobNamesOnce(j)
    BY DEF NamedInv, JobNamesOnce
  <2> HIDE DEF j
  <2> QED BY <2>1, <2>2, NamesKeptByReading
<1>3. CASE ClassifyFindings(p)
  <2> DEFINE list == job[p].findings
             l == BuildLedger(list, Priors(job[p].prior), job[p].risks)
             j == [at |-> "classified", ledger |-> l]
  <2>1. job' = [job EXCEPT ![p] = j] /\ UNCHANGED << report, named >>
    BY <1>3 DEF ClassifyFindings, Becomes
  <2>2. JobFits(job[p], known, Present) /\ \A k \in known : EntryFits(k, known)
    BY DEF TriageInv, JobsFit, KnownFit
  <2>3. job[p].prior \in {"archive", "ledger", "none"} /\ ListFits(list)
    BY <1>3, <2>2 DEF ClassifyFindings, JobFits, Idle
  <2>4. Range(Priors(job[p].prior)) \subseteq known
    BY <2>3, EmptyFits DEF TriageInv, KnownFit, Priors
  <2>5. named => NamesOnce(list)
    BY <1>3 DEF NamedInv, JobNamesOnce, ClassifyFindings
  <2>6. NamesOnce(list) => EntriesOnce(l)
    <3> DEFINE K == known priors == Priors(job[p].prior) ids == job[p].risks f == list
    <3>1. (\A k \in K : EntryFits(k, K)) /\ Range(priors) \subseteq K /\ ListFits(f)
      BY <2>2, <2>3, <2>4
    <3> HIDE DEF K, priors, ids, f
    <3>2. NamesOnce(f) => EntriesOnce(BuildLedger(f, priors, ids))
      BY <3>1, LedgerOfList
    <3> QED BY <3>2 DEF priors, ids, f
  <2> HIDE DEF l, list
  <2>7. named => JobNamesOnce(j)
    BY <2>5, <2>6 DEF JobNamesOnce
  <2> HIDE DEF j
  <2> QED BY <2>1, <2>7, NamesKeptByReading
<1>4. CASE OpenLedger(p)
  BY <1>4, NamesKeptByOpening DEF OpenLedger
<1>5. CASE StoreLedger(p)
  <2> DEFINE l == job[p].ledger
  <2>1. /\ job' = [job EXCEPT ![p] = Idle] /\ named' = named /\ Put("ledger", l)
        /\ job[p].at = "ledgerOpen"
    BY <1>5 DEF StoreLedger, Becomes
  <2>2. report'.findings = report.findings /\ report'.ledger = Whole(l)
    BY <2>1, PutFacts DEF TriageInv
  <2>3. named => EntriesOnce(l)
    BY <2>1 DEF NamedInv, JobNamesOnce
  <2>4. report'.ledger.of = l
    BY <2>2 DEF Whole
  <2> HIDE DEF l
  <2> QED BY <2>1, <2>2, <2>3, <2>4, NamesKept, IdleNamesOnce DEF NamedInv
<1> QED BY <1>1, <1>2, <1>3, <1>4, <1>5 DEF Novelty

LEMMA NamesKeptByImport ==
  ASSUME TriageInv, NamedInv, NEW p \in Triagers, Import(p)
  PROVE  NamedInv'
<1>1. ASSUME NEW payload \in Payloads, NEW append \in BOOLEAN, BeginImport(p, payload, append)
      PROVE  NamedInv'
  <2> DEFINE j == IF append THEN [at |-> "load", payload |-> payload]
                  ELSE [at |-> "imported", import |-> BuildImport(payload, FALSE, {})]
  <2>1. job' = [job EXCEPT ![p] = j] /\ UNCHANGED << report, named >>
    BY <1>1 DEF BeginImport, Starts
  <2>2. JobNamesOnce(j)
    BY DEF JobNamesOnce
  <2> HIDE DEF j
  <2> QED BY <2>1, <2>2, NamesKeptByReading
<1>2. CASE LoadFindings(p)
  <2> DEFINE list == report.findings.of
             imp == BuildImport(job[p].payload, TRUE, {f.fp : f \in Range(list)})
             j == [at |-> "loaded", import |-> imp, findings |-> list \o Appended(imp)]
  <2>1. job' = [job EXCEPT ![p] = j] /\ UNCHANGED << report, named >>
    BY <1>2 DEF LoadFindings, Becomes
  <2>2. job[p].payload \in Payloads /\ ListFits(list)
    BY <1>2 DEF LoadFindings, JobFits, Idle, TriageInv, JobsFit, ReportsFit
  <2>3. NamesOnce(list) => NamesOnce(list \o Appended(imp))
    <3> DEFINE pay == job[p].payload
    <3>1. imp = BuildImport(pay, TRUE, {f.fp : f \in Range(list)}) /\ pay \in Payloads /\ ListFits(list)
      BY <2>2
    <3> HIDE DEF list, imp, pay
    <3> QED BY <3>1, AppendedFits
  <2>4. named => NamesOnce(list)
    BY DEF NamedInv
  <2> HIDE DEF list, imp
  <2>5. named => JobNamesOnce(j)
    BY <2>3, <2>4 DEF JobNamesOnce
  <2> HIDE DEF j
  <2> QED BY <2>1, <2>5, NamesKeptByReading
<1>3. CASE OpenFindings(p)
  BY <1>3, NamesKeptByOpening DEF OpenFindings
<1>4. CASE StoreFindings(p)
  <2> DEFINE list == job[p].findings
             j == [at |-> "imported", import |-> job[p].import]
  <2>1. /\ job' = [job EXCEPT ![p] = j] /\ Put("findings", list)
        /\ named' = (named /\ NamesOnce(list))
    BY <1>4 DEF StoreFindings, Becomes, PutFindings
  <2>2. report'.findings = Whole(list) /\ report'.ledger = report.ledger
    BY <2>1, PutFacts DEF TriageInv
  <2>3. report'.findings.of = list /\ JobNamesOnce(j)
    BY <2>2 DEF Whole, JobNamesOnce
  <2> HIDE DEF j, list
  <2> QED BY <2>1, <2>2, <2>3, NamesKept DEF NamedInv
<1>5. CASE OpenImported(p)
  BY <1>5, NamesKeptByOpening DEF OpenImported
<1>6. CASE StoreImported(p)
  <2>1. /\ job' = [job EXCEPT ![p] = Idle] /\ named' = named /\ Put("imported", job[p].import)
    BY <1>6 DEF StoreImported, Becomes
  <2>2. report'.findings = report.findings /\ report'.ledger = report.ledger
    BY <2>1, PutFacts DEF TriageInv
  <2> QED BY <2>1, <2>2, NamesKept, IdleNamesOnce DEF NamedInv
<1> QED BY <1>1, <1>2, <1>3, <1>4, <1>5, <1>6 DEF Import

LEMMA NamesKeptByEditors ==
  ASSUME TriageInv, NamedInv, NEW list \in FindingLists, EditFindings(list) \/ NewRun(list)
  PROVE  NamedInv'
<1>1. CASE EditFindings(list)
  <2>1. /\ job' = job /\ named' = (named /\ NamesOnce(list)) /\ Put("findings", list)
    BY <1>1 DEF EditFindings, PutFindings
  <2>2. report'.findings = Whole(list) /\ report'.ledger = report.ledger
    BY <2>1, PutFacts DEF TriageInv
  <2>3. report'.findings.of = list
    BY <2>2 DEF Whole
  <2> QED BY <2>1, <2>2, <2>3 DEF NamedInv
<1>2. CASE NewRun(list)
  <2>1. /\ report' = [findings |-> Whole(list), ledger |-> Missing(NoLedger), imported |-> Missing(NoImport)]
        /\ job' = job /\ named' = NamesOnce(list) /\ \A p \in Triagers : job[p] = Idle
    BY <1>2 DEF NewRun
  <2>2. report'.findings.of = list /\ report'.ledger.of = NoLedger
    BY <2>1 DEF Whole, Missing
  <2> QED BY <2>1, <2>2, IdleNamesOnce DEF NamedInv
<1> QED BY <1>1, <1>2

LEMMA NamesKeptByDying ==
  ASSUME TriageInv, NamedInv, NEW p \in Triagers, Dies(p)
  PROVE  NamedInv'
<1>1. job' = [job EXCEPT ![p] = Idle] /\ UNCHANGED << report, named >>
  BY DEF Dies, Becomes
<1> QED BY <1>1, IdleNamesOnce, NamesKeptByReading

LEMMA NamedInductive == TriageSpec => [](TriageInv /\ NamedInv)
<1>1. TriageInit => NamedInv
  <2> SUFFICES ASSUME TriageInit PROVE NamedInv
    OBVIOUS
  <2>1. report.ledger = Missing(NoLedger) /\ named = NamesOnce(report.findings.of)
        /\ \A p \in Triagers : job[p] = Idle
    BY DEF TriageInit
  <2>2. report.ledger.of = NoLedger
    BY <2>1 DEF Missing
  <2> QED BY <2>1, <2>2, IdleNamesOnce DEF NamedInv
<1>2. TriageInv /\ NamedInv /\ [TriageStep]_triageVars => NamedInv'
  <2>1. CASE TriageStep
    BY <2>1, NamesKeptByNovelty, NamesKeptByImport, NamesKeptByEditors, NamesKeptByDying
       DEF TriageStep
  <2>2. CASE UNCHANGED triageVars
    BY <2>2 DEF triageVars, NamedInv
  <2> QED BY <2>1, <2>2
<1>3. TriageInv /\ NamedInv /\ [TriageStep]_triageVars => TriageInv' /\ NamedInv'
  BY <1>2, TriageStepKeeps
<1> QED BY <1>1, <1>3, TriageInitFits, PTL DEF TriageSpec

\* Whatever gra-import-findings, gra-novelty, audit stages and operators do to the
\* files of a run side by side and wherever one of them dies, the validator
\* accepts every file that is whole, as long as no findings.json of the run named
\* two findings alike; and refuses a ledger for nothing but its ids where one did
\* (validators/findings.py:93, validators/advanced.py:1188-1227, 2371-2425).
THEOREM TriageStaysAccepted == TriageSpec => []TriageIsAccepted
<1>1. TriageInv /\ NamedInv => TriageIsAccepted
  <2> SUFFICES ASSUME TriageInv, NamedInv
               PROVE  /\ FindingsAccepted(report.findings.of)
                      /\ LedgerConsistent(report.ledger.of, report.findings.of, gone)
                      /\ named => IdsAccepted(report.ledger.of, report.findings.of, gone)
                      /\ report.imported.is = "whole" =>
                           ImportAccepted(report.imported.of, report.findings.of, gone)
    BY DEF TriageIsAccepted, LedgerAccepted
  <2>1. FindingsAccepted(report.findings.of)
    BY DEF TriageInv, ReportsFit, ListFits, FindingsAccepted
  <2>2. LedgerConsistent(report.ledger.of, report.findings.of, gone)
    BY DEF TriageInv, ReportsFit, LedgerFits, LedgerConsistent, EntryFits, EntryWellFormed, Present
  <2>3. named => IdsAccepted(report.ledger.of, report.findings.of, gone)
    <3> SUFFICES ASSUME named PROVE IdsAccepted(report.ledger.of, report.findings.of, gone)
      OBVIOUS
    <3> DEFINE list == report.findings.of
    <3>1. NamesOnce(list) /\ EntriesOnce(report.ledger.of) /\ DOMAIN list \in SUBSET Nat
      BY DEF NamedInv, TriageInv, ReportsFit, ListFits
    <3>2. \A i \in DOMAIN list : << list[i].id, list[i].fp >> \in ById(list)
      <4> SUFFICES ASSUME NEW i \in DOMAIN list
                   PROVE  \A h \in DOMAIN list : list[h].id = list[i].id => h <= i
        BY DEF ById
      <4> HIDE DEF list
      <4> QED BY <3>1 DEF NamesOnce, UniqueIn
    <3>3. Pairs(list) \subseteq ById(list)
      <4> HIDE DEF list
      <4> QED BY <3>2 DEF Pairs, Range
    <3>4. \A e \in Range(report.ledger.of.entries) : << e.id, e.fp >> \in Pairs(list) \cup gone
      BY DEF TriageInv, ReportsFit, LedgerFits, Present
    <3> HIDE DEF list
    <3>5. \A e \in Range(report.ledger.of.entries) : << e.id, e.fp >> \in ById(list) \cup gone
      BY <3>3, <3>4
    <3> QED BY <3>1, <3>5 DEF IdsAccepted, EntriesOnce, list
  <2>4. report.imported.is = "whole" => ImportAccepted(report.imported.of, report.findings.of, gone)
    BY DEF TriageInv, ReportsFit, ImportFits, AppendedIn, FpsPresent, Present, ImportAccepted
  <2> QED BY <2>1, <2>2, <2>3, <2>4
<1> QED BY <1>1, NamedInductive, PTL

\* A finding the ledger keeps from publication is kept for a reason, through any
\* number of runs: as it was classified it is no worse than a risk an operator
\* accepted, or it is a duplicate of something that was not withheld
\* (novelty_ledger.py:208-255).  Nothing is asked of its severity when it was
\* rewritten under its fingerprint since (policy.py:431-433).
THEOREM AlwaysWithheldForAReason == TriageSpec => []WithheldForAReason
<1>1. TriageInv => WithheldForAReason
  <2> SUFFICES ASSUME TriageInv, NEW f \in Range(report.findings.of),
                      ~Selected(f, Floor, report.ledger.of.entries), Eligible(f, Floor),
                      NEW e \in Matching(f, report.ledger.of.entries)
               PROVE  \/ /\ e.novelty = "accepted-risk"
                         /\ Reworked(f, e) \/ \E k \in Granted : NoWorse(EntryBase(f), k)
                      \/ e.novelty = "duplicate" /\ e.match \in Traced
    BY DEF WithheldForAReason
  <2> DEFINE es == report.ledger.of.entries
             last == {i \in DOMAIN es : es[i].id = f.id /\ \A h \in DOMAIN es : es[h].id = f.id => h <= i}
  <2>1. PICK d \in Matching(f, es) : d.novelty \in Suppressing
    BY DEF Selected
  <2>2. d = e /\ e \in Range(es)
    <3>1. DOMAIN es \in SUBSET Nat
      BY DEF TriageInv, ReportsFit, LedgerFits
    <3> HIDE DEF es
    <3>2. ASSUME NEW x \in Matching(f, es) PROVE \E i \in last : x = es[i]
      BY DEF Matching
    <3>3. \A i, j \in last : i = j
      BY <3>1
    <3>4. \E i \in last : d = es[i] /\ e = es[i]
      BY <3>2, <3>3 DEF es
    <3> QED BY <3>4 DEF Range
  <2>3. EntryFits(e, known) /\ e \in known
    BY <2>2 DEF TriageInv, KnownFit
  <2>4. e.novelty = "accepted-risk" => \E k \in GrantedIn(known) : NoWorse(e, k)
    <3>1. e.match = NoMatch /\ e.novelty = "accepted-risk" => e \in GrantedIn(known) /\ NoWorse(e, e)
      BY <2>3 DEF GrantedIn, NoWorse, EntryFits, EntryWellFormed
    <3> QED BY <2>3, <3>1 DEF EntryFits, Reasoned
  <2>5. e.novelty \in {"accepted-risk", "duplicate"}
    BY <2>1, <2>2, <2>3 DEF EntryFits, EntryWellFormed, Suppressing
  <2>6. ASSUME ~Reworked(f, e), NEW k, NoWorse(e, k) PROVE NoWorse(EntryBase(f), k)
    <3>1. /\ EntryBase(f).hashes = e.hashes
          /\ \A s \in Assessed : EntryBase(f).strength[s] = e.strength[s]
      BY <2>6 DEF Reworked, EntryBase
    <3> QED BY <2>6, <3>1 DEF NoWorse
  <2>7. e.novelty = "accepted-risk" =>
          Reworked(f, e) \/ \E k \in Granted : NoWorse(EntryBase(f), k)
    BY <2>4, <2>6 DEF Granted, GrantedIn
  <2> QED BY <2>3, <2>5, <2>7, KnownTraced DEF EntryFits, Reasoned
<1> QED BY <1>1, TriageInductive, PTL
================================================================================
