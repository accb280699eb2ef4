-------------------------- MODULE CommandEventsProofs --------------------------
(***************************************************************************)
(* Proofs about CommandEvents, for any command processes, any stderr texts  *)
(* and any bounds of the readers and of the failure history.                *)
(***************************************************************************)
EXTENDS CommandEvents, FiniteSetTheorems, SequenceTheorems, WellFoundedInduction, TLAPS

-----------------------------------------------------------------------------
(* The inductive invariant. *)

HeadOf(p) == [id |-> p, part |-> "head"]
TailOf(p) == [id |-> p, part |-> "tail"]

\* A record of p's in one piece.
InOnePiece(log, p) ==
  \E i \in 1..(Len(log) - 1) : log[i] = HeadOf(p) /\ log[i + 1] = TailOf(p)

\* Whole lines, and the first half of one of p's.
WholeButLast(log, p) ==
  /\ Len(log) % 2 = 1
  /\ \A i \in 1..(Len(log) \div 2) :
       /\ log[2 * i - 1].part = "head"
       /\ log[2 * i].part = "tail"
       /\ log[2 * i].id = log[2 * i - 1].id
  /\ log[Len(log)] = HeadOf(p)

After == {"unlock_append"} \cup Ended

\* Who is past the lock made the lock directory.
LockInv == \A p \in Procs : pc[p] \in Inside => lock = p

\* What the log has of a process.
LineOf(p) ==
  /\ HasHead(p) => pc[p] \in {"half"} \cup After
  /\ p \in Recorded(file.log) => pc[p] \in After
  /\ pc[p] = "half" => file.log # << >> /\ file.log[Len(file.log)] = HeadOf(p)
  /\ written[p] => pc[p] \in After /\ InOnePiece(file.log, p)
  /\ pc[p] = "checked" /\ ~existed[p] => file.log = << >>
  /\ pc[p] = "done" /\ exit[p] = 0 => written[p]
  /\ error[p] # NoError => exit[p] # 0

LineInv == \A p \in Procs : LineOf(p)

\* The log as a whole: only torn lines make it unreadable.
WholeInv ==
  /\ (\A p \in Procs : ~Torn(p)) => WholeLines(file.log)
  /\ \A p \in Procs : pc[p] = "half" /\ (\A q \in Procs \ {p} : ~Torn(q)) =>
       WholeButLast(file.log, p)

HistoryType(h) ==
  /\ DOMAIN h = {"count", "retryable", "resume", "byClass", "last", "recovered"}
  /\ h.byClass \in [Classes -> Nat]

\* The executor's attempt.
AttemptInv ==
  /\ xpc # "idle" => current \in Attempts /\ stage.status = "running"
  /\ xpc = "ready" => pc[current] = "idle"
  /\ stage.status = "failed" => current \in Attempts /\ pc[current] \in Ended
  /\ current \notin snapshot.ids
  /\ \A p \in Attempts : kind[p].same
  /\ stage.status # "failed" => stage.provider = NoError
  /\ HistoryType(stage.history)

LogInv == TypeOK /\ LockInv /\ LineInv
IInv == LogInv /\ WholeInv /\ AttemptInv /\ AttributionIsSound /\ HistoryIsConsistent

-----------------------------------------------------------------------------
(* The classifier and the history. *)

LEMMA LeastNatural ==
  ASSUME NEW S \in SUBSET Nat, S # {}
  PROVE  \E m \in S : \A n \in S : m <= n
<1> DEFINE less == {ss \in Nat \X Nat : ss[1] < ss[2]}
<1>1. IsWellFoundedOn(less, Nat)
  BY NatLessThanWellFounded DEF OpToRel
<1>2. PICK m \in S : \A n \in S : << n, m >> \notin less
  BY <1>1, WFMin
<1>3. ASSUME NEW n \in S, ~ (m <= n) PROVE FALSE
  <2>1. << n, m >> \in Nat \X Nat /\ n < m
    BY <1>3
  <2> QED BY <1>2, <2>1
<1> QED BY <1>3

LEMMA ClassOrderFacts ==
  /\ Len(ClassOrder) = 9
  /\ \A i \in 1..9 : ClassOrder[i] \in Classes
  /\ "unknown_provider_error" \in Classes
  /\ \A c \in Classes : c = "unknown_provider_error" \/ \E i \in 1..9 : c = ClassOrder[i]
  /\ \A i, j \in 1..9 : ClassOrder[i] = ClassOrder[j] => i = j
  /\ \A i \in 1..9 : ClassOrder[i] # "unknown_provider_error" /\ ClassOrder[i] # "none"
<1>1. Len(ClassOrder) = 9 /\ DOMAIN ClassOrder = 1..9
  BY DEF ClassOrder
<1>2. /\ ClassOrder[1] = "rate_limit" /\ ClassOrder[2] = "usage_limit"
      /\ ClassOrder[3] = "authentication" /\ ClassOrder[4] = "authorization"
      /\ ClassOrder[5] = "model_unavailable" /\ ClassOrder[6] = "service_unavailable"
      /\ ClassOrder[7] = "timeout" /\ ClassOrder[8] = "invalid_request"
      /\ ClassOrder[9] = "response_contract"
  BY DEF ClassOrder
<1>3. \A i \in 1..9 : i \in {1, 2, 3, 4, 5, 6, 7, 8, 9}
  OBVIOUS
<1> QED BY <1>1, <1>2, <1>3 DEF Classes

\* Whatever a worker leaves in its stderr, its event gets an error the
\* validators accept, or none.
LEMMA ClassifyIsValid ==
  ASSUME NEW t
  PROVE  ErrorIsValid(Classify(t))
<1>1. ClassOf(t) \in Classes
  <2> DEFINE hits == {i \in DOMAIN ClassOrder : ClassOrder[i] \in t.matches}
  <2>1. hits \subseteq 1..9
    BY DEF ClassOrder
  <2>2. ASSUME hits # {} PROVE Min(hits) \in hits
    <3> HIDE DEF hits
    <3>1. \E i \in hits : \A j \in hits : i <= j
      BY <2>1, <2>2, LeastNatural
    <3> QED BY <3>1 DEF Min
  <2> QED BY <2>1, <2>2, ClassOrderFacts DEF ClassOf
<1>2. Delay(t) = NoDelay \/ Delay(t) \in 1..MaxDelay
  BY DEF Delay
<1> QED BY <1>1, <1>2 DEF Classify, ErrorIsValid, ValidError

\* The sum over the classes, written out.
LEMMA TotalIsSum ==
  ASSUME NEW c \in [Classes -> Nat]
  PROVE  Total(c) = c[ClassOrder[1]] + c[ClassOrder[2]] + c[ClassOrder[3]] + c[ClassOrder[4]]
                    + c[ClassOrder[5]] + c[ClassOrder[6]] + c[ClassOrder[7]] + c[ClassOrder[8]]
                    + c[ClassOrder[9]] + c["unknown_provider_error"]
<1> DEFINE v == [i \in 1..9 |-> c[ClassOrder[i]]]
           s3 == v[1] + v[2] + v[3]
           s6 == s3 + v[4] + v[5] + v[6]
           w == [i \in 0..9 |->
                   CASE i = 0 -> 0 [] i = 1 -> v[1] [] i = 2 -> v[1] + v[2] [] i = 3 -> s3
                     [] i = 4 -> s3 + v[4] [] i = 5 -> s3 + v[4] + v[5] [] i = 6 -> s6
                     [] i = 7 -> s6 + v[7] [] i = 8 -> s6 + v[7] + v[8]
                     [] i = 9 -> s6 + v[7] + v[8] + v[9]]
           Sums(g) == [i \in 0..Len(ClassOrder) |-> IF i = 0 THEN 0 ELSE g[i - 1] + c[ClassOrder[i]]]
           u == CHOOSE g : g = Sums(g)
<1>1. v \in [1..9 -> Nat] /\ \A i \in 1..9 : c[ClassOrder[i]] = v[i]
  BY ClassOrderFacts
<1>2. w = [i \in 0..9 |-> IF i = 0 THEN 0 ELSE w[i - 1] + v[i]]
  <2>1. ASSUME NEW i \in 0..9 PROVE w[i] = IF i = 0 THEN 0 ELSE w[i - 1] + v[i]
    <3>1. i \in {0, 1, 2, 3, 4, 5, 6, 7, 8, 9}
      OBVIOUS
    <3> HIDE DEF v
    <3>2. /\ v[1] \in Nat /\ v[2] \in Nat /\ v[3] \in Nat /\ v[4] \in Nat /\ v[5] \in Nat
          /\ v[6] \in Nat /\ v[7] \in Nat /\ v[8] \in Nat /\ v[9] \in Nat
      BY <1>1
    <3>3. /\ w[0] = 0 /\ w[1] = v[1] /\ w[2] = v[1] + v[2] /\ w[3] = s3 /\ w[4] = s3 + v[4]
          /\ w[5] = s3 + v[4] + v[5] /\ w[6] = s6 /\ w[7] = s6 + v[7] /\ w[8] = s6 + v[7] + v[8]
          /\ w[9] = s6 + v[7] + v[8] + v[9]
      <4> HIDE DEF s3, s6
      <4> QED OBVIOUS
    <3> HIDE DEF w
    <3>4. /\ w[1] = w[0] + v[1] /\ w[2] = w[1] + v[2] /\ w[3] = w[2] + v[3]
      BY <3>2, <3>3
    <3>5. s3 \in Nat
      BY <3>2
    <3>6. /\ w[4] = w[3] + v[4] /\ w[5] = w[4] + v[5] /\ w[6] = w[5] + v[6]
      <4>1. s6 = s3 + v[4] + v[5] + v[6]
        OBVIOUS
      <4> HIDE DEF s3, s6
      <4> QED BY <3>2, <3>3, <3>5, <4>1
    <3>7. /\ w[7] = w[6] + v[7] /\ w[8] = w[7] + v[8] /\ w[9] = w[8] + v[9]
      <4>1. s6 \in Nat
        BY <3>2
      <4> HIDE DEF s3, s6
      <4> QED BY <3>2, <3>3, <4>1
    <3>8. w[0] = 0
      BY <3>3
    <3>9. 1 - 1 = 0 /\ 2 - 1 = 1 /\ 3 - 1 = 2 /\ 4 - 1 = 3 /\ 5 - 1 = 4 /\ 6 - 1 = 5
          /\ 7 - 1 = 6 /\ 8 - 1 = 7 /\ 9 - 1 = 8
      OBVIOUS
    <3> HIDE DEF s3, s6
    <3>10. CASE i \in {0, 1, 2, 3, 4}
      BY <3>4, <3>6, <3>8, <3>9, <3>10
    <3>11. CASE i \in {5, 6, 7, 8, 9}
      BY <3>6, <3>7, <3>9, <3>11
    <3> QED BY <3>1, <3>10, <3>11
  <2>2. w = [i \in 0..9 |-> w[i]]
    <3> HIDE DEF v, s3, s6
    <3> QED OBVIOUS
  <2> HIDE DEF w, v
  <2> QED BY <2>1, <2>2
<1>3. w = Sums(w)
  <2>1. Len(ClassOrder) = 9 /\ \A i \in 0..9 : i # 0 => i \in 1..9
    BY ClassOrderFacts
  <2> HIDE DEF w, v
  <2> QED BY <1>1, <1>2, <2>1
<1>4. u = Sums(u)
  <2> HIDE DEF w, Sums
  <2> QED BY <1>3
<1>5. u = [i \in 0..9 |-> IF i = 0 THEN 0 ELSE u[i - 1] + v[i]]
  <2> HIDE DEF u
  <2> QED BY <1>1, <1>4, ClassOrderFacts
<1>6. Total(c) = u[9] + c["unknown_provider_error"]
  <2>1. Total(c) = u[Len(ClassOrder)] + c["unknown_provider_error"]
    BY DEF Total
  <2> QED BY <2>1, ClassOrderFacts
<1>7. u[9] = v[1] + v[2] + v[3] + v[4] + v[5] + v[6] + v[7] + v[8] + v[9]
  <2> HIDE DEF u, v
  <2>1. u[0] = 0 /\ \A i \in 1..9 : u[i] = u[i - 1] + v[i]
    BY <1>5
  <2> QED BY <1>1, <2>1
<1> HIDE DEF u
<1> QED BY <1>1, <1>6, <1>7

\* What RecordFailure needs of the sum.
LEMMA TotalFacts ==
  ASSUME NEW c \in [Classes -> Nat]
  PROVE  /\ Total(c) \in Nat
         /\ \A k \in Classes : c[k] <= Total(c)
         /\ \A k \in Classes : Total([c EXCEPT ![k] = @ + 1]) = Total(c) + 1
<1> DEFINE Parts(d) == d[ClassOrder[1]] + d[ClassOrder[2]] + d[ClassOrder[3]] + d[ClassOrder[4]]
                       + d[ClassOrder[5]] + d[ClassOrder[6]] + d[ClassOrder[7]] + d[ClassOrder[8]]
                       + d[ClassOrder[9]] + d["unknown_provider_error"]
<1>1. /\ c["unknown_provider_error"] \in Nat
      /\ c[ClassOrder[1]] \in Nat /\ c[ClassOrder[2]] \in Nat /\ c[ClassOrder[3]] \in Nat
      /\ c[ClassOrder[4]] \in Nat /\ c[ClassOrder[5]] \in Nat /\ c[ClassOrder[6]] \in Nat
      /\ c[ClassOrder[7]] \in Nat /\ c[ClassOrder[8]] \in Nat /\ c[ClassOrder[9]] \in Nat
  BY ClassOrderFacts
<1>2. Total(c) = Parts(c)
  BY TotalIsSum
<1>3. Total(c) \in Nat
  BY <1>1, <1>2
<1>4. ASSUME NEW k \in Classes
      PROVE  c[k] <= Total(c) /\ Total([c EXCEPT ![k] = @ + 1]) = Total(c) + 1
  <2> DEFINE d == [c EXCEPT ![k] = @ + 1]
  <2>1. d \in [Classes -> Nat] /\ d[k] = c[k] + 1 /\ \A j \in Classes \ {k} : d[j] = c[j]
    OBVIOUS
  <2>2. Total(d) = Parts(d)
    <3> HIDE DEF d
    <3> QED BY <2>1, TotalIsSum
  <2> HIDE DEF d
  <2>3. ASSUME k = "unknown_provider_error" PROVE c[k] <= Total(c) /\ Total(d) = Total(c) + 1
    <3>1. \A j \in 1..9 : d[ClassOrder[j]] = c[ClassOrder[j]]
      BY <2>1, <2>3, ClassOrderFacts
    <3>2. d["unknown_provider_error"] = c["unknown_provider_error"] + 1
      BY <2>1, <2>3
    <3>3. Parts(d) = Parts(c) + 1
      BY <1>1, <3>1, <3>2
    <3>4. c["unknown_provider_error"] <= Parts(c)
      BY <1>1
    <3> HIDE DEF Parts
    <3> QED BY <1>2, <2>2, <2>3, <3>3, <3>4
  <2>4. ASSUME NEW i \in 1..9, k = ClassOrder[i] PROVE c[k] <= Total(c) /\ Total(d) = Total(c) + 1
    <3>1. d["unknown_provider_error"] = c["unknown_provider_error"]
      BY <2>1, <2>4, ClassOrderFacts
    <3> DEFINE b == [j \in 1..9 |-> IF j = i THEN 1 ELSE 0]
    <3>2. /\ d[ClassOrder[1]] = c[ClassOrder[1]] + b[1] /\ d[ClassOrder[2]] = c[ClassOrder[2]] + b[2]
          /\ d[ClassOrder[3]] = c[ClassOrder[3]] + b[3] /\ d[ClassOrder[4]] = c[ClassOrder[4]] + b[4]
          /\ d[ClassOrder[5]] = c[ClassOrder[5]] + b[5] /\ d[ClassOrder[6]] = c[ClassOrder[6]] + b[6]
          /\ d[ClassOrder[7]] = c[ClassOrder[7]] + b[7] /\ d[ClassOrder[8]] = c[ClassOrder[8]] + b[8]
          /\ d[ClassOrder[9]] = c[ClassOrder[9]] + b[9]
      BY <1>1, <2>1, <2>4, ClassOrderFacts
    <3>3. b[1] + b[2] + b[3] + b[4] + b[5] + b[6] + b[7] + b[8] + b[9] = 1
      <4>1. i \in {1, 2, 3, 4, 5, 6, 7, 8, 9}
        OBVIOUS
      <4> QED BY <4>1
    <3>4. \A j \in 1..9 : b[j] \in Nat
      OBVIOUS
    <3>5. c[k] <= Total(c)
      <4>1. i \in {1, 2, 3, 4, 5, 6, 7, 8, 9}
        OBVIOUS
      <4>2. /\ c[ClassOrder[1]] <= Total(c) /\ c[ClassOrder[2]] <= Total(c) /\ c[ClassOrder[3]] <= Total(c)
            /\ c[ClassOrder[4]] <= Total(c) /\ c[ClassOrder[5]] <= Total(c) /\ c[ClassOrder[6]] <= Total(c)
            /\ c[ClassOrder[7]] <= Total(c) /\ c[ClassOrder[8]] <= Total(c) /\ c[ClassOrder[9]] <= Total(c)
        BY <1>1, <1>2
      <4> HIDE DEF Parts
      <4> QED BY <2>4, <4>1, <4>2
    <3> HIDE DEF b
    <3>6. /\ b[1] \in Nat /\ b[2] \in Nat /\ b[3] \in Nat /\ b[4] \in Nat /\ b[5] \in Nat
          /\ b[6] \in Nat /\ b[7] \in Nat /\ b[8] \in Nat /\ b[9] \in Nat
      BY <3>4
    <3>7. Parts(d) = Parts(c) + (b[1] + b[2] + b[3] + b[4] + b[5] + b[6] + b[7] + b[8] + b[9])
      BY <1>1, <3>1, <3>2, <3>6
    <3> HIDE DEF Parts
    <3> QED BY <1>2, <2>2, <3>3, <3>5, <3>7
  <2> QED BY <2>3, <2>4, ClassOrderFacts DEF d
<1> QED BY <1>3, <1>4

\* What the reader of the history asks of it, and that it shows whether the
\* stage recovered.
HistoryOf(h, succeeded) ==
  /\ HistoryType(h)
  /\ h = NoHistory \/ (ValidHistory(h) /\ (h.recovered <=> succeeded))

LEMMA NoHistoryFacts ==
  HistoryType(NoHistory) /\ Total(NoHistory.byClass) = 0 /\ ~ ValidHistory(NoHistory)
<1>1. NoHistory.byClass \in [Classes -> Nat] /\ \A c \in Classes : NoHistory.byClass[c] = 0
  BY DEF NoHistory
<1>2. HistoryType(NoHistory)
  BY <1>1 DEF HistoryType, NoHistory
<1>3. Total(NoHistory.byClass) = 0
  BY <1>1, TotalIsSum, ClassOrderFacts
<1>4. NoHistory.count = 0
  BY DEF NoHistory
<1> QED BY <1>2, <1>3, <1>4 DEF ValidHistory

LEMMA FailureIsRecorded ==
  ASSUME NEW h, HistoryType(h), h = NoHistory \/ ValidHistory(h), NEW e, ValidError(e), CanRecord(h)
  PROVE  HistoryOf(RecordFailure(h, e), FALSE) /\ RecordFailure(h, e).last = e
<1> DEFINE r == RecordFailure(h, e)
<1>1. /\ h.byClass \in [Classes -> Nat] /\ Total(h.byClass) = h.count /\ h.count \in 0..MaxHistory
      /\ h.retryable \in 0..h.count /\ h.resume \in 0..h.count
  BY NoHistoryFacts, HistoryBound DEF HistoryOf, HistoryType, ValidHistory, NoHistory
<1>2. /\ r.count = h.count + 1 /\ r.retryable = h.retryable + One(e.retryable)
      /\ r.resume = h.resume + One(e.resume) /\ r.byClass = [h.byClass EXCEPT ![e.class] = @ + 1]
      /\ r.last = e /\ r.recovered = FALSE /\ HistoryType(r)
  BY <1>1 DEF RecordFailure, HistoryType, ValidError
<1> HIDE DEF r
<1>3. e.class \in Classes
  BY DEF ValidError
<1>4. Total(r.byClass) = r.count /\ r.byClass \in [Classes -> Nat] /\ r.byClass[e.class] > 0
  BY <1>1, <1>2, <1>3, TotalFacts
<1>5. r.count \in 1..MaxHistory
  BY <1>1, <1>2, HistoryBound DEF CanRecord
<1>6. \A c \in Classes : r.byClass[c] \in 0..MaxHistory
  <2>1. \A c \in Classes : r.byClass[c] \in Nat /\ r.byClass[c] <= Total(r.byClass)
    BY <1>4, TotalFacts
  <2> QED BY <2>1, <1>4, <1>5, HistoryBound
<1>7. r.retryable \in 0..r.count /\ r.resume \in 0..r.count
  BY <1>1, <1>2 DEF One
<1>8. ValidHistory(r)
  BY <1>2, <1>3, <1>4, <1>5, <1>6, <1>7 DEF ValidHistory
<1> QED BY <1>2, <1>8 DEF HistoryOf, r

LEMMA RecoveryIsMarked ==
  ASSUME NEW h, NEW b, HistoryOf(h, b), NEW c \in BOOLEAN
  PROVE  HistoryOf(MarkRecovered(h, c), c)
<1>1. CASE h = NoHistory
  BY <1>1, NoHistoryFacts DEF MarkRecovered, HistoryOf
<1>2. CASE h # NoHistory
  <2> DEFINE r == [h EXCEPT !.recovered = c]
  <2>1. MarkRecovered(h, c) = r
    BY <1>2 DEF MarkRecovered
  <2>2. /\ r.count = h.count /\ r.retryable = h.retryable /\ r.resume = h.resume
        /\ r.byClass = h.byClass /\ r.last = h.last /\ r.recovered = c /\ DOMAIN r = DOMAIN h
    BY DEF HistoryOf, HistoryType
  <2> HIDE DEF r
  <2> QED BY <1>2, <2>1, <2>2 DEF HistoryOf, HistoryType, ValidHistory
<1> QED BY <1>1, <1>2

-----------------------------------------------------------------------------
(* The log. *)

Pieces(log) == {log[i] : i \in DOMAIN log}

Grown(log, x, g) ==
  /\ log \in Seq(Piece) /\ x \in Piece /\ g \in Seq(Piece)
  /\ Len(g) = Len(log) + 1 /\ g[Len(g)] = x
  /\ \A i \in 1..Len(log) : g[i] = log[i]

LEMMA AppendGrows ==
  ASSUME NEW log \in Seq(Piece), NEW x \in Piece
  PROVE  Grown(log, x, Append(log, x))
  BY AppendProperties DEF Grown

\* What appending a piece changes for the readers.
LEMMA GrownLog ==
  ASSUME NEW log, NEW x, NEW g, Grown(log, x, g)
  PROVE  /\ Pieces(g) = Pieces(log) \cup {x}
         /\ x.part = "tail" => Recorded(g) = Recorded(log) \cup {x.id}
         /\ x.part # "tail" => Recorded(g) = Recorded(log)
         /\ \A p : InOnePiece(log, p) => InOnePiece(g, p)
         /\ \A p : ReadableLine(log, p) => ReadableLine(g, p)
<1>1. /\ g \in Seq(Piece) /\ Len(g) = Len(log) + 1 /\ g[Len(log) + 1] = x
      /\ \A i \in 1..Len(log) : g[i] = log[i]
      /\ Len(log) \in Nat /\ DOMAIN log = 1..Len(log) /\ DOMAIN g = 1..(Len(log) + 1)
  BY LenProperties DEF Grown
<1>2. Pieces(g) = Pieces(log) \cup {x}
  <2>1. DOMAIN g = DOMAIN log \cup {Len(log) + 1}
    BY <1>1
  <2> QED BY <1>1, <2>1 DEF Pieces
<1>3. Recorded(g) = Recorded(log) \cup (IF x.part = "tail" THEN {x.id} ELSE {})
  <2>1. DOMAIN g = DOMAIN log \cup {Len(log) + 1}
    BY <1>1
  <2> QED BY <1>1, <2>1 DEF Recorded
<1>4. ASSUME NEW p, InOnePiece(log, p) PROVE InOnePiece(g, p)
  <2>1. PICK i \in 1..(Len(log) - 1) : log[i] = HeadOf(p) /\ log[i + 1] = TailOf(p)
    BY <1>4 DEF InOnePiece
  <2>2. i \in 1..Len(log) /\ i + 1 \in 1..Len(log) /\ i \in 1..(Len(g) - 1)
    BY <1>1, <2>1
  <2> QED BY <1>1, <2>1, <2>2 DEF InOnePiece
<1>5. ASSUME NEW p, ReadableLine(log, p) PROVE ReadableLine(g, p)
  <2>1. PICK i \in 1..(Len(log) - 1) :
          /\ log[i] = [id |-> p, part |-> "head"] /\ log[i + 1] = [id |-> p, part |-> "tail"]
          /\ i = 1 \/ log[i - 1].part = "tail"
    BY <1>5 DEF ReadableLine
  <2>2. /\ i \in 1..Len(log) /\ i + 1 \in 1..Len(log) /\ i \in 1..(Len(g) - 1)
        /\ i # 1 => i - 1 \in 1..Len(log)
    BY <1>1, <2>1
  <2> QED BY <1>1, <2>1, <2>2 DEF ReadableLine
<1> QED BY <1>1, <1>2, <1>3, <1>4, <1>5

\* A process begins.
Begins(p) == pc[p] = "idle" /\ Begin(p) /\ UNCHANGED << file, lock, kind, exit, error, existed, written >>

Acts(p) == Begins(p) \/ Step(p) \/ Crash(p)

LEMMA ClassifiedTypes ==
  ASSUME TypeOK, NEW p \in Procs, NEW t, error' = [error EXCEPT ![p] = Classify(t)]
  PROVE  DOMAIN error' = Procs /\ \A q \in Procs : ErrorIsValid(error'[q])
  BY ClassifyIsValid DEF TypeOK

WriterTypes ==
  /\ file \in [exists : BOOLEAN, log : Seq(Piece)]
  /\ ~file.exists => file.log = << >>
  /\ lock \in Procs \cup {NoProc}
  /\ pc \in [Procs -> Phases]
  /\ kind \in [Procs -> [same : BOOLEAN, preflight : {"none", "reserve", "release"}]]
  /\ exit \in [Procs -> 0..2]
  /\ DOMAIN error = Procs /\ \A p \in Procs : ErrorIsValid(error[p])
  /\ existed \in [Procs -> BOOLEAN]
  /\ written \in [Procs -> BOOLEAN]

LEMMA WriterTypesPreserved ==
  ASSUME TypeOK, LineInv, NEW p \in Procs, Acts(p)
  PROVE  WriterTypes'
<1> USE DEF Goto
<1>1. WriterTypes
  BY DEF TypeOK, WriterTypes
<1>2. ASSUME pc' = [pc EXCEPT ![p] = pc'[p]], pc'[p] \in Phases,
             UNCHANGED << file, kind, error, existed, written >>,
             lock' \in Procs \cup {NoProc}, exit' \in [Procs -> 0..2]
      PROVE  WriterTypes'
  BY <1>1, <1>2 DEF WriterTypes
<1>3. CASE Begins(p)
  BY <1>1, <1>2, <1>3 DEF Begins, Begin, WriterTypes, Phases, Waiting
<1>4. CASE TakeLock(p)
  BY <1>1, <1>2, <1>4 DEF TakeLock, WriterTypes, Phases, Inside
<1>5. CASE GiveUp(p)
  BY <1>1, <1>2, <1>5 DEF GiveUp, WriterTypes, Phases, Ended
<1>6. CASE CheckAndOpen(p)
  BY <1>1, <1>6 DEF CheckAndOpen, WriterTypes, Phases, Inside
<1>7. CASE Withdraw(p)
  <2>1. file' \in {file, NoFile} /\ NoFile \in [exists : BOOLEAN, log : Seq(Piece)]
    BY <1>7 DEF Withdraw, NoFile
  <2>2. ~file'.exists => file'.log = << >>
    BY <1>1, <2>1 DEF WriterTypes, NoFile
  <2> QED BY <1>1, <1>7, <2>1, <2>2 DEF Withdraw, WriterTypes, Phases, Inside
<1>8. CASE Succeed(p)
  BY <1>1, <1>2, <1>8 DEF Succeed, WriterTypes, Phases, Waiting
<1>9. CASE \E t \in Texts : Fail(p, t)
  <2>1. PICK t \in Texts : Fail(p, t)
    BY <1>9
  <2>2. DOMAIN error' = Procs /\ \A q \in Procs : ErrorIsValid(error'[q])
    BY <2>1, ClassifiedTypes DEF Fail
  <2>3. exit' \in [Procs -> 0..2] /\ pc' \in [Procs -> Phases] /\ UNCHANGED << file, lock, kind, existed, written >>
    BY <1>1, <2>1 DEF Fail, WriterTypes, Phases, Waiting
  <2> QED BY <1>1, <2>2, <2>3 DEF WriterTypes
<1>10. CASE Refused(p)
  BY <1>1, <1>2, <1>10 DEF Refused, WriterTypes, Phases, Ended
<1>11. CASE WriteHead(p)
  <2>1. Append(file.log, [id |-> p, part |-> "head"]) \in Seq(Piece)
    BY <1>1, AppendProperties DEF WriterTypes, Piece
  <2> QED BY <1>1, <1>11, <2>1 DEF WriteHead, WriterTypes, Phases, Inside
<1>12. CASE WriteTail(p)
  <2>1. Append(file.log, [id |-> p, part |-> "tail"]) \in Seq(Piece)
    BY <1>1, AppendProperties DEF WriterTypes, Piece
  <2>2. file' \in [exists : BOOLEAN, log : Seq(Piece)] /\ file'.exists = file.exists
    BY <1>1, <1>12, <2>1 DEF WriteTail, WriterTypes
  <2>3. file.exists
    BY <1>1, <1>12 DEF WriteTail, LineInv, LineOf, WriterTypes
  <2> QED BY <1>1, <1>12, <2>2, <2>3 DEF WriteTail, WriterTypes, Phases, Inside
<1>13. CASE WriteFails(p)
  BY <1>1, <1>2, <1>13 DEF WriteFails, WriterTypes, Phases, Inside
<1>14. CASE Release(p)
  BY <1>1, <1>2, <1>14 DEF Release, WriterTypes, Phases, Ended
<1>15. CASE Crash(p)
  BY <1>1, <1>2, <1>15 DEF Crash, WriterTypes, Phases, Ended
<1> QED
  BY <1>3, <1>4, <1>5, <1>6, <1>7, <1>8, <1>9, <1>10, <1>11, <1>12, <1>13, <1>14, <1>15 DEF Acts, Step

LEMMA LockPreserved ==
  ASSUME TypeOK, LockInv, NEW p \in Procs, Acts(p)
  PROVE  LockInv'
<1> USE DEF Goto
<1>1. pc' = [pc EXCEPT ![p] = pc'[p]] /\ pc \in [Procs -> Phases]
  BY DEF TypeOK, Acts, Begins, Begin, Step, Crash, TakeLock, GiveUp, CheckAndOpen, Withdraw, Succeed,
         Fail, Refused, WriteHead, WriteTail, WriteFails, Release
<1>2. CASE TakeLock(p)
  <2>1. lock = NoProc /\ \A q \in Procs : q # NoProc
    BY <1>2, ProcessesDiffer DEF TakeLock, Procs
  <2> QED BY <1>1, <1>2, <2>1 DEF TakeLock, LockInv
<1>3. CASE Release(p)
  <2>1. pc[p] \in Inside /\ pc'[p] \notin Inside
    BY <1>1, <1>3 DEF Release, Inside
  <2> QED BY <1>1, <2>1 DEF LockInv
<1>4. ASSUME lock' = lock, pc'[p] \in Inside => pc[p] \in Inside PROVE LockInv'
  BY <1>1, <1>4 DEF LockInv
<1>5. CASE Begins(p) \/ GiveUp(p) \/ Succeed(p) \/ Refused(p) \/ Crash(p) \/ \E t \in Texts : Fail(p, t)
  <2>1. lock' = lock /\ pc'[p] \notin Inside
    BY <1>1, <1>5 DEF Begins, Begin, GiveUp, Succeed, Refused, Crash, Fail, Inside
  <2> QED BY <1>4, <2>1
<1>6. CASE CheckAndOpen(p) \/ Withdraw(p) \/ WriteHead(p) \/ WriteTail(p) \/ WriteFails(p)
  <2>1. lock' = lock /\ pc[p] \in Inside
    BY <1>6 DEF CheckAndOpen, Withdraw, WriteHead, WriteTail, WriteFails, Inside
  <2> QED BY <1>4, <2>1
<1> QED BY <1>2, <1>3, <1>5, <1>6 DEF Acts, Step

\* Nothing but an append changes the log: a withdrawn log is empty.
LEMMA LogSteps ==
  ASSUME TypeOK, LockInv, LineInv, NEW p \in Procs, Acts(p)
  PROVE  \/ file'.log = file.log /\ ~WriteHead(p) /\ ~WriteTail(p)
         \/ WriteHead(p) /\ Grown(file.log, HeadOf(p), file'.log)
         \/ WriteTail(p) /\ Grown(file.log, TailOf(p), file'.log)
<1> USE DEF Goto
<1>1. file.log \in Seq(Piece) /\ HeadOf(p) \in Piece /\ TailOf(p) \in Piece
  BY DEF TypeOK, HeadOf, TailOf, Piece
<1>2. CASE WriteHead(p)
  <2>1. file'.log = Append(file.log, HeadOf(p))
    BY <1>2 DEF WriteHead, HeadOf
  <2> QED BY <1>1, <1>2, <2>1, AppendGrows
<1>8. CASE WriteTail(p)
  <2>1. file'.log = Append(file.log, TailOf(p))
    BY <1>8 DEF WriteTail, TypeOK, TailOf
  <2> QED BY <1>1, <1>8, <2>1, AppendGrows
<1>3. CASE Withdraw(p)
  <2>1. CASE kind[p].preflight = "release" /\ ~existed[p]
    BY <1>3, <2>1 DEF Withdraw, LineInv, LineOf, NoFile, WriteHead, WriteTail
  <2>2. CASE ~ (kind[p].preflight = "release" /\ ~existed[p])
    BY <1>3, <2>2 DEF Withdraw, WriteHead, WriteTail
  <2> QED BY <2>1, <2>2
<1>4. CASE CheckAndOpen(p)
  BY <1>4 DEF CheckAndOpen, TypeOK, WriteHead, WriteTail
<1>5. ASSUME file' = file, pc[p] \notin {"open", "half"} \/ Crash(p) \/ WriteFails(p)
      PROVE  file'.log = file.log /\ ~WriteHead(p) /\ ~WriteTail(p)
  BY <1>5 DEF WriteHead, WriteTail, TypeOK, Crash, WriteFails
<1>6. CASE Begins(p) \/ GiveUp(p) \/ Succeed(p) \/ Refused(p) \/ TakeLock(p) \/ Release(p)
           \/ \E t \in Texts : Fail(p, t)
  <2>1. file' = file /\ pc[p] \notin {"open", "half"}
    BY <1>6 DEF Begins, GiveUp, Succeed, Refused, Fail, TakeLock, Release, Waiting
  <2> QED BY <1>5, <2>1
<1>7. CASE Crash(p) \/ WriteFails(p)
  BY <1>5, <1>7 DEF Crash, WriteFails, TypeOK
<1> QED BY <1>2, <1>3, <1>4, <1>6, <1>7, <1>8 DEF Acts, Step

\* Of the other processes only those outside the lock see the log grow.
LEMMA OthersLine ==
  ASSUME TypeOK, LockInv, LineInv, NEW p \in Procs, Acts(p), NEW q \in Procs \ {p}
  PROVE  LineOf(q)' /\ pc'[q] = pc[q] /\ (written'[q] <=> written[q])
<1> USE DEF Goto
<1>1. /\ pc'[q] = pc[q] /\ exit'[q] = exit[q] /\ error'[q] = error[q]
      /\ existed'[q] = existed[q] /\ written'[q] = written[q]
  BY DEF TypeOK, Acts, Begins, Begin, Step, Crash, TakeLock, GiveUp, CheckAndOpen, Withdraw, Succeed,
         Fail, Refused, WriteHead, WriteTail, WriteFails, Release
<1>2. LineOf(q)
  BY DEF LineInv
<1>3. CASE file'.log = file.log
  BY <1>1, <1>2, <1>3 DEF LineOf, HasHead
<1>4. ASSUME NEW x, x.id = p, Grown(file.log, x, file'.log), pc[p] \in Inside
      PROVE  LineOf(q)'
  <2>1. pc[q] \notin Inside
    BY <1>4 DEF LockInv
  <2>2. /\ Recorded(file'.log) \subseteq Recorded(file.log) \cup {p}
        /\ Pieces(file'.log) = Pieces(file.log) \cup {x}
        /\ InOnePiece(file.log, q) => InOnePiece(file'.log, q)
    BY <1>4, GrownLog
  <2>3. HasHead(q)' => HasHead(q)
    BY <1>4, <2>2 DEF HasHead, Pieces, HeadOf
  <2>4. q \in Recorded(file'.log) => q \in Recorded(file.log)
    BY <2>2
  <2>5. pc[q] \notin {"half", "checked"}
    BY <2>1 DEF Inside
  <2> QED BY <1>1, <1>2, <2>2, <2>3, <2>4, <2>5 DEF LineOf
<1>5. CASE WriteHead(p) \/ WriteTail(p)
  <2>1. pc[p] \in Inside
    BY <1>5 DEF WriteHead, WriteTail, Inside
  <2>2. HeadOf(p).id = p /\ TailOf(p).id = p
    BY DEF HeadOf, TailOf
  <2>3. \E x \in {HeadOf(p), TailOf(p)} : Grown(file.log, x, file'.log)
    BY <1>5, LogSteps
  <2> QED BY <1>1, <1>4, <2>1, <2>2, <2>3
<1> QED BY <1>1, <1>3, <1>5, LogSteps

LEMMA LinesPreserved ==
  ASSUME TypeOK, LockInv, LineInv, NEW p \in Procs, Acts(p)
  PROVE  LineInv'
<1> USE DEF Goto
<1> SUFFICES LineOf(p)'
  BY OthersLine DEF LineInv
<1>1. LineOf(p) /\ pc \in [Procs -> Phases] /\ exit \in [Procs -> 0..2]
      /\ existed \in [Procs -> BOOLEAN] /\ written \in [Procs -> BOOLEAN] /\ DOMAIN error = Procs
  BY DEF LineInv, TypeOK
<1>2. ASSUME ~WriteHead(p), ~WriteTail(p)
      PROVE  file'.log = file.log /\ (HasHead(p)' <=> HasHead(p))
  BY <1>2, LogSteps DEF HasHead
<1>3. CASE Begins(p) \/ TakeLock(p) \/ Succeed(p)
  <2>1. /\ pc[p] \notin {"half", "done"} \cup After
        /\ pc'[p] \in {"work", "wait_check", "check", "open", "wait_append"}
        /\ UNCHANGED << exit, error, existed, written >> /\ ~WriteHead(p) /\ ~WriteTail(p)
    BY <1>1, <1>3 DEF Begins, Begin, TakeLock, Succeed, WriteHead, WriteTail, After, Ended, Waiting
  <2> QED BY <1>1, <1>2, <2>1 DEF LineOf
<1>4. CASE GiveUp(p) \/ Refused(p)
  <2>1. /\ pc[p] \in Waiting /\ pc'[p] = "done" /\ exit'[p] # 0
        /\ UNCHANGED << error, existed, written >> /\ ~WriteHead(p) /\ ~WriteTail(p)
    BY <1>1, <1>4 DEF GiveUp, Refused, WriteHead, WriteTail, Waiting
  <2> QED BY <1>1, <1>2, <2>1 DEF LineOf, After, Ended, Waiting
<1>5. CASE CheckAndOpen(p)
  <2>1. /\ pc[p] = "check" /\ pc'[p] = "checked" /\ existed'[p] = file.exists
        /\ UNCHANGED << exit, error, written >> /\ ~WriteHead(p) /\ ~WriteTail(p)
    BY <1>1, <1>5 DEF CheckAndOpen, WriteHead, WriteTail
  <2> QED BY <1>1, <1>2, <2>1 DEF LineOf, After, Ended, TypeOK
<1>6. CASE Withdraw(p)
  <2>1. /\ pc[p] = "checked" /\ pc'[p] = "unlock_check"
        /\ UNCHANGED << exit, error, existed, written >> /\ ~WriteHead(p) /\ ~WriteTail(p)
    BY <1>1, <1>6 DEF Withdraw, WriteHead, WriteTail
  <2> QED BY <1>1, <1>2, <2>1 DEF LineOf, After, Ended
<1>7. ASSUME NEW t \in Texts, Fail(p, t) PROVE LineOf(p)'
  <2>1. /\ pc[p] = "work" /\ pc'[p] = "wait_append" /\ exit'[p] = 1
        /\ UNCHANGED << existed, written >> /\ ~WriteHead(p) /\ ~WriteTail(p)
    BY <1>1, <1>7 DEF Fail, WriteHead, WriteTail
  <2> QED BY <1>1, <1>2, <2>1 DEF LineOf, After, Ended
<1>8. CASE WriteHead(p)
  <2>1. /\ pc[p] = "open" /\ pc'[p] = "half" /\ UNCHANGED << exit, error, existed, written >>
        /\ Grown(file.log, HeadOf(p), file'.log)
    BY <1>1, <1>8, LogSteps DEF WriteHead, WriteTail
  <2>2. Recorded(file'.log) = Recorded(file.log)
    BY <2>1, GrownLog DEF HeadOf
  <2>3. file'.log # << >> /\ file'.log[Len(file'.log)] = HeadOf(p)
    BY <2>1, EmptySeq, LenProperties DEF Grown
  <2> QED BY <1>1, <2>1, <2>2, <2>3 DEF LineOf, After, Ended
<1>9. CASE WriteTail(p)
  <2>1. /\ pc[p] = "half" /\ pc'[p] = "unlock_append" /\ UNCHANGED << exit, error, existed >>
        /\ Grown(file.log, TailOf(p), file'.log)
    BY <1>1, <1>9, LogSteps DEF WriteTail, WriteHead
  <2>2. /\ Len(file'.log) = Len(file.log) + 1 /\ file'.log[Len(file'.log)] = TailOf(p)
        /\ \A i \in 1..Len(file.log) : file'.log[i] = file.log[i]
    BY <2>1 DEF Grown
  <2>3. Len(file.log) \in 1..(Len(file'.log) - 1) /\ Len(file.log) \in 1..Len(file.log)
    BY <1>1, <2>1, <2>2, EmptySeq DEF LineOf, TypeOK
  <2>4. InOnePiece(file'.log, p)
    BY <1>1, <2>1, <2>2, <2>3 DEF LineOf, InOnePiece
  <2> QED BY <1>1, <2>1, <2>4 DEF LineOf, After, Ended
<1>10. CASE WriteFails(p) \/ Crash(p)
  <2>1. /\ pc[p] \notin {"done"} /\ pc'[p] \in {"unlock_append", "crashed"}
        /\ UNCHANGED << exit, error, existed, written, file >>
    BY <1>1, <1>10 DEF WriteFails, Crash, Ended
  <2> QED BY <1>1, <2>1 DEF LineOf, After, Ended, HasHead
<1>11. CASE Release(p)
  <2>1. /\ UNCHANGED << error, existed, written, file >>
        /\ \/ pc[p] = "unlock_check" /\ pc'[p] = "work" /\ exit'[p] = exit[p]
           \/ pc[p] = "unlock_append" /\ pc'[p] = "done" /\ (exit'[p] = 0 => written[p])
              /\ (exit[p] # 0 => exit'[p] # 0)
    BY <1>1, <1>11 DEF Release
  <2> QED BY <1>1, <2>1 DEF LineOf, After, Ended, HasHead
<1> QED
  BY <1>3, <1>4, <1>5, <1>6, <1>7, <1>8, <1>9, <1>10, <1>11 DEF Acts, Step

LEMMA HeadAfterWhole ==
  ASSUME NEW log, NEW g, NEW p, WholeLines(log), Grown(log, HeadOf(p), g)
  PROVE  WholeButLast(g, p)
<1>1. /\ Len(log) \in Nat /\ Len(log) % 2 = 0 /\ Len(g) = Len(log) + 1 /\ g[Len(g)] = HeadOf(p)
      /\ \A i \in 1..Len(log) : g[i] = log[i]
  BY LenProperties DEF Grown, WholeLines
<1>2. Len(g) % 2 = 1 /\ Len(g) \div 2 = Len(log) \div 2
  BY <1>1
<1>3. ASSUME NEW i \in 1..(Len(g) \div 2)
      PROVE  g[2 * i - 1].part = "head" /\ g[2 * i].part = "tail" /\ g[2 * i].id = g[2 * i - 1].id
  <2>1. i \in 1..(Len(log) \div 2) /\ 2 * i - 1 \in 1..Len(log) /\ 2 * i \in 1..Len(log)
    BY <1>1, <1>2
  <2>2. log[2 * i - 1].part = "head" /\ log[2 * i].part = "tail" /\ log[2 * i].id = log[2 * i - 1].id
    BY <2>1 DEF WholeLines
  <2>3. \A a, b \in 1..Len(log) : g[a] = log[a] /\ g[b] = log[b]
    BY <1>1
  <2>4. g[2 * i - 1] = log[2 * i - 1] /\ g[2 * i] = log[2 * i]
    BY <2>1, <2>3
  <2> QED BY <2>2, <2>4
<1> QED BY <1>1, <1>2, <1>3 DEF WholeButLast

LEMMA TailAfterHead ==
  ASSUME NEW log, NEW g, NEW p, WholeButLast(log, p), Grown(log, TailOf(p), g)
  PROVE  WholeLines(g)
<1>1. /\ Len(log) \in Nat /\ Len(log) % 2 = 1 /\ log[Len(log)] = HeadOf(p)
      /\ Len(g) = Len(log) + 1 /\ g[Len(g)] = TailOf(p)
      /\ \A i \in 1..Len(log) : g[i] = log[i]
  BY LenProperties DEF Grown, WholeButLast
<1>2. Len(g) % 2 = 0 /\ Len(g) \div 2 = (Len(log) \div 2) + 1
      /\ 2 * (Len(g) \div 2) = Len(g) /\ Len(log) \in 1..Len(log)
  BY <1>1
<1>3. ASSUME NEW i \in 1..(Len(g) \div 2)
      PROVE  g[2 * i - 1].part = "head" /\ g[2 * i].part = "tail" /\ g[2 * i].id = g[2 * i - 1].id
  <2>1. CASE i \in 1..(Len(log) \div 2)
    <3>1. 2 * i - 1 \in 1..Len(log) /\ 2 * i \in 1..Len(log)
      BY <1>1, <2>1
    <3>2. log[2 * i - 1].part = "head" /\ log[2 * i].part = "tail" /\ log[2 * i].id = log[2 * i - 1].id
      BY <2>1 DEF WholeButLast
    <3>3. \A a, b \in 1..Len(log) : g[a] = log[a] /\ g[b] = log[b]
      BY <1>1
    <3>4. g[2 * i - 1] = log[2 * i - 1] /\ g[2 * i] = log[2 * i]
      BY <3>1, <3>3
    <3> QED BY <3>2, <3>4
  <2>2. CASE i = Len(g) \div 2
    <3>1. 2 * i = Len(g) /\ 2 * i - 1 = Len(log)
      BY <1>1, <1>2, <2>2
    <3>2. g[2 * i] = TailOf(p) /\ g[2 * i - 1] = HeadOf(p)
      BY <1>1, <1>2, <3>1
    <3> QED BY <3>2 DEF HeadOf, TailOf
  <2>3. i \in 1..(Len(log) \div 2) \/ i = Len(g) \div 2
    <3> DEFINE n == Len(log) \div 2
    <3>1. n \in Nat
      BY <1>1
    <3>2. i \in 1..(n + 1)
      BY <1>2
    <3> HIDE DEF n
    <3>3. i \in 1..n \/ i = n + 1
      BY <3>1, <3>2
    <3> QED BY <1>2, <3>3 DEF n
  <2> QED BY <2>1, <2>2, <2>3
<1> QED BY <1>2, <1>3 DEF WholeLines

LEMMA WholePreserved ==
  ASSUME TypeOK, LockInv, LineInv, WholeInv, NEW p \in Procs, Acts(p)
  PROVE  WholeInv'
<1> USE DEF Goto
<1>1. LineOf(p) /\ pc \in [Procs -> Phases] /\ written \in [Procs -> BOOLEAN]
  BY DEF LineInv, TypeOK
<1>2. CASE ~WriteHead(p) /\ ~WriteTail(p)
  <2>1. file'.log = file.log /\ \A q \in Procs : HasHead(q)' <=> HasHead(q)
    BY <1>2, LogSteps DEF HasHead
  <2>2. written' = written /\ \A q \in Procs : pc'[q] = "half" => pc[q] = "half"
    BY <1>1, <1>2 DEF Acts, Begins, Begin, Step, Crash, TakeLock, GiveUp, CheckAndOpen, Withdraw,
                      Succeed, Fail, Refused, WriteFails, Release
  <2>3. \A q \in Procs : Torn(q)' <=> Torn(q)
    BY <2>1, <2>2 DEF Torn
  <2> QED BY <2>1, <2>2, <2>3 DEF WholeInv
<1>3. ASSUME NEW r \in Procs, r # p, pc[p] \in Inside PROVE pc'[r] # "half"
  BY <1>3, OthersLine DEF LockInv, Inside
<1>4. CASE WriteHead(p)
  <2>1. /\ pc[p] = "open" /\ pc'[p] = "half" /\ written' = written
        /\ Grown(file.log, HeadOf(p), file'.log)
    BY <1>1, <1>4, LogSteps DEF WriteHead, WriteTail
  <2>2. Pieces(file'.log) = Pieces(file.log) \cup {HeadOf(p)}
    BY <2>1, GrownLog
  <2>3. HasHead(p)' /\ ~HasHead(p) /\ ~written[p]
    BY <1>1, <2>1, <2>2 DEF HasHead, Pieces, HeadOf, LineOf, After, Ended
  <2>4. \A q \in Procs \ {p} : HasHead(q)' <=> HasHead(q)
    BY <2>2 DEF HasHead, Pieces, HeadOf
  <2>5. Torn(p)' /\ ~Torn(p) /\ \A q \in Procs \ {p} : Torn(q)' <=> Torn(q)
    BY <2>1, <2>3, <2>4 DEF Torn
  <2>6. (\A q \in Procs \ {p} : ~Torn(q)') => WholeButLast(file'.log, p)
    BY <2>1, <2>5, HeadAfterWhole DEF WholeInv
  <2> QED BY <1>3, <2>1, <2>5, <2>6 DEF WholeInv, Inside
<1>5. CASE WriteTail(p)
  <2>1. /\ pc[p] = "half" /\ pc'[p] # "half" /\ written' = [written EXCEPT ![p] = TRUE]
        /\ Grown(file.log, TailOf(p), file'.log)
    BY <1>1, <1>5, LogSteps DEF WriteHead, WriteTail
  <2>2. Pieces(file'.log) = Pieces(file.log) \cup {TailOf(p)}
    BY <2>1, GrownLog
  <2>3. \A q \in Procs : HasHead(q)' <=> HasHead(q)
    BY <2>2 DEF HasHead, Pieces, TailOf
  <2>4. \A q \in Procs \ {p} : Torn(q)' <=> Torn(q)
    BY <1>1, <2>1, <2>3 DEF Torn
  <2>5. (\A q \in Procs : ~Torn(q)') => WholeLines(file'.log)
    BY <2>1, <2>4, TailAfterHead DEF WholeInv
  <2> QED BY <1>3, <2>1, <2>5 DEF WholeInv, Inside
<1> QED BY <1>2, <1>4, <1>5

-----------------------------------------------------------------------------
(* Attribution. *)

LEMMA Halves ==
  ASSUME NEW n \in Nat, n % 2 = 0, NEW j \in 1..n
  PROVE  \E i \in 1..(n \div 2) : j = 2 * i \/ j = 2 * i - 1
<1> DEFINE i == (j + 1) \div 2
<1>1. j = 2 * i \/ j = 2 * i - 1
  OBVIOUS
<1>2. i \in 1..(n \div 2)
  OBVIOUS
<1> QED BY <1>1, <1>2

LEMMA RecordedIsReadable ==
  ASSUME NEW log \in Seq(Piece), WholeLines(log), NEW p \in Recorded(log)
  PROVE  ReadableLine(log, p)
<1>1. PICK j \in DOMAIN log : log[j].part = "tail" /\ log[j].id = p
  BY DEF Recorded
<1>2. /\ Len(log) \in Nat /\ Len(log) % 2 = 0 /\ j \in 1..Len(log)
      /\ \A i \in 1..Len(log) : log[i] \in Piece
  BY <1>1, LenProperties, ElementOfSeq DEF WholeLines
<1>3. PICK i \in 1..(Len(log) \div 2) : j = 2 * i \/ j = 2 * i - 1
  BY <1>2, Halves
<1>4. j = 2 * i /\ log[2 * i - 1].part = "head" /\ log[2 * i - 1].id = p
  BY <1>1, <1>3 DEF WholeLines
<1>5. 2 * i - 1 \in 1..(Len(log) - 1) /\ (2 * i - 1) + 1 = j
  BY <1>2, <1>3, <1>4
<1>6. log[2 * i - 1] = [id |-> p, part |-> "head"] /\ log[j] = [id |-> p, part |-> "tail"]
  <2>1. log[2 * i - 1] \in Piece /\ log[j] \in Piece
    BY <1>2, <1>5
  <2>2. \A x \in Piece : x = [id |-> x.id, part |-> x.part]
    BY DEF Piece
  <2> QED BY <1>1, <1>4, <2>1, <2>2
<1>7. 2 * i - 1 = 1 \/ log[(2 * i - 1) - 1].part = "tail"
  <2>1. CASE i = 1
    BY <2>1
  <2>2. CASE i # 1
    <3>1. i - 1 \in 1..(Len(log) \div 2) /\ 2 * (i - 1) = (2 * i - 1) - 1
      BY <1>2, <1>3, <2>2
    <3>2. log[2 * (i - 1)].part = "tail"
      BY <3>1 DEF WholeLines
    <3> QED BY <3>1, <3>2
  <2> QED BY <2>1, <2>2
<1> QED BY <1>5, <1>6, <1>7 DEF ReadableLine

LEMMA ReadableIsRecorded ==
  ASSUME NEW log \in Seq(Piece), NEW p, ReadableLine(log, p)
  PROVE  p \in Recorded(log)
<1>1. PICK i \in 1..(Len(log) - 1) : log[i + 1] = [id |-> p, part |-> "tail"]
  BY DEF ReadableLine
<1>2. i + 1 \in DOMAIN log
  BY <1>1, LenProperties
<1> QED BY <1>1, <1>2 DEF Recorded

LEMMA FewRecorded ==
  ASSUME NEW log \in Seq(Piece)
  PROVE  IsFiniteSet(Recorded(log))
<1> DEFINE ids == [i \in 1..Len(log) |-> log[i].id]
           T == {ids[i] : i \in 1..Len(log)}
<1>1. Len(log) \in Nat /\ DOMAIN log = 1..Len(log)
  BY LenProperties
<1>2. IsFiniteSet(1..Len(log))
  BY <1>1, FS_Interval
<1>3. ids \in Surjection(1..Len(log), T)
  BY DEF Surjection
<1>4. IsFiniteSet(T)
  BY <1>2, <1>3, FS_Surjection
<1>5. Recorded(log) \subseteq T
  BY <1>1 DEF Recorded
<1> QED BY <1>4, <1>5, FS_Subset

\* An attributed error is that of the one new event of the stage's command
\* that has one.
LEMMA AttributedIsOwn ==
  ASSUME TypeOK, NEW before \in [safe : BOOLEAN, ids : SUBSET Procs], Attributed(before) # NoError
  PROVE  /\ \E p \in Procs \ before.ids :
              ReadableLine(file.log, p) /\ kind[p].same /\ error[p] = Attributed(before)
         /\ \A p \in Recorded(file.log) \ before.ids :
              kind[p].same /\ exit[p] # 0 /\ error[p] # NoError => error[p] = Attributed(before)
<1> DEFINE now == BoundedEvents(file.log)
           errors == NewErrors(before, now)
<1>1. /\ now.safe /\ Cardinality(errors) = 1 /\ Attributed(before) = error[CHOOSE p \in errors : TRUE]
  BY DEF Attributed
<1>2. WholeLines(file.log) /\ now.ids = Recorded(file.log) /\ file.log \in Seq(Piece)
  BY <1>1 DEF BoundedEvents, Unsafe, TypeOK
<1> HIDE DEF now
<1>3. IsFiniteSet(errors) /\ errors \subseteq Recorded(file.log)
  BY <1>2, FewRecorded, FS_Subset DEF NewErrors
<1>4. PICK x : errors = {x}
  BY <1>1, <1>3, FS_Singleton
<1>5. Attributed(before) = error[x]
  BY <1>1, <1>4
<1>6. x \in Recorded(file.log) \ before.ids /\ kind[x].same
  BY <1>2, <1>4 DEF NewErrors
<1>7. Recorded(file.log) \subseteq Procs
  <2>1. \A i \in DOMAIN file.log : file.log[i].id \in Procs
    <3>1. \A i \in DOMAIN file.log : file.log[i] \in Piece
      BY <1>2, LenProperties, ElementOfSeq
    <3> QED BY <3>1 DEF Piece
  <2> QED BY <2>1 DEF Recorded
<1>8. ReadableLine(file.log, x)
  BY <1>2, <1>6, RecordedIsReadable
<1>9. \A p \in Recorded(file.log) \ before.ids :
        kind[p].same /\ exit[p] # 0 /\ error[p] # NoError => p \in errors
  BY <1>2 DEF NewErrors
<1> QED BY <1>4, <1>5, <1>6, <1>7, <1>8, <1>9

-----------------------------------------------------------------------------
(* The executor, and the whole. *)

ExecutorTypes ==
  /\ xpc \in {"idle", "ready", "waiting"}
  /\ current \in Attempts \cup {NoProc}
  /\ snapshot \in [safe : BOOLEAN, ids : SUBSET Procs]
  /\ DOMAIN stage = {"status", "provider", "history"}
  /\ stage.status \in {"pending", "running", "failed", "succeeded"}
  /\ ErrorIsValid(stage.provider)

LEMMA TypesJoin == TypeOK <=> WriterTypes /\ ExecutorTypes
  BY DEF TypeOK, WriterTypes, ExecutorTypes

LEMMA Assembled ==
  ASSUME WriterTypes', ExecutorTypes', LockInv', LineInv', WholeInv', AttemptInv',
         AttributionIsSound', HistoryIsConsistent'
  PROVE  IInv'
<1>1. TypeOK'
  BY DEF TypeOK, WriterTypes, ExecutorTypes
<1> QED BY <1>1 DEF IInv, LogInv

\* A command's step leaves the executor's knowledge right.
LEMMA CommandKeepsAttempt ==
  ASSUME IInv, NEW p \in Procs, StartOther(p) \/ Step(p) \/ Crash(p)
  PROVE  Acts(p) /\ ExecutorTypes' /\ AttemptInv' /\ AttributionIsSound' /\ HistoryIsConsistent'
<1> USE DEF Goto
<1>1. TypeOK /\ LockInv /\ LineInv /\ AttemptInv /\ AttributionIsSound /\ HistoryIsConsistent
  BY DEF IInv, LogInv
<1>2. Acts(p)
  BY DEF Acts, Begins, StartOther
<1>3. UNCHANGED << kind, xpc, current, snapshot, stage >>
  BY DEF executor, StartOther, Step, Crash, TakeLock, GiveUp, CheckAndOpen, Withdraw, Succeed,
         Fail, Refused, WriteHead, WriteTail, WriteFails, Release
<1>4. pc[p] \notin Ended /\ (pc[p] = "idle" => p \in Others)
  BY DEF StartOther, Step, Crash, TakeLock, GiveUp, CheckAndOpen, Withdraw, Succeed, Fail, Refused,
         WriteHead, WriteTail, WriteFails, Release, Ended, Waiting
<1>5. \A q \in Procs \ {p} : pc'[q] = pc[q] /\ error'[q] = error[q]
  BY <1>1 DEF TypeOK, StartOther, Begin, Step, Crash, TakeLock, GiveUp, CheckAndOpen, Withdraw, Succeed,
         Fail, Refused, WriteHead, WriteTail, WriteFails, Release
<1>6. error'[p] = error[p] \/ pc[p] = "work"
  BY <1>1 DEF TypeOK, StartOther, Step, Crash, TakeLock, GiveUp, CheckAndOpen, Withdraw, Succeed,
         Fail, Refused, WriteHead, WriteTail, WriteFails, Release
<1>7. ExecutorTypes'
  BY <1>1, <1>3 DEF TypeOK, ExecutorTypes
<1>8. AttemptInv'
  <2>1. \A q \in Attempts : q \in Procs /\ q \notin Others
    BY ProcessesDiffer DEF Procs
  <2>2. current \in Attempts /\ pc[current] \in {"idle"} \cup Ended => pc'[current] = pc[current]
    BY <1>4, <1>5, <2>1
  <2> QED BY <1>1, <1>3, <2>2 DEF AttemptInv
<1>9. AttributionIsSound'
  <2> SUFFICES ASSUME stage.status = "failed", stage.provider # NoError
      PROVE /\ current \in Recorded(file'.log) /\ error'[current] # NoError =>
                 stage.provider = error'[current]
            /\ \E q \in Procs \ snapshot.ids :
                 ReadableLine(file'.log, q) /\ kind[q].same /\ error'[q] = stage.provider
    BY <1>3 DEF AttributionIsSound
  <2>1. current \in Procs /\ current # p
    BY <1>1, <1>4 DEF AttemptInv, Procs
  <2>2. PICK q \in Procs \ snapshot.ids :
          ReadableLine(file.log, q) /\ kind[q].same /\ error[q] = stage.provider
    BY <1>1 DEF AttributionIsSound
  <2>3. q \in Recorded(file.log)
    BY <1>1, <2>2, ReadableIsRecorded DEF TypeOK
  <2>4. error'[q] = error[q]
    BY <1>1, <1>5, <1>6, <2>3 DEF LineInv, LineOf, After, Ended
  <2>5. /\ Recorded(file'.log) \subseteq Recorded(file.log) \cup {p}
        /\ ReadableLine(file'.log, q)
    <3>1. CASE file'.log = file.log
      BY <2>2, <3>1
    <3>2. HeadOf(p).part = "head" /\ TailOf(p).id = p /\ TailOf(p).part = "tail"
      BY DEF HeadOf, TailOf
    <3>3. CASE Grown(file.log, HeadOf(p), file'.log)
      BY <2>2, <3>2, <3>3, GrownLog
    <3>4. CASE Grown(file.log, TailOf(p), file'.log)
      BY <2>2, <3>2, <3>4, GrownLog
    <3> QED BY <1>1, <1>2, <3>1, <3>3, <3>4, LogSteps
  <2> QED BY <1>1, <1>5, <2>1, <2>2, <2>4, <2>5 DEF AttributionIsSound
<1>10. HistoryIsConsistent'
  BY <1>1, <1>3 DEF HistoryIsConsistent
<1> QED BY <1>2, <1>7, <1>8, <1>9, <1>10

LEMMA CommandStep ==
  ASSUME IInv, NEW p \in Procs, StartOther(p) \/ Step(p) \/ Crash(p)
  PROVE  IInv'
<1>1. Acts(p) /\ ExecutorTypes' /\ AttemptInv' /\ AttributionIsSound' /\ HistoryIsConsistent'
  BY CommandKeepsAttempt
<1>2. TypeOK /\ LockInv /\ LineInv /\ WholeInv
  BY DEF IInv, LogInv
<1>3. WriterTypes' /\ LockInv'
  BY <1>1, <1>2, WriterTypesPreserved, LockPreserved
<1>4. LineInv'
  BY <1>1, <1>2, LinesPreserved
<1>5. WholeInv'
  BY <1>1, <1>2, WholePreserved
<1> QED BY <1>1, <1>3, <1>4, <1>5, Assembled

\* The executor's own steps do not touch the log.
LEMMA LogUntouched ==
  ASSUME IInv, UNCHANGED writers
  PROVE  WriterTypes' /\ LockInv' /\ LineInv' /\ WholeInv'
<1>1. WriterTypes /\ LockInv /\ LineInv /\ WholeInv
  BY TypesJoin DEF IInv, LogInv
<1> USE DEF writers
<1>2. WriterTypes'
  BY <1>1 DEF WriterTypes
<1>3. LockInv'
  BY <1>1 DEF LockInv
<1>4. LineInv'
  BY <1>1 DEF LineInv, LineOf, HasHead
<1>5. WholeInv'
  BY <1>1 DEF WholeInv, Torn, HasHead
<1> QED BY <1>2, <1>3, <1>4, <1>5

\* HistoryIsConsistent in terms of HistoryOf.
StageHistory ==
  /\ HistoryOf(stage.history, stage.status = "succeeded")
  /\ stage.provider # NoError => stage.history.last = stage.provider

LEMMA HistoryForms ==
  ASSUME HistoryType(stage.history)
  PROVE  HistoryIsConsistent <=> StageHistory
  BY DEF HistoryIsConsistent, StageHistory, HistoryOf

LEMMA ExecutorStep ==
  ASSUME IInv, Executor
  PROVE  IInv'
<1>1. /\ TypeOK /\ LockInv /\ LineInv /\ WholeInv /\ AttemptInv /\ AttributionIsSound
      /\ HistoryIsConsistent /\ ExecutorTypes /\ StageHistory
  BY TypesJoin, HistoryForms DEF IInv, LogInv, AttemptInv
<1>7. UNCHANGED writers => WriterTypes' /\ LockInv' /\ LineInv' /\ WholeInv'
  BY LogUntouched
<1>2. ASSUME NEW p \in Attempts, BeginAttempt(p)
      PROVE  IInv'
  <2>1. /\ UNCHANGED writers /\ xpc' = "ready" /\ current' = p /\ p \in Procs /\ pc[p] = "idle"
        /\ snapshot' = BoundedEvents(file.log)
        /\ stage' = [status |-> "running", provider |-> NoError,
                     history |-> MarkRecovered(stage.history, FALSE)]
    BY <1>2 DEF BeginAttempt, Procs
  <2>2. Recorded(file.log) \subseteq Procs
    <3>1. \A i \in DOMAIN file.log : file.log[i] \in Piece
      BY <1>1, LenProperties, ElementOfSeq DEF TypeOK
    <3> QED BY <3>1 DEF Recorded, Piece
  <2>3. snapshot' \in [safe : BOOLEAN, ids : SUBSET Procs] /\ snapshot'.ids \subseteq Recorded(file.log)
    BY <2>1, <2>2 DEF BoundedEvents, Unsafe
  <2>4. p \notin Recorded(file.log)
    BY <1>1, <2>1 DEF LineInv, LineOf, After, Ended
  <2>5. stage'.history = MarkRecovered(stage.history, FALSE) /\ stage'.status = "running"
        /\ stage'.provider = NoError
    BY <2>1
  <2>6. HistoryOf(stage'.history, FALSE)
    BY <1>1, <2>5, RecoveryIsMarked DEF StageHistory
  <2>7. ExecutorTypes'
    BY <2>1, <2>3 DEF ExecutorTypes, ErrorIsValid
  <2>8. AttemptInv'
    BY <1>1, <2>1, <2>3, <2>4, <2>5, <2>6 DEF AttemptInv, writers, HistoryOf
  <2>9. AttributionIsSound' /\ HistoryIsConsistent'
    BY <2>5, <2>6 DEF AttributionIsSound, HistoryIsConsistent, HistoryOf
  <2> QED BY <2>1, <2>7, <2>8, <2>9, <1>7, Assembled
<1>3. ASSUME RunStage PROVE IInv'
  <2>1. /\ current \in Attempts /\ current \in Procs /\ stage.status = "running" /\ pc[current] = "idle"
        /\ UNCHANGED << kind, current, snapshot, stage >> /\ xpc' = "waiting"
    BY <1>1, <1>3 DEF RunStage, AttemptInv, Procs
  <2>2. Acts(current)
    BY <1>3, <2>1 DEF Acts, Begins, RunStage
  <2>3. ExecutorTypes'
    BY <1>1, <2>1 DEF ExecutorTypes
  <2>4. AttemptInv'
    BY <1>1, <2>1 DEF AttemptInv
  <2>5. AttributionIsSound' /\ HistoryIsConsistent'
    BY <1>1, <2>1 DEF AttributionIsSound, HistoryIsConsistent
  <2>6. WriterTypes' /\ LockInv'
    BY <1>1, <2>1, <2>2, WriterTypesPreserved, LockPreserved
  <2>7. LineInv'
    BY <1>1, <2>1, <2>2, LinesPreserved
  <2>8. WholeInv'
    BY <1>1, <2>1, <2>2, WholePreserved
  <2> QED BY <2>3, <2>4, <2>5, <2>6, <2>7, <2>8, Assembled
<1>4. ASSUME StageSucceeds PROVE IInv'
  <2>1. /\ UNCHANGED writers /\ UNCHANGED << current, snapshot >> /\ xpc' = "idle"
        /\ stage' = [status |-> "succeeded", provider |-> NoError,
                     history |-> MarkRecovered(stage.history, TRUE)]
    BY <1>4 DEF StageSucceeds
  <2>2. stage'.history = MarkRecovered(stage.history, TRUE) /\ stage'.status = "succeeded"
        /\ stage'.provider = NoError
    BY <2>1
  <2>3. HistoryOf(stage'.history, TRUE)
    BY <1>1, <2>2, RecoveryIsMarked DEF StageHistory
  <2>4. ExecutorTypes'
    BY <1>1, <2>1 DEF ExecutorTypes, ErrorIsValid
  <2>5. AttemptInv'
    BY <1>1, <2>1, <2>2, <2>3 DEF AttemptInv, writers, HistoryOf
  <2>6. AttributionIsSound' /\ HistoryIsConsistent'
    BY <2>2, <2>3 DEF AttributionIsSound, HistoryIsConsistent, HistoryOf
  <2> QED BY <2>1, <2>4, <2>5, <2>6, <1>7, Assembled
<1>5. ASSUME StageFails PROVE IInv'
  <2> DEFINE e == Attributed(snapshot)
  <2>1. /\ UNCHANGED writers /\ UNCHANGED << current, snapshot >> /\ xpc' = "idle"
        /\ current \in Attempts /\ current \in Procs /\ stage.status = "running" /\ stage.provider = NoError
        /\ pc[current] \in Ended /\ (pc[current] = "crashed" \/ exit[current] # 0)
    BY <1>1, <1>5 DEF StageFails, AttemptInv, Procs
  <2>2. CASE e = NoError
    <3>1. /\ stage' = [stage EXCEPT !.status = "failed"] /\ DOMAIN stage' = DOMAIN stage
          /\ stage'.status = "failed" /\ stage'.provider = NoError /\ stage'.history = stage.history
      BY <1>1, <1>5, <2>1, <2>2 DEF StageFails, ExecutorTypes
    <3>2. ExecutorTypes' /\ AttemptInv' /\ AttributionIsSound'
      BY <1>1, <2>1, <3>1 DEF ExecutorTypes, AttemptInv, AttributionIsSound, ErrorIsValid, writers
    <3>3. HistoryIsConsistent'
      BY <1>1, <2>1, <3>1 DEF HistoryIsConsistent
    <3> QED BY <2>1, <3>2, <3>3, <1>7, Assembled
  <2>3. CASE e # NoError /\ CanRecord(stage.history)
    <3>1. stage' = [status |-> "failed", provider |-> e, history |-> RecordFailure(stage.history, e)]
      BY <1>5, <2>3 DEF StageFails
    <3>2. stage'.status = "failed" /\ stage'.provider = e /\ stage'.history = RecordFailure(stage.history, e)
      BY <3>1
    <3> HIDE DEF e
    <3>3. /\ \E p \in Procs \ snapshot.ids :
                ReadableLine(file.log, p) /\ kind[p].same /\ error[p] = e
          /\ \A p \in Recorded(file.log) \ snapshot.ids :
                kind[p].same /\ exit[p] # 0 /\ error[p] # NoError => error[p] = e
      BY <1>1, <2>3, AttributedIsOwn DEF e, ExecutorTypes
    <3>4. ErrorIsValid(e) /\ ValidError(e)
      BY <1>1, <2>3, <3>3 DEF ErrorIsValid, TypeOK
    <3>5. HistoryOf(stage'.history, FALSE) /\ stage'.history.last = e
      <4>1. HistoryType(stage.history) /\ (stage.history = NoHistory \/ ValidHistory(stage.history))
        BY <1>1 DEF StageHistory, HistoryOf
      <4>2. HistoryOf(RecordFailure(stage.history, e), FALSE) /\ RecordFailure(stage.history, e).last = e
        BY <2>3, <3>4, <4>1, FailureIsRecorded
      <4> QED BY <3>2, <4>2
    <3>6. ExecutorTypes'
      BY <1>1, <2>1, <3>1, <3>4 DEF ExecutorTypes
    <3>7. AttemptInv'
      BY <1>1, <2>1, <3>2, <3>5 DEF AttemptInv, HistoryOf, writers
    <3>8. current \in Recorded(file.log) /\ error[current] # NoError => e = error[current]
      BY <1>1, <2>1, <3>3 DEF AttemptInv, LineInv, LineOf
    <3>9. AttributionIsSound'
      BY <2>1, <3>2, <3>3, <3>8 DEF AttributionIsSound, writers
    <3>10. HistoryIsConsistent'
      BY <3>2, <3>5 DEF HistoryIsConsistent, HistoryOf
    <3> QED BY <2>1, <3>6, <3>7, <3>9, <3>10, <1>7, Assembled
  <2>4. CASE e # NoError /\ ~CanRecord(stage.history)
    <3>1. stage' = stage
      BY <1>5, <2>4 DEF StageFails
    <3>2. ExecutorTypes' /\ AttemptInv' /\ AttributionIsSound' /\ HistoryIsConsistent'
      BY <1>1, <2>1, <3>1 DEF ExecutorTypes, AttemptInv, AttributionIsSound, HistoryIsConsistent, writers
    <3> QED BY <2>1, <3>2, <1>7, Assembled
  <2> QED BY <2>2, <2>3, <2>4
<1>6. ASSUME ExecutorDies PROVE IInv'
  <2>1. UNCHANGED writers /\ UNCHANGED << current, snapshot, stage >> /\ xpc' = "idle"
    BY <1>6 DEF ExecutorDies
  <2>2. ExecutorTypes' /\ AttemptInv' /\ AttributionIsSound' /\ HistoryIsConsistent'
    BY <1>1, <2>1 DEF ExecutorTypes, AttemptInv, AttributionIsSound, HistoryIsConsistent, writers
  <2> QED BY <2>1, <2>2, <1>7, Assembled
<1> QED BY <1>2, <1>3, <1>4, <1>5, <1>6 DEF Executor

LEMMA EventsStart == Init => IInv
<1> SUFFICES ASSUME Init PROVE IInv
  OBVIOUS
<1>1. /\ file = NoFile /\ file.log = << >> /\ file.exists = FALSE /\ Len(file.log) = 0
      /\ \A p \in Procs : pc[p] = "idle" /\ exit[p] = 0 /\ error[p] = NoError /\ ~existed[p] /\ ~written[p]
      /\ lock = NoProc /\ xpc = "idle" /\ current = NoProc /\ snapshot = Unsafe
      /\ stage.status = "pending" /\ stage.provider = NoError /\ stage.history = NoHistory
  BY DEF Init, NoFile
<1>2. \A p \in Procs : ~HasHead(p) /\ ~Torn(p)
  BY <1>1 DEF HasHead, Torn
<1>3. Recorded(file.log) = {}
  BY <1>1 DEF Recorded
<1>4. TypeOK
  BY <1>1 DEF Init, TypeOK, NoFile, Phases, Unsafe, ErrorIsValid
<1>5. LockInv
  BY <1>1 DEF LockInv, Inside
<1>6. LineInv
  BY <1>1, <1>2, <1>3 DEF LineInv, LineOf, After, Ended
<1>7. WholeInv
  BY <1>1, <1>2 DEF WholeInv, WholeLines
<1>8. AttemptInv
  BY <1>1, NoHistoryFacts, ProcessesDiffer DEF AttemptInv, Init, Unsafe
<1>9. AttributionIsSound /\ HistoryIsConsistent
  BY <1>1 DEF AttributionIsSound, HistoryIsConsistent
<1> QED BY <1>4, <1>5, <1>6, <1>7, <1>8, <1>9 DEF IInv, LogInv

LEMMA EventsStep == IInv /\ [Next]_vars => IInv'
<1> SUFFICES ASSUME IInv, [Next]_vars PROVE IInv'
  OBVIOUS
<1>1. CASE UNCHANGED vars
  <2>1. UNCHANGED writers /\ UNCHANGED executor
    BY <1>1 DEF vars
  <2>2. WriterTypes' /\ LockInv' /\ LineInv' /\ WholeInv'
    BY <2>1, LogUntouched
  <2>3. ExecutorTypes /\ AttemptInv /\ AttributionIsSound /\ HistoryIsConsistent
    BY TypesJoin DEF IInv, LogInv
  <2>4. ExecutorTypes' /\ AttemptInv' /\ AttributionIsSound' /\ HistoryIsConsistent'
    BY <2>1, <2>3 DEF ExecutorTypes, AttemptInv, AttributionIsSound, HistoryIsConsistent,
                      executor, writers
  <2> QED BY <2>2, <2>4, Assembled
<1>2. ASSUME NEW p \in Procs, StartOther(p) \/ Step(p) \/ Crash(p) PROVE IInv'
  BY <1>2, CommandStep
<1>3. CASE Executor
  BY <1>3, ExecutorStep
<1> QED BY <1>1, <1>2, <1>3 DEF Next

LEMMA EventsInvariant == Spec => []IInv
  BY EventsStart, EventsStep, PTL DEF Spec

-----------------------------------------------------------------------------
(* The properties of the runs. *)

\* While nobody is inside the lock and no write was cut short, the log is a
\* sequence of whole records that gra-validate accepts: the lock directory of
\* _atomic_append_jsonl, and the classifier whose errors pass their validator.
THEOREM LogStaysWhole == Spec => []LogIsWhole
<1>1. IInv => LogIsWhole
  <2> SUFFICES ASSUME IInv, \A p \in Procs : ~Torn(p) PROVE LogAccepted(file.log)
    BY DEF LogIsWhole
  <2>1. WholeLines(file.log) /\ TypeOK
    BY DEF IInv, LogInv, WholeInv
  <2>2. ASSUME NEW p \in Recorded(file.log) PROVE EventIsValid(EventOf(p))
    <3>1. p \in Procs
      <4>1. \A i \in DOMAIN file.log : file.log[i] \in Piece
        BY <2>1, LenProperties, ElementOfSeq DEF TypeOK
      <4> QED BY <2>2, <4>1 DEF Recorded, Piece
    <3>2. exit[p] \in 0..2 /\ ErrorIsValid(error[p])
      BY <2>1, <3>1 DEF TypeOK
    <3>3. /\ EventOf(p).exit = exit[p] /\ EventOf(p).status = StatusFromExit(exit[p])
          /\ EventOf(p).provider = IF exit[p] # 0 THEN error[p] ELSE NoError
      BY DEF EventOf
    <3>4. ErrorIsValid(EventOf(p).provider)
      BY <3>2, <3>3 DEF ErrorIsValid
    <3> QED BY <3>2, <3>3, <3>4 DEF EventIsValid, StatusFromExit, Statuses
  <2> QED BY <2>1, <2>2 DEF LogAccepted
<1> QED BY <1>1, EventsInvariant, PTL

\* A command that exits 0 has its record in the log in one piece, however its
\* preflight, its append and the deaths of other commands interleave with it.
THEOREM SuccessStaysRecorded == Spec => []SuccessIsRecorded
<1>1. IInv => SuccessIsRecorded
  BY DEF IInv, LogInv, LineInv, LineOf, InOnePiece, HeadOf, TailOf, SuccessIsRecorded
<1> QED BY <1>1, EventsInvariant, PTL

\* A failed stage shows the error of a readable record that appeared in the
\* attempt, and that of its own command where that one recorded an error.
THEOREM AttributionStaysSound == Spec => []AttributionIsSound
<1>1. IInv => AttributionIsSound
  BY DEF IInv
<1> QED BY <1>1, EventsInvariant, PTL

\* Over any number of attempts the failure history satisfies its own validator
\* and shows the last failure and the recovery of the stage.
THEOREM HistoryStaysConsistent == Spec => []HistoryIsConsistent
<1>1. IInv => HistoryIsConsistent
  BY DEF IInv
<1> QED BY <1>1, EventsInvariant, PTL
=============================================================================
