--------------------------- MODULE ProviderFailures ---------------------------
(* lib/provider_failures.py: the bounded, provider-neutral description of a     *)
(* failed worker call, and the history of such failures that a stage's record   *)
(* keeps.  The text of a worker's stderr is reduced to what the regular         *)
(* expressions find in it: [context, matches, delays], where delays holds the   *)
(* <<number, unit>> found by each retry-after pattern, in pattern order.        *)
EXTENDS Integers, Sequences, FiniteSets, FiniteSetsExt

CONSTANT MaxHistory      \* MAX_PROVIDER_FAILURE_HISTORY_COUNT

ASSUME HistoryBound == MaxHistory \in Nat \ {0}

\* The classes in the order in which their patterns are tried.
ClassOrder == << "rate_limit", "usage_limit", "authentication", "authorization",
                 "model_unavailable", "service_unavailable", "timeout",
                 "invalid_request", "response_contract" >>

Classes == {ClassOrder[i] : i \in DOMAIN ClassOrder} \cup {"unknown_provider_error"}

RetryableClasses == {"rate_limit", "usage_limit", "service_unavailable", "timeout",
                     "model_unavailable"}

MaxDelay == 86400        \* MAX_RETRY_AFTER_SECONDS
NoDelay == 0
Seconds == [s |-> 1, m |-> 60, h |-> 3600]

NoError == [class |-> "none", retryable |-> FALSE, delay |-> NoDelay, resume |-> FALSE]

ValidError(e) ==
  /\ e.class \in Classes
  /\ e.delay = NoDelay \/ e.delay \in 1..MaxDelay
  /\ e.retryable = (e.class \in RetryableClasses)
  /\ e.resume = e.retryable

\* Only the first pattern that matches counts; a delay out of range is dropped.
Delay(t) ==
  IF t.delays = << >> THEN NoDelay
  ELSE LET d == Head(t.delays).n * Seconds[Head(t.delays).unit]
       IN IF d \in 1..MaxDelay THEN d ELSE NoDelay

ClassOf(t) ==
  LET hits == {i \in DOMAIN ClassOrder : ClassOrder[i] \in t.matches}
  IN IF hits = {} THEN "unknown_provider_error" ELSE ClassOrder[Min(hits)]

\* classify_provider_failure: nothing without explicit provider context.
Classify(t) ==
  IF ~t.context THEN NoError
  ELSE [class |-> ClassOf(t), retryable |-> ClassOf(t) \in RetryableClasses,
        delay |-> Delay(t), resume |-> ClassOf(t) \in RetryableClasses]

NoHistory == [count |-> 0, retryable |-> 0, resume |-> 0,
              byClass |-> [c \in Classes |-> 0], last |-> NoError, recovered |-> FALSE]

\* sum(classes.values())
Total(counts) ==
  LET upto[i \in 0..Len(ClassOrder)] == IF i = 0 THEN 0 ELSE upto[i - 1] + counts[ClassOrder[i]]
  IN upto[Len(ClassOrder)] + counts["unknown_provider_error"]

ValidHistory(h) ==
  /\ h.count \in 1..MaxHistory
  /\ h.retryable \in 0..h.count
  /\ h.resume \in 0..h.count
  /\ \A c \in Classes : h.byClass[c] \in 0..MaxHistory
  /\ Total(h.byClass) = h.count
  /\ ValidError(h.last)
  /\ h.byClass[h.last.class] > 0

\* record_provider_failure raises when the history is at its limit.
CanRecord(h) == h.count < MaxHistory

One(b) == IF b THEN 1 ELSE 0

\* Mutant of RecordFailure: the class count of the last error is not raised.
RecordFailureUncounted(h, e) ==
  [h EXCEPT !.count = h.count + 1, !.retryable = h.retryable + One(e.retryable),
            !.resume = h.resume + One(e.resume), !.last = e, !.recovered = FALSE]

RecordFailure(h, e) ==
  [count |-> h.count + 1,
   retryable |-> h.retryable + One(e.retryable),
   resume |-> h.resume + One(e.resume),
   byClass |-> [h.byClass EXCEPT ![e.class] = @ + 1],
   last |-> e,
   recovered |-> FALSE]

\* mark_provider_failure_recovered leaves an absent history absent.
MarkRecovered(h, b) == IF h = NoHistory THEN h ELSE [h EXCEPT !.recovered = b]
===============================================================================
