------------------------------ MODULE Breaker ------------------------------
(***************************************************************************)
(* The circuit breaker around the S3 backend (internal/storage/breaker.go). *)
(* guard looks at openUntil under the mutex, runs the backend call without  *)
(* it, and records the outcome under it again, so calls that were let       *)
(* through before the circuit opened report while it is open.              *)
(*                                                                         *)
(* Time is counted in ticks and kept relative: openUntil is the number of   *)
(* ticks the circuit stays open, and a running call carries the ticks left  *)
(* until its context expires.  The history variables at the end are not    *)
(* part of the code; properties read them, no action is guarded by them.   *)
(***************************************************************************)
EXTENDS Integers, FiniteSets, Sequences

CONSTANTS Calls,       \* concurrent callers of guard
          Threshold,   \* breakerThreshold
          Backoffs,    \* values of breakerBackoff
          Timeouts,    \* breakerOpTimeout and breakerWriteTimeout
          MaxTimeout   \* the longest of them

ASSUME BreakerAssumption ==
  /\ IsFiniteSet(Calls)
  /\ Threshold \in Nat \ {0}
  /\ Backoffs \subseteq Nat \ {0}
  /\ MaxTimeout \in Nat
  /\ Timeouts \subseteq 1 .. MaxTimeout

VARIABLES
  backoff,    \* b.backoff, set by newBreaker
  failures,   \* b.failures
  openFor,    \* ticks until openUntil, 0 when the circuit is closed
  running,    \* calls inside fn
  left,       \* ticks until a running call's context expires
  (* history *)
  recent,     \* the last Threshold outcomes recorded
  spent,      \* calls let through since the last opening or healthy answer
  outage      \* ticks the circuit has been open without a break, up to a cap

state == <<backoff, failures, openFor, running, left>>
vars == <<state, recent, spent, outage>>

\* What fn returns: success, ErrNotFound, an error of the backend, the call's
\* own deadline, or the cancellation of the caller's context.
Healthy == {"ok", "notFound"}
Broken  == {"error", "timeout"}
Outcomes == Healthy \union Broken \union {"canceled"}

Open == openFor > 0

OutageCap == MaxTimeout + backoff + 1

Init ==
  /\ backoff \in Backoffs
  /\ failures = 0
  /\ openFor = 0
  /\ running = {}
  /\ left = [c \in Calls |-> 0]
  /\ recent = <<>>
  /\ spent = 0
  /\ outage = 0

Remember(o) ==
  recent' = LET longer == Append(recent, o)
            IN  IF Len(longer) > Threshold THEN Tail(longer) ELSE longer

RecordForgivingNothing(o) ==   \* mutant of Record
  IF o \in Healthy
  THEN UNCHANGED <<failures, openFor>>
  ELSE IF failures + 1 >= Threshold
       THEN failures' = 0 /\ openFor' = backoff
       ELSE failures' = failures + 1 /\ UNCHANGED openFor

RecordOneTooMany(o) ==   \* mutant of Record
  IF o \in Healthy
  THEN failures' = 0 /\ UNCHANGED openFor
  ELSE IF failures + 1 > Threshold
       THEN failures' = 0 /\ openFor' = backoff
       ELSE failures' = failures + 1 /\ UNCHANGED openFor

RecordExtending(o) ==   \* mutant of Record
  IF o \in Healthy
  THEN failures' = 0 /\ UNCHANGED openFor
  ELSE IF failures + 1 >= Threshold
       THEN failures' = 0 /\ openFor' = openFor + backoff
       ELSE failures' = failures + 1 /\ UNCHANGED openFor

\* record(err)
Record(o) ==
  IF o \in Healthy
  THEN failures' = 0 /\ UNCHANGED openFor
  ELSE IF failures + 1 >= Threshold
       THEN failures' = 0 /\ openFor' = backoff
       ELSE failures' = failures + 1 /\ UNCHANGED openFor

\* guard, first half, with the circuit closed.
Start(c, timeout) ==
  /\ c \notin running
  /\ ~Open
  /\ running' = running \union {c}
  /\ left' = [left EXCEPT ![c] = timeout]
  /\ spent' = spent + 1
  /\ UNCHANGED <<backoff, failures, openFor, recent, outage>>

RefusalRecorded(c) ==   \* mutant of Refuse
  /\ c \notin running
  /\ Open
  /\ Record("error")
  /\ UNCHANGED <<backoff, running, left, recent, spent, outage>>

\* guard, first half, with the circuit open: ErrCircuitOpen, nothing recorded.
Refuse(c) ==
  /\ c \notin running
  /\ Open
  /\ UNCHANGED vars

\* guard, second half: fn is back and its outcome is recorded.
Return(c, o) ==
  /\ c \in running
  /\ o = "timeout" => left[c] = 0
  /\ Record(o)
  /\ running' = running \ {c}
  /\ left' = [left EXCEPT ![c] = 0]
  /\ Remember(o)
  /\ spent' = IF o \in Healthy \/ openFor' > openFor THEN 0 ELSE spent
  /\ UNCHANGED <<backoff, outage>>

\* A tick passes, unless a context has expired whose call is not back.
Tick ==
  /\ \A c \in running : left[c] > 0
  /\ left' = [c \in Calls |-> IF c \in running THEN left[c] - 1 ELSE left[c]]
  /\ openFor' = IF Open THEN openFor - 1 ELSE 0
  /\ outage' = IF openFor <= 1 THEN 0
               ELSE IF outage < OutageCap THEN outage + 1 ELSE outage
  /\ UNCHANGED <<backoff, failures, running, recent, spent>>

Next ==
  \/ \E c \in Calls, t \in Timeouts : Start(c, t)
  \/ \E c \in Calls : Refuse(c)
  \/ \E c \in Calls, o \in Outcomes : Return(c, o)
  \/ Tick

SafeSpec == Init /\ [][Next]_vars

\* Time passes, and a call whose context has expired returns.
Spec == /\ SafeSpec
        /\ WF_vars(Tick)
        /\ \A c \in Calls : WF_vars(left[c] = 0 /\ \E o \in Outcomes : Return(c, o))
-----------------------------------------------------------------------------
TypeOK ==
  /\ failures \in 0 .. Threshold - 1
  /\ backoff \in Backoffs
  /\ openFor \in 0 .. backoff
  /\ running \subseteq Calls
  /\ left \in [Calls -> 0 .. MaxTimeout]
  /\ recent \in Seq(Outcomes) /\ Len(recent) <= Threshold
  /\ spent \in Nat
  /\ outage \in Nat

\* "After too many consecutive failures the circuit opens" (breaker.go:11):
\* never on fewer than Threshold failures in a row, whatever healthy answers
\* and 404s other calls report in between.
OpensOnlyOnConsecutiveFailures ==
  [][openFor' > openFor =>
       /\ Len(recent') = Threshold
       /\ \A i \in 1 .. Threshold : recent'[i] \notin Healthy]_vars

\* "instead of hammering a dead endpoint and stacking up slow timeouts"
\* (breaker.go:12): between two signs of life, and since the circuit last
\* opened, an unhealthy backend is sent at most Threshold - 1 calls more than
\* can be under way at once.
DeadBackendSpared == spent <= Threshold - 1 + Cardinality(Calls)

\* "all ops fail fast for a cooldown" (breaker.go:11), and no longer: failures
\* that arrive late from calls let through before can prolong an outage only
\* by as long as such calls may run, however many callers keep trying.
OutageBounded == Open => outage + openFor <= MaxTimeout + backoff

\* The backend is tried again and again, however long it stays dead.
ProbesAgain == []<>~Open

\* The circuit opens only on a presumption about the backend ("backend presumed
\* down", breaker.go:16): at least one of the calls counted against it was
\* given up by the backend or the deadline, and not by the client.
OpensOnlyOnBackendFailure ==
  [][openFor' > openFor => \E i \in 1 .. Len(recent') : recent'[i] \in Broken]_vars
=============================================================================
