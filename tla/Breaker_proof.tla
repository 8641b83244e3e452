--------------------------- MODULE Breaker_proof ---------------------------
(***************************************************************************)
(* Proofs about the circuit breaker for any number of callers, threshold,   *)
(* cooldown and deadlines.                                                  *)
(***************************************************************************)
EXTENDS Breaker, FiniteSetTheorems, SequenceTheorems, TLAPS

\* What record does, as three cases.
LEMMA RecordCases ==
  ASSUME TypeOK, NEW o \in Outcomes, Record(o)
  PROVE  \/ o \in Healthy /\ failures' = 0 /\ openFor' = openFor
         \/ /\ o \notin Healthy /\ failures + 1 < Threshold
            /\ failures' = failures + 1 /\ openFor' = openFor
         \/ /\ o \notin Healthy /\ failures + 1 = Threshold
            /\ failures' = 0 /\ openFor' = backoff
BY BreakerAssumption DEF Record, TypeOK

\* The window of remembered outcomes stays a window.
LEMMA Window ==
  ASSUME TypeOK, NEW o \in Outcomes, Remember(o)
  PROVE  /\ recent' \in Seq(Outcomes)
         /\ Len(recent') = IF Len(recent) < Threshold THEN Len(recent) + 1 ELSE Threshold
         /\ recent'[Len(recent')] = o
         /\ \A i \in 1 .. Len(recent') - 1 :
              recent'[i] = recent[i + Len(recent) + 1 - Len(recent')]
<1> DEFINE longer == Append(recent, o)
<1>1. recent \in Seq(Outcomes) /\ Len(recent) \in Nat /\ Len(recent) <= Threshold
      /\ Threshold \in Nat \ {0}
  BY BreakerAssumption DEF TypeOK
<1>2. /\ longer \in Seq(Outcomes) /\ Len(longer) = Len(recent) + 1
      /\ longer[Len(recent) + 1] = o
      /\ \A i \in 1 .. Len(recent) : longer[i] = recent[i]
  BY <1>1
<1>3. CASE Len(recent) < Threshold
  <2>1. recent' = longer
    BY <1>1, <1>2, <1>3 DEF Remember
  <2>2. QED
    BY <1>1, <1>2, <1>3, <2>1
<1>4. CASE Len(recent) = Threshold
  <2>1. recent' = Tail(longer)
    BY <1>1, <1>2, <1>4 DEF Remember
  <2>2. longer # <<>>
    BY <1>1, <1>2
  <2>3. /\ recent' \in Seq(Outcomes) /\ Len(recent') = Len(longer) - 1
        /\ \A i \in 1 .. Len(longer) - 1 : recent'[i] = longer[i + 1]
    BY <1>2, <2>1, <2>2, HeadTailProperties
  <2> HIDE DEF longer
  <2>4. QED
    BY <1>1, <1>2, <1>4, <2>3
<1>5. QED
  BY <1>1, <1>3, <1>4

\* Every variable keeps its type; the failure counter never reaches the
\* threshold, because reaching it opens the circuit and resets it.
THEOREM TypeCorrect == SafeSpec => []TypeOK
<1>1. Init => TypeOK
  BY BreakerAssumption DEF Init, TypeOK
<1>2. TypeOK /\ [Next]_vars => TypeOK'
  <2> SUFFICES ASSUME TypeOK, [Next]_vars PROVE TypeOK'
    OBVIOUS
  <2>1. ASSUME NEW c \in Calls, NEW t \in Timeouts, Start(c, t) PROVE TypeOK'
    BY <2>1, BreakerAssumption DEF Start, TypeOK
  <2>2. ASSUME NEW c \in Calls, NEW o \in Outcomes, Return(c, o) PROVE TypeOK'
    <3>1. failures' \in 0 .. Threshold - 1 /\ openFor' \in 0 .. backoff'
      BY <2>2, RecordCases, BreakerAssumption DEF Return, TypeOK
    <3>2. recent' \in Seq(Outcomes) /\ Len(recent') <= Threshold
      BY <2>2, Window, BreakerAssumption DEF Return, TypeOK
    <3>3. /\ running' \subseteq Calls /\ spent' \in Nat /\ outage' \in Nat
          /\ backoff' \in Backoffs
          /\ left' \in [Calls -> 0 .. MaxTimeout]
      BY <2>2, BreakerAssumption DEF Return, TypeOK
    <3>4. QED
      BY <3>1, <3>2, <3>3 DEF TypeOK
  <2>3. CASE Tick
    <3>1. left' \in [Calls -> 0 .. MaxTimeout]
      BY <2>3, BreakerAssumption DEF Tick, TypeOK
    <3>2. openFor' \in 0 .. backoff' /\ outage' \in Nat
      BY <2>3, BreakerAssumption DEF Tick, TypeOK, Open, OutageCap
    <3>3. QED
      BY <2>3, <3>1, <3>2 DEF Tick, TypeOK
  <2>4. CASE UNCHANGED vars
    BY <2>4 DEF vars, state, TypeOK
  <2>5. QED
    BY <2>1, <2>2, <2>3, <2>4 DEF Next, Refuse
<1>3. QED
  BY <1>1, <1>2, PTL DEF SafeSpec

-----------------------------------------------------------------------------
\* Each call let through has failed since, or is still running.
SpentInv ==
  /\ spent <= failures + Cardinality(running)
  /\ Open => spent = 0

LEMMA RunningCount ==
  ASSUME TypeOK
  PROVE  /\ IsFiniteSet(running)
         /\ Cardinality(running) \in Nat
         /\ Cardinality(running) <= Cardinality(Calls)
         /\ Cardinality(Calls) \in Nat
BY BreakerAssumption, FS_Subset, FS_CardinalityType DEF TypeOK

\* Until the backend shows life or the circuit opens, a backend that fails is
\* sent at most Threshold - 1 calls more than there are callers: for any number
\* of callers, whatever order their results come back in.
THEOREM BackendSpared == SafeSpec => []DeadBackendSpared
<1>1. Init => SpentInv
  BY FS_EmptySet DEF Init, SpentInv, Open
<1>2. TypeOK /\ SpentInv /\ [Next]_vars => SpentInv'
  <2> SUFFICES ASSUME TypeOK, SpentInv, [Next]_vars PROVE SpentInv'
    OBVIOUS
  <2>0. /\ IsFiniteSet(running) /\ Cardinality(running) \in Nat
        /\ failures \in Nat /\ spent \in Nat /\ openFor \in Nat
        /\ Threshold \in Nat \ {0} /\ backoff \in Nat \ {0}
    BY RunningCount, BreakerAssumption DEF TypeOK
  <2>1. ASSUME NEW c \in Calls, NEW t \in Timeouts, Start(c, t) PROVE SpentInv'
    <3>1. Cardinality(running') = Cardinality(running) + 1
      BY <2>0, <2>1, FS_AddElement DEF Start
    <3>2. QED
      BY <2>0, <2>1, <3>1 DEF Start, SpentInv, Open
  <2>2. ASSUME NEW c \in Calls, NEW o \in Outcomes, Return(c, o) PROVE SpentInv'
    <3>1. Cardinality(running') = Cardinality(running) - 1
          /\ Cardinality(running') \in Nat
      BY <2>0, <2>2, FS_RemoveElement, FS_CardinalityType DEF Return
    <3>2. \/ o \in Healthy /\ failures' = 0 /\ openFor' = openFor
          \/ /\ o \notin Healthy
             /\ failures' = failures + 1 /\ openFor' = openFor
          \/ /\ o \notin Healthy
             /\ failures' = 0 /\ openFor' = backoff
      BY <2>2, RecordCases DEF Return
    <3>3. spent' = IF o \in Healthy \/ openFor' > openFor THEN 0 ELSE spent
      BY <2>2 DEF Return
    <3>4. openFor <= backoff
      BY DEF TypeOK
    <3>5. QED
      BY <2>0, <3>1, <3>2, <3>3, <3>4 DEF SpentInv, Open
  <2>3. CASE Tick
    BY <2>0, <2>3 DEF Tick, SpentInv, Open
  <2>4. CASE UNCHANGED vars
    BY <2>4 DEF vars, state, SpentInv, Open
  <2>5. QED
    BY <2>1, <2>2, <2>3, <2>4 DEF Next, Refuse
<1>3. TypeOK /\ SpentInv => DeadBackendSpared
  BY RunningCount, BreakerAssumption DEF TypeOK, SpentInv, DeadBackendSpared
<1>4. QED
  BY <1>1, <1>2, <1>3, TypeCorrect, PTL DEF SafeSpec

-----------------------------------------------------------------------------
\* While the circuit is open every running call was let through before it
\* opened, so what is left of its deadline shrinks as the outage grows.
OutageInv ==
  /\ ~Open => outage = 0
  /\ Open => \A c \in running : outage + left[c] <= MaxTimeout
  /\ OutageBounded

\* An outage lasts at most the cooldown plus the longest deadline, however many
\* late failures prolong it.
THEOREM OutageIsBounded == SafeSpec => []OutageBounded
<1>1. Init => OutageInv
  BY DEF Init, OutageInv, Open, OutageBounded
<1>2. TypeOK /\ OutageInv /\ [Next]_vars => OutageInv'
  <2> SUFFICES ASSUME TypeOK, OutageInv, [Next]_vars PROVE OutageInv'
    OBVIOUS
  <2>0. /\ openFor \in Nat /\ openFor <= backoff /\ outage \in Nat
        /\ MaxTimeout \in Nat /\ backoff \in Nat \ {0}
        /\ \A c \in Calls : left[c] \in Nat /\ left[c] <= MaxTimeout
        /\ running \subseteq Calls /\ DOMAIN left = Calls
    BY BreakerAssumption DEF TypeOK
  <2> USE DEF OutageInv, Open, OutageBounded
  <2>1. ASSUME NEW c \in Calls, NEW t \in Timeouts, Start(c, t) PROVE OutageInv'
    BY <2>0, <2>1 DEF Start
  <2>2. ASSUME NEW c \in Calls, NEW o \in Outcomes, Return(c, o) PROVE OutageInv'
    <3>1. openFor' \in {openFor, backoff}
      BY <2>2, RecordCases DEF Return
    <3>2. /\ outage' = outage /\ backoff' = backoff
          /\ c \in running /\ running' = running \ {c}
          /\ left' = [left EXCEPT ![c] = 0]
      BY <2>2 DEF Return
    <3>3. outage <= MaxTimeout /\ \A d \in running : outage + left[d] <= MaxTimeout
      BY <2>0, <3>2
    <3>4. \A d \in running' : left'[d] = left[d]
      BY <2>0, <3>2
    <3>5. openFor' \in Nat /\ openFor' <= backoff /\ (openFor > 0 => openFor' > 0)
      BY <2>0, <3>1
    <3>6. \A d \in running' : outage + left'[d] <= MaxTimeout
      BY <3>2, <3>3, <3>4
    <3>7. openFor' > 0 => outage' + openFor' <= MaxTimeout + backoff
      <4>1. CASE openFor' = backoff
        BY <2>0, <3>2, <3>3, <4>1
      <4>2. CASE openFor' = openFor
        BY <2>0, <3>2, <4>2
      <4>3. QED
        BY <3>1, <4>1, <4>2
    <3>8. ~(openFor' > 0) => outage' = 0
      BY <2>0, <3>2, <3>5
    <3>9. QED
      BY <3>2, <3>6, <3>7, <3>8
  <2>3. CASE Tick
    <3>1. \A c \in running : left'[c] = left[c] - 1 /\ left[c] > 0
      BY <2>0, <2>3 DEF Tick
    <3>2. running' = running /\ backoff' = backoff
      BY <2>3 DEF Tick
    <3>3. CASE openFor > 1
      <4>1. openFor' = openFor - 1 /\ outage' <= outage + 1 /\ outage' \in Nat
        BY <2>0, <2>3, <3>3 DEF Tick, OutageCap
      <4>2. ASSUME NEW c \in running PROVE outage' + left'[c] <= MaxTimeout
        <5>1. left[c] \in Nat /\ outage + left[c] <= MaxTimeout /\ left'[c] = left[c] - 1
          BY <2>0, <3>1, <3>3
        <5>2. QED
          BY <2>0, <4>1, <5>1
      <4>3. openFor' > 0 /\ outage' + openFor' <= MaxTimeout + backoff
        <5>1. outage + openFor <= MaxTimeout + backoff
          BY <2>0, <3>3
        <5>2. openFor' > 0
          BY <2>0, <3>3, <4>1
        <5>3. /\ outage \in Nat /\ openFor \in Nat /\ MaxTimeout + backoff \in Nat
              /\ outage' \in Nat /\ openFor' \in Nat
          BY <2>0, <3>3, <4>1
        <5>4. outage' + openFor' <= MaxTimeout + backoff
          BY <4>1, <5>1, <5>3
        <5>5. QED
          BY <5>2, <5>4
      <4>4. QED
        BY <3>2, <4>2, <4>3
    <3>4. CASE openFor <= 1
      <4>1. openFor' = 0 /\ outage' = 0
        BY <2>0, <2>3, <3>4 DEF Tick
      <4>2. QED
        BY <4>1
    <3>5. QED
      BY <2>0, <3>3, <3>4
  <2>4. CASE UNCHANGED vars
    BY <2>4 DEF vars, state
  <2>5. QED
    BY <2>1, <2>2, <2>3, <2>4 DEF Next, Refuse
<1>3. QED
  BY <1>1, <1>2, TypeCorrect, PTL DEF SafeSpec, OutageInv

-----------------------------------------------------------------------------
\* The counter counts the unhealthy outcomes at the end of the record.
CountInv ==
  /\ failures <= Len(recent)
  /\ \A i \in 1 .. Len(recent) : i > Len(recent) - failures => recent[i] \notin Healthy

\* The circuit opens only on Threshold failures in a row.
THEOREM ConsecutiveOnly == SafeSpec => OpensOnlyOnConsecutiveFailures
<1>1. Init => CountInv
  BY DEF Init, CountInv
<1>2. ASSUME TypeOK, CountInv, NEW c \in Calls, NEW o \in Outcomes, Return(c, o)
      PROVE  /\ CountInv'
             /\ openFor' > openFor =>
                  /\ Len(recent') = Threshold
                  /\ \A i \in 1 .. Threshold : recent'[i] \notin Healthy
  <2>1. /\ recent' \in Seq(Outcomes)
        /\ Len(recent') = IF Len(recent) < Threshold THEN Len(recent) + 1 ELSE Threshold
        /\ recent'[Len(recent')] = o
        /\ \A i \in 1 .. Len(recent') - 1 :
             recent'[i] = recent[i + Len(recent) + 1 - Len(recent')]
    BY <1>2, Window DEF Return
  <2>2. /\ Len(recent) \in Nat /\ Len(recent) <= Threshold /\ Len(recent') \in Nat
        /\ Threshold \in Nat \ {0} /\ failures \in Nat /\ failures <= Threshold - 1
        /\ openFor \in Nat
    BY <1>2, <2>1, BreakerAssumption DEF TypeOK
  <2>3. \/ o \in Healthy /\ failures' = 0 /\ openFor' = openFor
        \/ /\ o \notin Healthy /\ failures + 1 < Threshold
           /\ failures' = failures + 1 /\ openFor' = openFor
        \/ /\ o \notin Healthy /\ failures + 1 = Threshold
           /\ failures' = 0 /\ openFor' = backoff
    BY <1>2, RecordCases DEF Return
  <2>4. ASSUME o \notin Healthy, NEW i \in 1 .. Len(recent'),
               i > Len(recent') - (failures + 1)
        PROVE  recent'[i] \notin Healthy
    <3>1. CASE i = Len(recent')
      BY <2>1, <2>4, <3>1
    <3>2. CASE i # Len(recent')
      <4>0. PICK n \in Nat, m \in Nat : n = Len(recent) /\ m = Len(recent')
        BY <2>2
      <4> DEFINE j == i + n + 1 - m
      <4>1. i \in 1 .. m - 1 /\ recent'[i] = recent[j]
        <5>1. i \in 1 .. m - 1
          BY <2>4, <3>2, <4>0
        <5>2. QED
          BY <2>1, <4>0, <5>1
      <4>2. j \in 1 .. n /\ j > n - failures
        <5>1. m = IF n < Threshold THEN n + 1 ELSE Threshold
          BY <2>1, <4>0
        <5>2. i > m - (failures + 1) /\ n <= Threshold
          BY <2>2, <2>4, <4>0
        <5>3. QED
          BY <2>2, <4>1, <5>1, <5>2
      <4>3. recent[j] \notin Healthy
        BY <1>2, <4>0, <4>2 DEF CountInv
      <4>4. QED
        BY <4>1, <4>3
    <3>3. QED
      BY <3>1, <3>2
  <2>5. failures + 1 <= Len(recent')
    BY <1>2, <2>1, <2>2 DEF CountInv
  <2>6. CountInv'
    BY <2>2, <2>3, <2>4, <2>5 DEF CountInv
  <2>7. openFor' > openFor => o \notin Healthy /\ failures + 1 = Threshold
    BY <2>2, <2>3
  <2>8. QED
    BY <2>1, <2>2, <2>4, <2>5, <2>6, <2>7
<1>3. ASSUME TypeOK, CountInv,
             \/ \E c \in Calls, t \in Timeouts : Start(c, t)
             \/ \E c \in Calls : Refuse(c)
             \/ Tick
             \/ UNCHANGED vars
      PROVE  CountInv' /\ ~(openFor' > openFor)
  <2>1. openFor \in Nat /\ UNCHANGED <<failures, recent>>
    BY <1>3 DEF TypeOK, Start, Refuse, Tick, vars, state
  <2>2. openFor' = openFor \/ (openFor' = openFor - 1 /\ openFor > 0) \/ openFor' = 0
    BY <1>3 DEF Start, Refuse, Tick, vars, state, Open
  <2>3. QED
    BY <1>3, <2>1, <2>2 DEF CountInv
<1>4. TypeOK /\ CountInv /\ [Next]_vars =>
        /\ CountInv'
        /\ [openFor' > openFor =>
              /\ Len(recent') = Threshold
              /\ \A i \in 1 .. Threshold : recent'[i] \notin Healthy]_vars
  BY <1>2, <1>3 DEF Next
<1>5. QED
  BY <1>1, <1>4, TypeCorrect, PTL DEF SafeSpec, OpensOnlyOnConsecutiveFailures
\* What the finding of OpensOnlyOnBackendFailure comes to: the circuit opens
\* without a failure of the backend only if each of the last Threshold outcomes
\* was a client hanging up.  A single failure, or a single healthy answer, among
\* them and the circuit opens on the backend's account or not at all.
OnlyHangUpsMislead ==
  [][openFor' > openFor =>
       \/ \E i \in 1 .. Len(recent') : recent'[i] \in Broken
       \/ /\ Len(recent') = Threshold
          /\ \A i \in 1 .. Threshold : recent'[i] = "canceled"]_vars

\* For any threshold and any number of callers, Threshold cancellations in a row
\* are the only way to open the circuit of a backend that did not fail.
THEOREM HangUpsAlone == SafeSpec => OnlyHangUpsMislead
<1>1. TypeOK' /\ [openFor' > openFor =>
                    /\ Len(recent') = Threshold
                    /\ \A i \in 1 .. Threshold : recent'[i] \notin Healthy]_vars
        => [openFor' > openFor =>
              \/ \E i \in 1 .. Len(recent') : recent'[i] \in Broken
              \/ /\ Len(recent') = Threshold
                 /\ \A i \in 1 .. Threshold : recent'[i] = "canceled"]_vars
  <2> SUFFICES ASSUME TypeOK', openFor' > openFor, Len(recent') = Threshold,
                      \A i \in 1 .. Threshold : recent'[i] \notin Healthy,
                      \A i \in 1 .. Len(recent') : recent'[i] \notin Broken,
                      NEW i \in 1 .. Threshold
               PROVE  recent'[i] = "canceled"
    OBVIOUS
  <2>1. recent'[i] \in Outcomes
    BY DEF TypeOK
  <2>2. QED
    BY <2>1 DEF Outcomes
<1>2. QED
  BY <1>1, TypeCorrect, ConsecutiveOnly, PTL
     DEF OpensOnlyOnConsecutiveFailures, OnlyHangUpsMislead
=============================================================================
