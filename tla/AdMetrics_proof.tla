--------------------------- MODULE AdMetrics_proof ---------------------------
(***************************************************************************)
(* Proofs about the ad counts, for any ads, addresses and window.            *)
(***************************************************************************)
EXTENDS AdMetrics, TLAPS

\* What each step of the module is, for the case splits below.
LEMMA StepCases ==
  ASSUME [Next]_vars
  PROVE  \/ \E kind \in Kinds, ad \in Ads, ip \in Ips : Count(kind, ad, ip)
         \/ Tick
         \/ Snapshot \/ Truncate \/ Write \/ WriteFails
         \/ Restart
         \/ UNCHANGED vars
<1>1. "view" \in Kinds /\ "click" \in Kinds
  BY DEF Kinds
<1>2. QED
  BY <1>1 DEF Next, Download, Click

\* Saving and loading touch nothing of a window.
LEMMA SavingKeepsMetrics ==
  ASSUME Snapshot \/ Truncate \/ Write \/ WriteFails \/ UNCHANGED vars
  PROVE  metrics' = metrics
BY DEF Snapshot, Truncate, Write, WriteFails, vars

\* Counts stay numbers, in memory, in the file and in what is loaded from it.
THEOREM TypeCorrect == Spec => []TypeOK
<1>0. /\ None \in [Totals -> Nat]
      /\ 0 \in Ages /\ Window + 1 \in Ages
      /\ [k \in Keys |-> Window + 1] \in [Keys -> Ages]
  <2>1. None \in [Totals -> Nat]
    BY DEF None
  <2>2. 0 \in Ages /\ Window + 1 \in Ages
    BY AdMetricsAssumption DEF Ages
  <2>3. QED
    BY <2>1, <2>2
<1>1. Init => TypeOK
  BY <1>0 DEF Init, TypeOK
<1>2. TypeOK /\ [Next]_vars => TypeOK'
  <2> SUFFICES ASSUME TypeOK, [Next]_vars PROVE TypeOK'
    OBVIOUS
  <2>1. ASSUME NEW kind \in Kinds, NEW ad \in Ads, NEW ip \in Ips, Count(kind, ad, ip)
        PROVE  TypeOK'
    <3> DEFINE key == <<kind, ad, ip>>
    <3>1. key \in Keys /\ <<kind, ad>> \in Totals
      BY DEF Keys, Totals
    <3>2. seen' \subseteq Keys
      BY <2>1, <3>1 DEF Count, Remembered, TypeOK
    <3>3. counts' \in [Totals -> Nat]
      BY <2>1, <3>1 DEF Count, TypeOK
    <3>4. 0 \in Ages /\ last[key] \in Ages
      BY <3>1, AdMetricsAssumption DEF TypeOK, Ages
    <3>5. last' \in [Keys -> Ages] /\ prev' \in [Keys -> Ages] /\ age' \in Ages
      BY <2>1, <3>1, <3>4 DEF Count, TypeOK
    <3>6. thrice' \in BOOLEAN
      BY <2>1 DEF Count, TypeOK
    <3>7. QED
      BY <2>1, <3>2, <3>3, <3>5, <3>6 DEF Count, TypeOK, saving
  <2>2. CASE Tick
    <3>1. \A a \in Ages : Older(a) \in Ages
      BY AdMetricsAssumption DEF Ages, Older
    <3>2. QED
      BY <2>2, <3>1 DEF Tick, TypeOK, saving
  <2>3. CASE Snapshot
    BY <2>3 DEF Snapshot, TypeOK, metrics
  <2>4. CASE Truncate
    BY <2>4 DEF Truncate, TypeOK, metrics
  <2>5. CASE Write
    BY <2>5 DEF Write, TypeOK, metrics
  <2>6. CASE WriteFails
    BY <2>6 DEF WriteFails, TypeOK, metrics
  <2>7. CASE Restart
    BY <1>0, <2>7 DEF Restart, Fresh, Loaded, TypeOK
  <2>8. CASE UNCHANGED vars
    BY <2>8 DEF vars, metrics, saving, TypeOK
  <2>9. QED
    BY <2>1, <2>2, <2>3, <2>4, <2>5, <2>6, <2>7, <2>8, StepCases
<1>3. QED
  BY <1>1, <1>2, PTL DEF Spec
-----------------------------------------------------------------------------
\* What is in the window's set was counted the time before last no later than the
\* window began; what is not was counted last no later than that, and the time
\* before longer ago than a window.
Spaced ==
  \A k \in Keys :
    /\ k \in seen => prev[k] >= age
    /\ k \notin seen => prev[k] = Window + 1 /\ last[k] >= age

\* Whatever the next count finds forgotten was counted once within a window at
\* most.
LEMMA ForgottenIsOld ==
  ASSUME TypeOK, Spaced, NEW k \in Keys, k \notin Remembered
  PROVE  prev[k] = Window + 1
<1>1. prev[k] \in Ages /\ age \in Ages
  BY DEF TypeOK
<1>2. CASE Rotates
  BY <1>1, <1>2, AdMetricsAssumption DEF Spaced, Rotates, Ages
<1>3. CASE ~Rotates
  BY <1>3 DEF Spaced, Remembered
<1>4. QED
  BY <1>2, <1>3

\* A count, whether it begins a window or not, keeps the counts of a key apart.
LEMMA CountSpaces ==
  ASSUME TypeOK, Spaced, ~thrice,
         NEW kind \in Kinds, NEW ad \in Ads, NEW ip \in Ips, Count(kind, ad, ip)
  PROVE  Spaced' /\ ~thrice'
<1> DEFINE key == <<kind, ad, ip>>
<1>1. key \in Keys
  BY DEF Keys
<1>2. ~thrice'
  <2>1. CASE key \in Remembered
    BY <2>1 DEF Count
  <2>2. CASE key \notin Remembered
    <3>1. prev[key] = Window + 1
      BY <1>1, <2>2, ForgottenIsOld
    <3>2. ~(prev[key] <= Window)
      BY <3>1, AdMetricsAssumption
    <3>3. QED
      BY <3>2 DEF Count, TypeOK
  <2>3. QED
    BY <2>1, <2>2
<1>3. ASSUME NEW k \in Keys
      PROVE  /\ k \in seen' => prev'[k] >= age'
             /\ k \notin seen' => prev'[k] = Window + 1 /\ last'[k] >= age'
  <2>1. age' = (IF Rotates THEN 0 ELSE age) /\ seen' = Remembered \union {key}
    BY DEF Count
  <2>2. prev[k] \in Nat /\ last[k] \in Nat /\ age \in Nat
    BY DEF TypeOK, Ages
  <2>3. CASE k # key
    <3>1. prev'[k] = prev[k] /\ last'[k] = last[k]
      BY <2>3 DEF Count, TypeOK
    <3>2. CASE k \in Remembered
      BY <2>1, <2>2, <2>3, <3>1, <3>2 DEF Remembered, Spaced
    <3>3. CASE k \notin Remembered
      <4>1. prev[k] = Window + 1
        BY <3>3, ForgottenIsOld
      <4>2. last[k] >= age'
        BY <2>1, <2>2, <3>3 DEF Remembered, Spaced
      <4>3. QED
        BY <2>1, <2>3, <3>1, <3>3, <4>1, <4>2
    <3>4. QED
      BY <3>2, <3>3
  <2>4. CASE k = key
    <3>1. k \in seen'
      BY <2>1, <2>4
    <3>2. CASE key \in Remembered
      <4>1. prev' = prev /\ key \in seen /\ age' = age
        BY <2>1, <3>2 DEF Count, Remembered
      <4>2. QED
        BY <2>4, <3>1, <4>1 DEF Spaced
    <3>3. CASE key \notin Remembered
      <4>1. prev'[k] = last[k]
        BY <1>1, <2>4, <3>3 DEF Count, TypeOK
      <4>2. last[k] >= age'
        BY <2>1, <2>2, <2>4, <3>3 DEF Remembered, Spaced
      <4>3. QED
        BY <3>1, <4>1, <4>2
    <3>4. QED
      BY <3>2, <3>3
  <2>5. QED
    BY <2>3, <2>4
<1>4. QED
  BY <1>2, <1>3 DEF Spaced

\* No address counts more than twice for an ad within the length of a window,
\* wherever the windows begin.
THEOREM ViewsAreUnique == Spec => []OncePerWindow
<1>1. Init => Spaced /\ ~thrice
  BY AdMetricsAssumption DEF Init, Spaced
<1>2. TypeOK /\ (Spaced /\ ~thrice) /\ [Next]_vars => (Spaced /\ ~thrice)'
  <2> SUFFICES ASSUME TypeOK, Spaced, ~thrice, [Next]_vars PROVE Spaced' /\ ~thrice'
    OBVIOUS
  <2>1. ASSUME NEW kind \in Kinds, NEW ad \in Ads, NEW ip \in Ips, Count(kind, ad, ip)
        PROVE  Spaced' /\ ~thrice'
    BY <2>1, CountSpaces
  <2>2. CASE Tick
    <3>1. ASSUME NEW k \in Keys
          PROVE  /\ prev'[k] = Older(prev[k]) /\ last'[k] = Older(last[k])
                 /\ prev[k] \in Ages /\ last[k] \in Ages /\ age \in Ages
      BY <2>2 DEF Tick, TypeOK
    <3>2. \A a, b \in Ages : a >= b => Older(a) >= Older(b)
      BY AdMetricsAssumption DEF Ages, Older
    <3>3. Older(Window + 1) = Window + 1
      BY AdMetricsAssumption DEF Older
    <3>4. QED
      BY <2>2, <3>1, <3>2, <3>3 DEF Tick, Spaced
  <2>3. CASE Snapshot \/ Truncate \/ Write \/ WriteFails \/ UNCHANGED vars
    BY <2>3, SavingKeepsMetrics DEF metrics, Spaced
  <2>4. CASE Restart
    BY <2>4, AdMetricsAssumption DEF Restart, Fresh, Spaced
  <2>5. QED
    BY <2>1, <2>2, <2>3, <2>4, StepCases
<1>3. Spaced /\ ~thrice => OncePerWindow
  BY DEF OncePerWindow
<1>4. QED
  BY <1>1, <1>2, <1>3, TypeCorrect, PTL DEF Spec
-----------------------------------------------------------------------------
\* What is on disk, and what is about to be written, was counted.
DiskNeverAhead ==
  \A t \in Totals : /\ file # Damaged => file[t] <= counts[t]
                    /\ snap[t] <= counts[t]

\* A count is one view or click more, and no other changes.
LEMMA CountsGrow ==
  ASSUME TypeOK, NEW kind \in Kinds, NEW ad \in Ads, NEW ip \in Ips, Count(kind, ad, ip)
  PROVE  /\ \A t \in Totals : counts[t] <= counts'[t] /\ counts'[t] \in Nat
         /\ UNCHANGED saving
<1>1. counts \in [Totals -> Nat]
  BY DEF TypeOK
<1>2. CASE <<kind, ad, ip>> \in Remembered
  BY <1>1, <1>2 DEF Count
<1>3. CASE <<kind, ad, ip>> \notin Remembered
  <2>1. counts' = [counts EXCEPT ![<<kind, ad>>] = @ + 1]
    BY <1>3 DEF Count
  <2>2. QED
    BY <1>1, <2>1 DEF Count
<1>4. QED
  BY <1>2, <1>3 DEF Count

\* No count is ever made up or counted again from the disk: however saves fail
\* and kills fall between truncation and write, a restart loads at most what was
\* counted.
THEOREM DiskIsNeverAhead == Spec => []DiskNeverAhead
<1>1. Init => DiskNeverAhead
  BY DEF Init, DiskNeverAhead, None
<1>2. TypeOK /\ DiskNeverAhead /\ [Next]_vars => DiskNeverAhead'
  <2> SUFFICES ASSUME TypeOK, DiskNeverAhead, [Next]_vars PROVE DiskNeverAhead'
    OBVIOUS
  <2>0. /\ counts \in [Totals -> Nat] /\ snap \in [Totals -> Nat]
        /\ file # Damaged => file \in [Totals -> Nat]
    BY DEF TypeOK
  <2>1. ASSUME NEW kind \in Kinds, NEW ad \in Ads, NEW ip \in Ips, Count(kind, ad, ip)
        PROVE  DiskNeverAhead'
    <3>1. /\ \A t \in Totals : counts[t] <= counts'[t] /\ counts'[t] \in Nat
          /\ file' = file /\ snap' = snap
      BY <2>0, <2>1, CountsGrow DEF saving
    <3>2. QED
      BY <2>0, <3>1 DEF DiskNeverAhead
  <2>2. CASE Tick
    BY <2>2 DEF Tick, saving, DiskNeverAhead
  <2>3. CASE Snapshot
    BY <2>0, <2>3 DEF Snapshot, metrics, DiskNeverAhead
  <2>4. CASE Truncate
    BY <2>4 DEF Truncate, metrics, DiskNeverAhead
  <2>5. CASE Write
    BY <2>5 DEF Write, metrics, DiskNeverAhead
  <2>6. CASE WriteFails
    BY <2>6 DEF WriteFails, metrics, DiskNeverAhead
  <2>7. CASE Restart
    <3>1. /\ Loaded \in [Totals -> Nat]
          /\ counts' = Loaded /\ snap' = None /\ file' = file
          /\ file # Damaged => Loaded = file
      BY <2>0, <2>7 DEF Restart, Loaded, None
    <3>2. \A t \in Totals : None[t] = 0
      BY DEF None
    <3>3. QED
      BY <3>1, <3>2 DEF DiskNeverAhead
  <2>8. CASE UNCHANGED vars
    BY <2>8 DEF vars, metrics, saving, DiskNeverAhead
  <2>9. QED
    BY <2>1, <2>2, <2>3, <2>4, <2>5, <2>6, <2>7, <2>8, StepCases
<1>3. QED
  BY <1>1, <1>2, TypeCorrect, PTL DEF Spec
=============================================================================
