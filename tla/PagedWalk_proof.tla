--------------------------- MODULE PagedWalk_proof ---------------------------
(***************************************************************************)
(* Proofs about walking a store in pages, for any finite set of events, any  *)
(* page size, and any changes of the store meanwhile.                        *)
(***************************************************************************)
EXTENDS PagedWalk, FiniteSetTheorems, TLAPS

\* Nothing but the next page moves the cursor.
LEMMA StepCases ==
  ASSUME [Next]_vars
  PROVE  ReachLimit \/ NextPage \/ QueryFails \/ Change \/ UNCHANGED vars
BY DEF Next, Done

\* The oldest second of a non-empty page is a second of an event.
LEMMA OldestType ==
  ASSUME TypeOK, NEW ps \in SUBSET InRange, NEW s \in 0..until,
         Oldest(Counted(ps), s), ~Ends(ps, s)
  PROVE  /\ s < until /\ s \in Nat \ {0}
         /\ \E f \in ps : CreatedAt[f] = s
<1>1. s < until /\ s \in Nat
  BY DEF TypeOK, Ends
<1>2. PICK f \in Counted(ps) : CreatedAt[f] = s
  BY <1>1 DEF Oldest, TypeOK
<1>3. f \in ps /\ f \in Events
  BY <1>2 DEF Counted, InRange, TypeOK
<1>4. QED
  BY <1>1, <1>2, <1>3, PagedWalkAssumption

\* Every variable keeps its type; the cursor stays at or above zero.
THEOREM TypeCorrect == Spec => []TypeOK
<1>1. Init => TypeOK
  <2> SUFFICES ASSUME Init PROVE TypeOK
    OBVIOUS
  <2>1. until \in Nat
    BY PagedWalkAssumption DEF Init
  <2>2. matching \subseteq Events
    BY PagedWalkAssumption DEF Init
  <2>3. churn \in 0..MaxChurn
    BY PagedWalkAssumption DEF Init
  <2>4. QED
    BY <2>1, <2>2, <2>3 DEF Init, TypeOK
<1>2. TypeOK /\ [Next]_vars => TypeOK'
  <2> SUFFICES ASSUME TypeOK, [Next]_vars PROVE TypeOK'
    OBVIOUS
  <2>1. CASE ReachLimit
    BY <2>1 DEF ReachLimit, Remember, InRange, TypeOK
  <2>2. CASE NextPage
    <3>1. PICK ps \in SUBSET InRange, s \in 0..until :
            /\ Oldest(Counted(ps), s)
            /\ visited' = visited \union ps
            /\ outcome' \in {"complete", "truncated", "running"}
            /\ outcome' = "running" => ~Ends(ps, s)
            /\ until' = IF outcome' = "running" THEN Resume(s) ELSE until
            /\ cut' = cut \union (IF outcome' = "running" THEN {s} ELSE {})
      BY <2>2 DEF NextPage
    <3>2. until' \in Nat
      <4>1. CASE outcome' = "running"
        BY <3>1, <4>1, OldestType DEF Resume
      <4>2. CASE outcome' # "running"
        BY <3>1, <4>2 DEF TypeOK
      <4>3. QED
        BY <4>1, <4>2
    <3>3. visited' \subseteq Events /\ cut' \subseteq Nat
      BY <3>1 DEF InRange, TypeOK
    <3>4. crowded' \in BOOLEAN
      BY <2>2 DEF NextPage, Remember, TypeOK
    <3>5. UNCHANGED <<walk, stored, matching, churn, steady>>
      BY <2>2 DEF NextPage, Remember
    <3>6. QED
      BY <3>1, <3>2, <3>3, <3>4, <3>5 DEF TypeOK
  <2>3. CASE QueryFails
    BY <2>3 DEF QueryFails, Remember, TypeOK
  <2>4. CASE Change
    BY <2>4, PagedWalkAssumption DEF Change, TypeOK
  <2>5. CASE UNCHANGED vars
    BY <2>5 DEF vars, TypeOK
  <2>6. QED
    BY <2>1, <2>2, <2>3, <2>4, <2>5, StepCases
<1>3. QED
  BY <1>1, <1>2, PTL DEF Spec
-----------------------------------------------------------------------------
\* While backfillRefs runs, what it has visited is no older than the cursor, so
\* leaving it out of the oldest second changes nothing.
CursorBelow ==
  walk = "rebuild" /\ outcome = "running" => \A v \in visited : CreatedAt[v] >= until

\* A page that leaves out an event in range holds nothing older than it.
LEMMA LeftOutIsOldest ==
  ASSUME TypeOK, NEW ps \in SUBSET InRange, NEW s \in 0..until, IsPage(ps),
         Oldest(Counted(ps), s), ~Ends(ps, s),
         NEW e \in stored, CreatedAt[e] <= until, CreatedAt[e] > s
  PROVE  e \in ps
<1> SUFFICES ASSUME e \notin ps PROVE FALSE
  OBVIOUS
<1>1. PICK f \in ps : CreatedAt[f] = s
  BY OldestType
<1>2. e \in InRange \ ps
  BY DEF InRange
<1>3. CreatedAt[f] >= CreatedAt[e]
  BY <1>2 DEF IsPage, Newer
<1>4. CreatedAt[e] \in Nat /\ s \in Nat
  BY PagedWalkAssumption DEF TypeOK
<1>5. QED
  BY <1>1, <1>3, <1>4

\* A full page within one second needs a second as full.
LEMMA FullPageIsCrowd ==
  ASSUME TypeOK, NEW ps \in SUBSET stored, NEW s, Full(ps),
         \A f \in ps : CreatedAt[f] = s
  PROVE  \E e \in stored : Crowd(CreatedAt[e])
<1> DEFINE Second == {e \in stored : CreatedAt[e] = s}
<1>1. IsFiniteSet(Second)
  BY PagedWalkAssumption, FS_Subset DEF TypeOK
<1>2. Cardinality(ps) <= Cardinality(Second)
  BY <1>1, FS_Subset
<1>3. Cardinality(Second) \in Nat /\ Cardinality(ps) = Page
  BY <1>1, FS_CardinalityType DEF Full
<1>4. Crowd(s)
  BY <1>2, <1>3, PagedWalkAssumption DEF Crowd
<1>5. ps # {}
  BY <1>3, FS_EmptySet, PagedWalkAssumption
<1>6. QED
  BY <1>4, <1>5

\* A loop that ends at a page which left something in range out has met a second
\* with as many events as a page.
LEMMA EndsEarlyOnlyInCrowd ==
  ASSUME TypeOK, CursorBelow, outcome = "running",
         NEW ps \in SUBSET InRange, NEW s \in 0..until, IsPage(ps),
         Oldest(Counted(ps), s), Ends(ps, s), ps # InRange
  PROVE  \E e \in stored : Crowd(CreatedAt[e])
<1>1. Full(ps)
  BY DEF IsPage, Full
<1>2. ps # {}
  BY <1>1, FS_EmptySet, PagedWalkAssumption DEF Full
<1>3. s = until
  BY <1>1, <1>2 DEF Ends, TypeOK
<1>4. \A f \in ps : CreatedAt[f] \in Nat /\ CreatedAt[f] <= until
  BY PagedWalkAssumption DEF InRange, TypeOK
<1>5. ASSUME NEW f \in ps PROVE CreatedAt[f] >= until
  <2>1. CASE f \in Counted(ps)
    BY <1>3, <2>1 DEF Oldest
  <2>2. CASE f \notin Counted(ps)
    BY <2>2 DEF Counted, CursorBelow
  <2>3. QED
    BY <2>1, <2>2
<1>6. \A f \in ps : CreatedAt[f] = until
  BY <1>4, <1>5 DEF TypeOK
<1>7. ps \in SUBSET stored
  BY DEF InRange
<1>8. QED
  BY <1>1, <1>6, <1>7, FullPageIsCrowd

\* One more page leaves nothing out.
LEMMA NextPageSkipsNothing ==
  ASSUME TypeOK, NothingSkipped, CursorBelow, NextPage
  PROVE  NothingSkipped' /\ CursorBelow'
<1>1. PICK ps \in SUBSET InRange, s \in 0..until :
        /\ IsPage(ps)
        /\ Oldest(Counted(ps), s)
        /\ visited' = visited \union ps
        /\ outcome' \in {"complete", "truncated", "running"}
        /\ outcome' = "complete" <=> Ends(ps, s)
        /\ until' = IF outcome' = "running" THEN Resume(s) ELSE until
        /\ cut' = cut \union (IF outcome' = "running" THEN {s} ELSE {})
  BY DEF NextPage
<1>2. /\ outcome = "running"
      /\ crowded' = (crowded \/ \E e \in stored : Crowd(CreatedAt[e]))
      /\ UNCHANGED <<walk, stored, steady>>
  BY DEF NextPage, Remember
<1>3. ASSUME NEW e \in steady, outcome' = "complete" \/ CreatedAt[e] > until'
      PROVE  e \in visited' \/ Excused(e)'
  <2>1. e \in stored /\ CreatedAt[e] \in Nat /\ until \in Nat /\ s \in Nat
    BY PagedWalkAssumption DEF TypeOK
  <2>2. CASE CreatedAt[e] > until
    <3>1. e \in visited \/ Excused(e)
      BY <2>2 DEF NothingSkipped
    <3>2. QED
      BY <1>1, <1>2, <3>1 DEF Excused
  <2>3. CASE CreatedAt[e] <= until /\ outcome' = "complete"
    <3>1. e \in InRange
      BY <2>1, <2>3 DEF InRange
    <3>2. CASE ps = InRange
      BY <1>1, <3>1, <3>2
    <3>3. CASE ps # InRange
      <4>1. \E f \in stored : Crowd(CreatedAt[f])
        BY <1>1, <1>2, <2>3, <3>3, EndsEarlyOnlyInCrowd
      <4>2. QED
        BY <1>2, <4>1 DEF Excused
    <3>4. QED
      BY <3>2, <3>3
  <2>4. CASE CreatedAt[e] <= until /\ outcome' # "complete"
    <3>1. outcome' = "running" /\ ~Ends(ps, s) /\ until' = Resume(s)
      BY <1>1, <1>3, <2>1, <2>4
    <3>2. CASE CreatedAt[e] > s
      BY <1>1, <2>1, <2>4, <3>1, <3>2, LeftOutIsOldest
    <3>3. CASE CreatedAt[e] <= s
      <4>1. walk = "backfill" /\ CreatedAt[e] = s
        BY <1>3, <2>1, <2>4, <3>1, <3>3 DEF Resume
      <4>2. s \in cut'
        BY <1>1, <3>1
      <4>3. QED
        BY <1>2, <4>1, <4>2 DEF Excused
    <3>4. QED
      BY <2>1, <3>2, <3>3
  <2>5. QED
    BY <2>1, <2>2, <2>3, <2>4
<1>4. NothingSkipped'
  BY <1>2, <1>3 DEF NothingSkipped
<1>5. CursorBelow'
  <2> SUFFICES ASSUME walk = "rebuild", outcome' = "running", NEW v \in visited'
               PROVE  CreatedAt[v] >= until'
    BY <1>2 DEF CursorBelow
  <2>1. until' = s /\ ~Ends(ps, s)
    BY <1>1 DEF Resume
  <2>2. CASE v \in visited
    <3>1. CreatedAt[v] >= until /\ CreatedAt[v] \in Nat
      BY <1>2, <2>2, PagedWalkAssumption DEF CursorBelow, TypeOK
    <3>2. QED
      BY <2>1, <3>1 DEF TypeOK
  <2>3. CASE v \notin visited
    <3>1. v \in Counted(ps)
      BY <1>1, <2>3 DEF Counted
    <3>2. s <= CreatedAt[v] /\ CreatedAt[v] \in Nat /\ s \in Nat
      BY <1>1, <2>3, <3>1, PagedWalkAssumption DEF Oldest, TypeOK, InRange
    <3>3. QED
      BY <2>1, <3>2
  <2>4. QED
    BY <2>2, <2>3
<1>6. QED
  BY <1>4, <1>5

\* What a loop says it has walked it has walked, but for the seconds that hold as
\* many events as a page and, by backfillRelay, those a page ended in.
THEOREM WalksAreComplete == Spec => []NothingSkipped
<1>1. Init => NothingSkipped /\ CursorBelow
  BY PagedWalkAssumption DEF Init, NothingSkipped, CursorBelow
<1>2. TypeOK /\ (NothingSkipped /\ CursorBelow) /\ [Next]_vars
        => (NothingSkipped /\ CursorBelow)'
  <2> SUFFICES ASSUME TypeOK, NothingSkipped, CursorBelow, [Next]_vars
               PROVE  NothingSkipped' /\ CursorBelow'
    OBVIOUS
  <2>1. CASE ReachLimit
    BY <2>1 DEF ReachLimit, Remember, NothingSkipped, CursorBelow, Excused
  <2>2. CASE NextPage
    BY <2>2, NextPageSkipsNothing
  <2>3. CASE QueryFails
    BY <2>3 DEF QueryFails, Remember, NothingSkipped, CursorBelow, Excused
  <2>4. CASE Change
    BY <2>4 DEF Change, NothingSkipped, CursorBelow, Excused
  <2>5. CASE UNCHANGED vars
    BY <2>5 DEF vars, NothingSkipped, CursorBelow, Excused
  <2>6. QED
    BY <2>1, <2>2, <2>3, <2>4, <2>5, StepCases
<1>3. QED
  BY <1>1, <1>2, TypeCorrect, PTL DEF Spec
-----------------------------------------------------------------------------
\* The cursor only moves back, by at least a second with each page that is not
\* the last, and a walk that has ended stays ended.
PagesRunOut ==
  [][/\ until' <= until
     /\ outcome # "running" => outcome' = outcome
     /\ ReachLimit \/ NextPage \/ QueryFails =>
          outcome' # "running" \/ until' < until]_vars

\* Every walk asks for no more pages than the seconds its cursor starts at,
\* whatever is stored, removed or backdated meanwhile: what WalkEnds needs
\* beyond queries that answer.
THEOREM WalksRunOut == Spec => PagesRunOut
<1>1. ASSUME TypeOK, NextPage
      PROVE  until' <= until /\ (outcome' # "running" \/ until' < until)
  <2>1. PICK ps \in SUBSET InRange, s \in 0..until :
          /\ Oldest(Counted(ps), s)
          /\ outcome' = "running" => ~Ends(ps, s)
          /\ until' = IF outcome' = "running" THEN Resume(s) ELSE until
    BY <1>1 DEF NextPage
  <2>2. CASE outcome' = "running"
    <3>1. s < until /\ s \in Nat \ {0}
      BY <1>1, <2>1, <2>2, OldestType
    <3>2. until' \in {s, s - 1} /\ until \in Nat
      BY <1>1, <2>1, <2>2 DEF Resume, TypeOK
    <3>3. QED
      BY <3>1, <3>2
  <2>3. CASE outcome' # "running"
    BY <1>1, <2>1, <2>3 DEF TypeOK
  <2>4. QED
    BY <2>2, <2>3
<1>2. ASSUME TypeOK, ReachLimit \/ QueryFails
      PROVE  until' <= until /\ outcome = "running" /\ outcome' # "running"
  BY <1>2 DEF ReachLimit, QueryFails, TypeOK
<1>3. ASSUME TypeOK, Change \/ Done
      PROVE  until' = until /\ until' <= until /\ outcome' = outcome
  BY <1>3 DEF Change, Done, vars, TypeOK
<1>4. ASSUME TypeOK, Next
      PROVE  /\ until' <= until
             /\ outcome # "running" => outcome' = outcome
             /\ ReachLimit \/ NextPage \/ QueryFails =>
                  outcome' # "running" \/ until' < until
  <2>1. NextPage => outcome = "running"
    BY DEF NextPage
  <2>2. QED
    BY <1>1, <1>2, <1>3, <1>4, <2>1 DEF Next
<1>5. TypeOK /\ [Next]_vars =>
        [/\ until' <= until
         /\ outcome # "running" => outcome' = outcome
         /\ ReachLimit \/ NextPage \/ QueryFails =>
              outcome' # "running" \/ until' < until]_vars
  BY <1>4
<1>6. QED
  BY <1>5, TypeCorrect, PTL DEF Spec, PagesRunOut
=============================================================================
