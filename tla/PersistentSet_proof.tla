------------------------ MODULE PersistentSet_proof ------------------------
(***************************************************************************)
(* Proofs about the registries' files, for any number of editors, any       *)
(* finite set of entries, with or without crashes and full disks.           *)
(***************************************************************************)
EXTENDS PersistentSet, FiniteSetTheorems, TLAPS

\* The map is finite, so a snapshot has a size.
LEMMA SizeType ==
  ASSUME NEW s \in SUBSET Entries
  PROVE  Size(s) \in Nat
BY PersistentAssumption, FS_Subset, FS_CardinalityType DEF Size

\* An edit as Next makes it: a reset empties the map, and the inventory has
\* edits of its own.
PlainEdit(p, new, label) ==
  /\ Edit(p, new, label)
  /\ kind # "inventory"
  /\ label = "snapshot" \/ (label = "lockReset" /\ new = {})

\* What each step of the module is, for the case splits below.
LEMMA StepCases ==
  ASSUME TypeOK, [Next]_vars
  PROVE  \/ \E p \in Procs, new \in SUBSET Entries, label \in {"snapshot", "lockReset"} :
              PlainEdit(p, new, label)
         \/ \E p \in Procs, e \in Entries : PutInventory(p, e)
         \/ \E p \in Procs : \/ KeepInventory(p) \/ Snapshot(p) \/ LockSaveMu(p)
                             \/ Truncate(p) \/ Write(p) \/ Unlink(p) \/ WriteFails(p)
         \/ Restart
         \/ UNCHANGED vars
<1>1. ASSUME NEW p \in Procs, NEW e \in Entries,
             Add(p, e) \/ Remove(p, e) \/ SetCaps(p, e)
      PROVE  \E new \in SUBSET Entries : PlainEdit(p, new, "snapshot")
  BY <1>1 DEF Add, Remove, SetCaps, Change, PlainEdit, TypeOK
<1>2. ASSUME NEW p \in Procs, ResetCaps(p)
      PROVE  PlainEdit(p, {}, "lockReset")
  BY <1>2 DEF ResetCaps, PlainEdit
<1>3. CASE \E p \in Procs : Step(p)
  BY <1>3 DEF Step
<1>4. QED
  BY <1>1, <1>2, <1>3 DEF Next

\* Every variable keeps its type, the loaded registry included.
THEOREM TypeCorrect == Spec => []TypeOK
<1>1. Init => TypeOK
  BY DEF Init, TypeOK
<1>2. TypeOK /\ [Next]_vars => TypeOK'
  <2> SUFFICES ASSUME TypeOK, [Next]_vars PROVE TypeOK'
    OBVIOUS
  <2>1. ASSUME NEW p \in Procs, NEW new \in SUBSET Entries,
               NEW label \in {"snapshot", "lockReset"}, PlainEdit(p, new, label)
        PROVE  TypeOK'
    BY <2>1 DEF TypeOK, PlainEdit, Edit, GoTo, Alone, file
  <2>2. ASSUME NEW p \in Procs, NEW e \in Entries, PutInventory(p, e) PROVE TypeOK'
    BY <2>2 DEF TypeOK, PutInventory, GoTo, Alone, file
  <2>3. ASSUME NEW p \in Procs, KeepInventory(p) PROVE TypeOK'
    BY <2>3 DEF TypeOK, KeepInventory, GoTo, file
  <2>4. ASSUME NEW p \in Procs, Snapshot(p) PROVE TypeOK'
    BY <2>4 DEF TypeOK, Snapshot, GoTo, file
  <2>5. ASSUME NEW p \in Procs, LockSaveMu(p) PROVE TypeOK'
    BY <2>5 DEF TypeOK, LockSaveMu, GoTo, file
  <2>6. ASSUME NEW p \in Procs, Truncate(p) PROVE TypeOK'
    BY <2>6 DEF TypeOK, Truncate, GoTo
  <2>7. ASSUME NEW p \in Procs, Write(p) PROVE TypeOK'
    <3>1. snap[p] \in SUBSET Entries /\ Size(snap[p]) \in Nat
      BY SizeType DEF TypeOK
    <3>2. QED
      BY <2>7, <3>1 DEF TypeOK, Write, Return, GoTo
  <2>8. ASSUME NEW p \in Procs, Unlink(p) PROVE TypeOK'
    BY <2>8 DEF TypeOK, Unlink, Return, GoTo
  <2>9. ASSUME NEW p \in Procs, WriteFails(p) PROVE TypeOK'
    BY <2>9 DEF TypeOK, WriteFails, Return, GoTo, file
  <2>10. CASE Restart
    BY <2>10 DEF TypeOK, Restart, Restored, Loaded, Quiet, file
  <2>11. CASE UNCHANGED vars
    BY <2>11 DEF TypeOK, vars, file
  <2>12. QED
    BY <2>1, <2>2, <2>3, <2>4, <2>5, <2>6, <2>7, <2>8, <2>9, <2>10, <2>11, StepCases
<1>3. QED
  BY <1>1, <1>2, PTL DEF Spec
-----------------------------------------------------------------------------
\* With a save mutex, whoever is between the lock and the return holds it, and
\* the file is empty between its truncation and its write.  The inventory, which
\* has none, is alone in being published.
Exclusive ==
  \A p \in Procs :
    /\ pc[p] = "publish" => kind = "inventory"
    /\ Guarded /\ pc[p] \in {"truncate", "write", "unlink"} => saveMu = p
    /\ Guarded /\ pc[p] = "write" => content = "empty" /\ length = 0

Unmixed == content # "mixed" \/ ~Guarded

\* The holder of the mutex is the only one about to write.
LEMMA ExclusiveSteps ==
  ASSUME TypeOK, Exclusive, Unmixed, [Next]_vars
  PROVE  Exclusive' /\ Unmixed'
<1>1. ASSUME NEW p \in Procs, NEW new \in SUBSET Entries,
             NEW label \in {"snapshot", "lockReset"}, PlainEdit(p, new, label)
      PROVE  Exclusive' /\ Unmixed'
  BY <1>1 DEF TypeOK, Exclusive, Unmixed, Guarded, PlainEdit, Edit, GoTo, file
<1>2. ASSUME NEW p \in Procs, NEW e \in Entries, PutInventory(p, e)
      PROVE  Exclusive' /\ Unmixed'
  BY <1>2 DEF TypeOK, Exclusive, Unmixed, Guarded, PutInventory, GoTo, file
<1>3. ASSUME NEW p \in Procs, KeepInventory(p)
      PROVE  Exclusive' /\ Unmixed'
  BY <1>3 DEF TypeOK, Exclusive, Unmixed, Guarded, KeepInventory, GoTo, file
<1>4. ASSUME NEW p \in Procs, Snapshot(p)
      PROVE  Exclusive' /\ Unmixed'
  BY <1>4 DEF TypeOK, Exclusive, Unmixed, Guarded, Snapshot, GoTo, file
<1>5. ASSUME NEW p \in Procs, LockSaveMu(p)
      PROVE  Exclusive' /\ Unmixed'
  BY <1>5, PersistentAssumption
     DEF TypeOK, Exclusive, Unmixed, Guarded, LockSaveMu, MayWrite, GoTo, file
<1>6. ASSUME NEW p \in Procs, Truncate(p)
      PROVE  Exclusive' /\ Unmixed'
  BY <1>6 DEF TypeOK, Exclusive, Unmixed, Guarded, Truncate, GoTo
<1>7. ASSUME NEW p \in Procs, Write(p)
      PROVE  Exclusive' /\ Unmixed'
  <2>1. Size(snap[p]) \in Nat
    BY SizeType DEF TypeOK
  <2>2. Guarded => Size(snap[p]) >= length
    BY <1>7, <2>1 DEF Exclusive, Write
  <2>3. Unmixed'
    BY <1>7, <2>2 DEF Write, Unmixed, Guarded
  <2>4. Exclusive'
    BY <1>7 DEF TypeOK, Exclusive, Guarded, Write, Return, GoTo
  <2>5. QED
    BY <2>3, <2>4
<1>8. ASSUME NEW p \in Procs, Unlink(p)
      PROVE  Exclusive' /\ Unmixed'
  BY <1>8 DEF TypeOK, Exclusive, Unmixed, Guarded, Unlink, Return, GoTo
<1>9. ASSUME NEW p \in Procs, WriteFails(p)
      PROVE  Exclusive' /\ Unmixed'
  BY <1>9 DEF TypeOK, Exclusive, Unmixed, Guarded, WriteFails, Return, GoTo, file
<1>10. CASE Restart
  BY <1>10 DEF TypeOK, Exclusive, Unmixed, Guarded, Restart, file
<1>11. CASE UNCHANGED vars
  BY <1>11 DEF Exclusive, Unmixed, Guarded, vars, file
<1>12. QED
  BY <1>1, <1>2, <1>3, <1>4, <1>5, <1>6, <1>7, <1>8, <1>9, <1>10, <1>11, StepCases

\* A registry with a save mutex never leaves a file that mixes two snapshots,
\* whatever saves, resets, failures and crashes meet.
THEOREM FilesAreWhole == Spec => []NeverInterleaved
<1> DEFINE IInv == Exclusive /\ Unmixed
<1>1. Init => IInv
  BY DEF Init, Exclusive, Unmixed
<1>2. TypeOK /\ IInv /\ [Next]_vars => IInv'
  BY ExclusiveSteps
<1>3. IInv => NeverInterleaved
  BY DEF NeverInterleaved, Unmixed
<1>4. QED
  BY <1>1, <1>2, <1>3, TypeCorrect, PTL DEF Spec
-----------------------------------------------------------------------------
\* While the last edit is on its own nobody else is active; what it is about to
\* write is the registry, nothing is in the file once it has been truncated,
\* and once it is done the file holds the registry.
SoloRuns ==
  solo =>
    /\ \A p, q \in Procs : pc[p] # "idle" /\ pc[q] # "idle" => p = q
    /\ Quiet => Loaded = set
    /\ \A p \in Procs :
         /\ pc[p] \in {"lock", "truncate", "write"} => snap[p] = set
         /\ pc[p] \in {"lockReset", "unlink"} => set = {}
         /\ pc[p] = "write" => length = 0

\* The event store has the inventory before it is published, the memory and the
\* file have it after.
SoloServes ==
  solo /\ kind = "inventory" =>
    /\ Quiet => served = set
    /\ \A p \in Procs : /\ pc[p] = "publish" => snap[p] = served
                        /\ pc[p] \notin {"idle", "publish"} => served = set

\* An edit on its own stays on its own to its end, and reaches the file.
LEMMA SoloSteps ==
  ASSUME TypeOK, SoloRuns, SoloServes, [Next]_vars
  PROVE  SoloRuns' /\ SoloServes'
<1> SUFFICES ASSUME solo' PROVE SoloRuns' /\ SoloServes'
  BY DEF SoloRuns, SoloServes
<1>1. ASSUME NEW p \in Procs, NEW new \in SUBSET Entries,
             NEW label \in {"snapshot", "lockReset"}, PlainEdit(p, new, label)
      PROVE  SoloRuns' /\ SoloServes'
  <2>1. SoloRuns'
    BY <1>1 DEF TypeOK, SoloRuns, PlainEdit, Edit, GoTo, Alone, Quiet
  <2>2. SoloServes'
    BY <1>1 DEF SoloServes, PlainEdit, Edit
  <2>3. QED
    BY <2>1, <2>2
<1>2. ASSUME NEW p \in Procs, NEW e \in Entries, PutInventory(p, e)
      PROVE  SoloRuns' /\ SoloServes'
  BY <1>2 DEF TypeOK, SoloRuns, SoloServes, PutInventory, GoTo, Alone, Quiet
<1>3. ASSUME NEW p \in Procs, KeepInventory(p)
      PROVE  SoloRuns' /\ SoloServes'
  BY <1>3 DEF TypeOK, SoloRuns, SoloServes, KeepInventory, GoTo, Quiet
<1>4. ASSUME NEW p \in Procs, Snapshot(p)
      PROVE  SoloRuns' /\ SoloServes'
  BY <1>4 DEF TypeOK, SoloRuns, SoloServes, Snapshot, GoTo, Quiet
<1>5. ASSUME NEW p \in Procs, LockSaveMu(p)
      PROVE  SoloRuns' /\ SoloServes'
  BY <1>5 DEF TypeOK, SoloRuns, SoloServes, LockSaveMu, GoTo, Quiet
<1>6. ASSUME NEW p \in Procs, Truncate(p)
      PROVE  SoloRuns' /\ SoloServes'
  BY <1>6 DEF TypeOK, SoloRuns, SoloServes, Truncate, GoTo, Quiet
<1>7. ASSUME NEW p \in Procs, Write(p)
      PROVE  SoloRuns' /\ SoloServes'
  <2>1. Size(snap[p]) \in Nat
    BY SizeType DEF TypeOK
  <2>2. solo /\ set' = set /\ snap[p] = set /\ Size(snap[p]) >= length
    BY <1>7, <2>1 DEF SoloRuns, Write
  <2>3. content' = "whole" /\ written' = set'
    BY <1>7, <2>2 DEF Write
  <2>4. \A q \in Procs : pc'[q] = "idle"
    BY <1>7, <2>2 DEF TypeOK, SoloRuns, Write, Return, GoTo
  <2>5. kind' = "inventory" => served' = set'
    BY <1>7, <2>2 DEF SoloServes, Write
  <2>6. QED
    BY <2>3, <2>4, <2>5 DEF SoloRuns, SoloServes, Loaded
<1>8. ASSUME NEW p \in Procs, Unlink(p)
      PROVE  SoloRuns' /\ SoloServes'
  <2>1. solo /\ set' = set /\ set = {}
    BY <1>8 DEF SoloRuns, Unlink
  <2>2. \A q \in Procs : pc'[q] = "idle"
    BY <1>8, <2>1 DEF TypeOK, SoloRuns, Unlink, Return, GoTo
  <2>3. kind' = "inventory" => served' = set'
    BY <1>8, <2>1 DEF SoloServes, Unlink
  <2>4. QED
    BY <1>8, <2>1, <2>2, <2>3 DEF SoloRuns, SoloServes, Unlink, Loaded
<1>9. ASSUME NEW p \in Procs, WriteFails(p)
      PROVE  SoloRuns' /\ SoloServes'
  BY <1>9 DEF WriteFails
<1>10. CASE Restart
  <2>1. SoloRuns'
    BY <1>10 DEF SoloRuns, Restart, Quiet, Loaded, file
  <2>2. CASE kind = "inventory"
    <3>1. served = set /\ Loaded = set /\ set' = set
      BY <1>10, <2>2 DEF Restart, SoloRuns, SoloServes
    <3>2. served' = set
      BY <1>10, <2>2, <3>1 DEF Restart, Restored
    <3>3. QED
      BY <1>10, <2>1, <3>1, <3>2 DEF Restart, SoloServes
  <2>3. CASE kind # "inventory"
    BY <1>10, <2>1, <2>3 DEF Restart, SoloServes
  <2>4. QED
    BY <2>2, <2>3
<1>11. CASE UNCHANGED vars
  BY <1>11 DEF SoloRuns, SoloServes, Quiet, Loaded, vars, file
<1>12. QED
  BY <1>1, <1>2, <1>3, <1>4, <1>5, <1>6, <1>7, <1>8, <1>9, <1>10, <1>11, StepCases

\* What holds of solo edits holds in every reachable state.
LEMMA SoloAlways == Spec => [](SoloRuns /\ SoloServes)
<1>1. Init => SoloRuns /\ SoloServes
  BY DEF Init, SoloRuns, SoloServes, Quiet, Loaded
<1>2. TypeOK /\ (SoloRuns /\ SoloServes) /\ [Next]_vars => (SoloRuns /\ SoloServes)'
  BY SoloSteps
<1>3. QED
  BY <1>1, <1>2, TypeCorrect, PTL DEF Spec

\* An edit whose save overlaps no other and does not fail survives a restart.
THEOREM SoloEditsAreDurable == Spec => []SoloEditsStick
<1>1. SoloRuns => SoloEditsStick
  BY DEF SoloRuns, SoloEditsStick
<1>2. QED
  BY <1>1, SoloAlways, PTL

\* The ad inventory that clients are served is the one the admin is shown, also
\* after restarts that lose the event database.
THEOREM InventoryIsEchoed == Spec => []ServedIsEchoed
<1>1. SoloServes => ServedIsEchoed
  BY DEF SoloServes, ServedIsEchoed
<1>2. QED
  BY <1>1, SoloAlways, PTL
-----------------------------------------------------------------------------
\* The save mutex has a holder only while that one is between the lock and its
\* return.
HolderSaves ==
  \A p \in Procs : saveMu = p => Guarded /\ pc[p] \in {"truncate", "write", "unlink"}

\* A save mutex is held exactly by the editor that truncates, writes or unlinks,
\* on the failing paths too: no save ever leaves it locked, so no editor waits
\* for one that has returned.
THEOREM SaveMutexNeverLeaks ==
  Spec => [](\A p \in Procs :
               saveMu = p <=> Guarded /\ pc[p] \in {"truncate", "write", "unlink"})
<1> USE DEF HolderSaves
<1>1. Init => HolderSaves
  BY PersistentAssumption DEF Init
<1>2. TypeOK /\ Exclusive /\ HolderSaves /\ [Next]_vars => HolderSaves'
  <2> SUFFICES ASSUME TypeOK, Exclusive, HolderSaves, [Next]_vars PROVE HolderSaves'
    OBVIOUS
  <2> USE DEF Guarded
  <2>1. ASSUME NEW p \in Procs, NEW new \in SUBSET Entries,
               NEW label \in {"snapshot", "lockReset"}, PlainEdit(p, new, label)
        PROVE  HolderSaves'
    BY <2>1 DEF TypeOK, PlainEdit, Edit, GoTo
  <2>2. ASSUME NEW p \in Procs, NEW e \in Entries, PutInventory(p, e) PROVE HolderSaves'
    BY <2>2 DEF TypeOK, PutInventory, GoTo
  <2>3. ASSUME NEW p \in Procs, KeepInventory(p) \/ Snapshot(p) PROVE HolderSaves'
    BY <2>3 DEF TypeOK, KeepInventory, Snapshot, GoTo
  <2>4. ASSUME NEW p \in Procs, LockSaveMu(p) PROVE HolderSaves'
    BY <2>4, PersistentAssumption DEF TypeOK, LockSaveMu, MayWrite, GoTo
  <2>5. ASSUME NEW p \in Procs, Truncate(p) PROVE HolderSaves'
    BY <2>5 DEF TypeOK, Truncate, GoTo
  <2>6. ASSUME NEW p \in Procs, Return(p), kind' = kind,
               pc[p] \in {"truncate", "write", "unlink"}
        PROVE  HolderSaves'
    <3>1. CASE Guarded
      BY <2>6, <3>1, PersistentAssumption DEF Return, GoTo, TypeOK
    <3>2. CASE ~Guarded
      BY <2>6, <3>2 DEF Return, GoTo, TypeOK
    <3>3. QED
      BY <3>1, <3>2
  <2>7. ASSUME NEW p \in Procs, Write(p) \/ Unlink(p) \/ WriteFails(p) PROVE HolderSaves'
    BY <2>6, <2>7 DEF Write, Unlink, WriteFails
  <2>8. CASE Restart
    BY <2>8, PersistentAssumption DEF Restart
  <2>9. CASE UNCHANGED vars
    BY <2>9 DEF vars
  <2>10. QED
    BY <2>1, <2>2, <2>3, <2>4, <2>5, <2>7, <2>8, <2>9, StepCases
<1>3. Init => Exclusive /\ Unmixed
  BY DEF Init, Exclusive, Unmixed
<1>4. TypeOK /\ (Exclusive /\ Unmixed) /\ [Next]_vars => (Exclusive /\ Unmixed)'
  BY ExclusiveSteps
<1>5. Exclusive /\ HolderSaves =>
        \A p \in Procs : saveMu = p <=> Guarded /\ pc[p] \in {"truncate", "write", "unlink"}
  BY DEF Exclusive
<1>6. QED
  BY <1>1, <1>2, <1>3, <1>4, <1>5, TypeCorrect, PTL DEF Spec
=============================================================================
