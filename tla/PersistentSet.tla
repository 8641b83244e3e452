--------------------------- MODULE PersistentSet ---------------------------
(***************************************************************************)
(* How the registries of internal/server reach the disk.  Four kinds:        *)
(*   "plain"      the blacklist, blocklist, whitelist, banned events and     *)
(*                deletions;                                               *)
(*   "guarded"    the blob owners and the quarantine, with a save mutex;     *)
(*   "caps"       the upload caps: one value, a save mutex, and a reset that *)
(*                removes the file;                                        *)
(*   "inventory"  the ad inventory: one value, served by the event store     *)
(*                besides.                                                 *)
(* Each edits its map under the lock, takes a snapshot under the lock, and    *)
(* writes it with os.WriteFile: the file is truncated first and filled       *)
(* second.  BlobLifecycle treats an edit as durable when its call returns;   *)
(* this module says when it is.                                            *)
(*                                                                         *)
(* The map is the set of its entries, all of one size (no entry: the        *)
(* configured caps, no inventory); the file is what a reader makes of it.   *)
(***************************************************************************)
EXTENDS Naturals, FiniteSets

CONSTANTS Procs,     \* requests that edit the registry
          Entries,   \* what it may hold
          Kinds,     \* which registries
          Crashes,   \* may the process be killed?
          DiskFull,  \* may a write fail?
          Free       \* the unlocked saveMu

ASSUME PersistentAssumption ==
  /\ IsFiniteSet(Entries)
  /\ Kinds \subseteq {"plain", "guarded", "caps", "inventory"}
  /\ Crashes \in BOOLEAN
  /\ DiskFull \in BOOLEAN
  /\ Free \notin Procs

VARIABLES
  kind,      \* which registry this is
  set,       \* the map in memory
  content,   \* "none": no file, "empty": truncated or partly written,
             \* "whole": one snapshot, "mixed": pieces of two snapshots
  written,   \* the snapshot in a whole file
  length,    \* the length of the file
  saveMu,    \* holder of saveMu
  pc,        \* where each editor is
  snap,      \* data: the snapshot each editor is about to write
  served,    \* the inventory in the event store
  solo       \* history: has no save overlapped or failed since the last edit
             \* that began alone?

file == <<content, written, length>>
vars == <<kind, set, file, saveMu, pc, snap, served, solo>>

Guarded == kind \in {"guarded", "caps"}

Size(s) == Cardinality(s) + 1

LoadedDamaged == IF content = "whole" THEN written ELSE {content}   \* mutant of Loaded

\* loadBlacklist and the like: a file that does not parse is an empty registry.
Loaded == IF content = "whole" THEN written ELSE {}

Init ==
  /\ kind \in Kinds
  /\ set = {}
  /\ content = "none" /\ written = {} /\ length = 0
  /\ saveMu = Free
  /\ pc = [p \in Procs |-> "idle"]
  /\ snap = [p \in Procs |-> {}]
  /\ served = {}
  /\ solo = TRUE

GoTo(p, label) == pc' = [pc EXCEPT ![p] = label]

Alone(p) == \A q \in Procs \ {p} : pc[q] = "idle"

\* The map changes; next comes the call named by label.
Edit(p, new, label) ==
  /\ pc[p] = "idle"
  /\ set' = new
  /\ GoTo(p, label)
  /\ solo' = Alone(p)
  /\ UNCHANGED <<kind, file, saveMu, snap, served>>

\* add, remove, ban, allow, unban, record.  The owners and the quarantine do not
\* save when nothing changes, the others do.
Change(p, new) ==
  /\ kind \in {"plain", "guarded"}
  /\ kind = "guarded" => new # set
  /\ Edit(p, new, "snapshot")

Add(p, e) == Change(p, set \union {e})

RemoveUnsaved(p, e) ==   \* mutant of Remove
  /\ pc[p] = "idle" /\ kind \in {"plain", "guarded"}
  /\ set' = set \ {e}
  /\ solo' = Alone(p)
  /\ UNCHANGED <<kind, file, saveMu, pc, snap, served>>

Remove(p, e) == Change(p, set \ {e})

\* PUT /admin/upload-caps, once the bounds are checked.
SetCaps(p, e) == kind = "caps" /\ Edit(p, {e}, "snapshot")

\* DELETE /admin/upload-caps: back to the configured caps.
ResetCaps(p) == kind = "caps" /\ Edit(p, {}, "lockReset")

\* PUT /admin/ads: the signed event goes into the event store, which keeps the
\* newest; one signed in the same second, or by a request that overlaps, may be
\* kept instead, and an error of the store is ignored.
PutInventory(p, e) ==
  /\ kind = "inventory" /\ pc[p] = "idle"
  /\ GoTo(p, "publish")
  /\ snap' = [snap EXCEPT ![p] = {e}]
  /\ \/ served' = {e} /\ solo' = Alone(p)
     \/ served' = served /\ solo' = FALSE
  /\ UNCHANGED <<kind, set, file, saveMu>>

\* When it has been published to the relays, adInventory.store changes the
\* memory and marshals it under one lock.
KeepInventory(p) ==
  /\ pc[p] = "publish"
  /\ set' = snap[p]
  /\ GoTo(p, "truncate")
  /\ UNCHANGED <<kind, file, saveMu, snap, served, solo>>

\* json.Marshal under the read lock.
Snapshot(p) ==
  /\ pc[p] = "snapshot"
  /\ snap' = [snap EXCEPT ![p] = set]
  /\ GoTo(p, "lock")
  /\ UNCHANGED <<kind, set, file, saveMu, served, solo>>

MayWriteAnyway(p) == TRUE   \* mutant of MayWrite

MayWrite(p) == Guarded => saveMu = Free

LockSaveMu(p) ==
  /\ pc[p] \in {"lock", "lockReset"}
  /\ MayWrite(p)
  /\ saveMu' = IF Guarded THEN p ELSE saveMu
  /\ GoTo(p, IF pc[p] = "lock" THEN "truncate" ELSE "unlink")
  /\ UNCHANGED <<kind, set, file, snap, served, solo>>

\* os.WriteFile opens the file with O_TRUNC.
Truncate(p) ==
  /\ pc[p] = "truncate"
  /\ content' = "empty" /\ written' = {} /\ length' = 0
  /\ GoTo(p, "write")
  /\ UNCHANGED <<kind, set, saveMu, snap, served, solo>>

\* save returns, and with it the edit.
Return(p) ==
  /\ GoTo(p, "idle")
  /\ saveMu' = IF Guarded THEN Free ELSE saveMu
  /\ snap' = [snap EXCEPT ![p] = {}]

\* It writes from offset zero: over a longer file that another editor has
\* written since the truncation, the end of that file stays.
Write(p) ==
  /\ pc[p] = "write"
  /\ IF Size(snap[p]) >= length
     THEN content' = "whole" /\ written' = snap[p] /\ length' = Size(snap[p])
     ELSE content' = "mixed" /\ written' = {} /\ length' = length
  /\ Return(p)
  /\ UNCHANGED <<kind, set, served, solo>>

\* reset removes the file; absent is not an error.
Unlink(p) ==
  /\ pc[p] = "unlink"
  /\ content' = "none" /\ written' = {} /\ length' = 0
  /\ Return(p)
  /\ UNCHANGED <<kind, set, served, solo>>

\* The file cannot be opened and stays as it was, or the disk is full: a
\* truncated file stays cut off, one that another editor has filled since may
\* have been written over in part.
WriteFails(p) ==
  /\ DiskFull
  /\ \/ pc[p] \in {"truncate", "write", "unlink"} /\ UNCHANGED file
     \/ /\ pc[p] = "write" /\ content = "whole"
        /\ content' = "mixed" /\ written' = {} /\ length' = length
  /\ Return(p)
  /\ solo' = FALSE
  /\ UNCHANGED <<kind, set, served>>

RestoresNothing(db) == {db}   \* mutant of Restored

\* What the event store serves once New has stored the event of the file again,
\* "in case the event DB is newer/empty" (server.go:173): the newer of the two.
Restored(db) ==
  {x \in {db, Loaded} : x # {} \/ (db = {} /\ Loaded = {})}

Quiet == \A p \in Procs : pc[p] = "idle"

\* The process dies and comes back with what the file says; the event database
\* is another directory, which may have been lost.
Restart ==
  /\ Crashes
  /\ set' = Loaded
  /\ saveMu' = Free
  /\ pc' = [p \in Procs |-> "idle"]
  /\ snap' = [p \in Procs |-> {}]
  /\ IF kind = "inventory"
     THEN \E db \in {served, {}} : served' \in Restored(db)
     ELSE UNCHANGED served
  /\ solo' = (kind = "inventory" => solo /\ Quiet)
  /\ UNCHANGED <<kind, file>>

Step(p) == \/ KeepInventory(p) \/ Snapshot(p) \/ LockSaveMu(p) \/ Truncate(p)
           \/ Write(p) \/ Unlink(p) \/ WriteFails(p)

Next ==
  \/ \E p \in Procs, e \in Entries : \/ Add(p, e) \/ Remove(p, e)
                                     \/ SetCaps(p, e) \/ PutInventory(p, e)
  \/ \E p \in Procs : ResetCaps(p)
  \/ \E p \in Procs : Step(p)
  \/ Restart

Spec == Init /\ [][Next]_vars
-----------------------------------------------------------------------------
TypeOK ==
  /\ kind \in Kinds
  /\ set \subseteq Entries
  /\ content \in {"none", "empty", "whole", "mixed"}
  /\ written \subseteq Entries
  /\ length \in Nat
  /\ saveMu \in Procs \union {Free}
  /\ pc \in [Procs -> {"idle", "snapshot", "lock", "lockReset", "publish",
                      "truncate", "write", "unlink"}]
  /\ snap \in [Procs -> SUBSET Entries]
  /\ served \subseteq Entries
  /\ solo \in BOOLEAN

\* "concurrent uploads can't interleave a half-written file" (blob_owners.go:157):
\* with a saveMu the file never mixes two snapshots, whoever resets meanwhile.
NeverInterleaved == Guarded => content # "mixed"

\* An edit whose save overlapped no other and did not fail is durable, with or
\* without a saveMu, and heals whatever earlier saves left behind: a restart
\* would load exactly the registry as it is.
SoloEditsStick == Quiet /\ solo => Loaded = set

\* "a GET can echo it and a restart doesn't lose it" (ads_admin.go:49), "the
\* reliable source" (ads_admin.go:201): the inventory that clients are served is
\* the one the admin is shown, also after restarts and the loss of the event
\* database, unless the last PUTs overlapped, shared a second or failed.
ServedIsEchoed == kind = "inventory" /\ Quiet /\ solo => served = set
=============================================================================
