--------------------------- MODULE BlobLifecycle ---------------------------
(***************************************************************************)
(* The life of a stored blob: the HTTP handlers of internal/server that    *)
(* upload, claim, retract, delete, ban, withhold, list and download blobs,  *)
(* and the relay callbacks that make mods refer to them.  No lock spans a  *)
(* handler.  Each handler is a chain of calls on the components it shares  *)
(* with every other handler (object store, owner registry, quarantine,     *)
(* blacklist, blocklist, reference index, listing cache); each call is one *)
(* atomic action, and calls of different requests interleave freely.       *)
(*                                                                         *)
(* Abstractions.  A blob is its hash: the store is content-addressed and    *)
(* the extension follows from the bytes.  Authentication has happened: a   *)
(* request carries the key that signed it.  Registries are durable when    *)
(* the call that changes them returns; only the blacklist, whose failed    *)
(* save makes the handler return early, keeps a separate file.  Of the     *)
(* backends' inner life only what the disk shows of an unfinished store is *)
(* kept: a lookup by bare hash finds its temporary file.                   *)
(***************************************************************************)
EXTENDS Naturals, FiniteSets

CONSTANTS Procs,          \* requests in flight
          Hashes,         \* blobs
          Pubkeys,        \* keys that sign requests
          None,           \* nobody: the signer of an anonymous request
          Admin,          \* relay.admin_npub; None when none is configured
          Ops,            \* the operations in use, of AllOps
          Capacity,       \* concurrent uploads (UploadLimiter)
          MaxUploaders,   \* maxUploadersPerBlob
          Failures,       \* which calls may fail, see below
          Crashes,        \* may the process be killed and restarted?
          Disk,           \* is the backend the disk, and not R2?
          Free            \* the unlocked cache mutex

FailureKinds == {"refused",   \* a storage call fails and had no effect
                 "unacked",   \* a storage call took effect but reports failure
                 "unsaved"}   \* blacklist.json cannot be opened, or is cut off

AllOps == {"upload", "claim", "hardDelete", "retract", "dashDelete",
           "blacklistAdd", "blacklistRemove", "quarantineRelease", "download",
           "list", "publish", "ingest", "unlink", "banPubkey", "allowPubkey"}

ASSUME BlobAssumption ==
  /\ Ops \subseteq AllOps
  /\ None \notin Pubkeys
  /\ Admin \in Pubkeys \union {None}
  /\ Capacity \in Nat \ {0}
  /\ MaxUploaders \in Nat \ {0}
  /\ Failures \subseteq FailureKinds
  /\ Crashes \in BOOLEAN
  /\ Disk \in BOOLEAN
  \* a delete may remove the temporary file of a store, which then fails
  /\ Disk => "refused" \in Failures
  /\ Free \notin Procs

VARIABLES
  stored,         \* hashes whose bytes are in the object store
  orphans,        \* hashes of which a killed store left a temporary file
  owners,         \* blob_owners.json: hash -> uploaders
  quarantine,     \* quarantine.json: hashes withheld, reversibly
  blacklist,      \* the blacklist in memory
  blacklistFile,  \* the blacklist on disk
  blocked,        \* blocklist.json: banned pubkeys
  mods,           \* hashes that some event in the event store links to
  refs,           \* hashes the in-memory reference index calls claimed
  cache,          \* blobCache: {} or {the last listing}
  cacheLock,      \* holder of blobCacheMu
  uploading,      \* upload slots: the pubkey each request uploads for
  req             \* each request: what it is and the call it makes next

library == <<stored, orphans, owners, quarantine>>
policy  == <<blacklist, blacklistFile, blocked>>
events  == <<mods, refs>>
listing == <<cache, cacheLock>>
vars == <<library, policy, events, listing, uploading, req>>

-----------------------------------------------------------------------------
(* The handlers: for each, the call that follows each call.                *)

UnguardedUploadCalls ==   \* mutant of UploadCalls
  [start |-> "blocked", blocked |-> "acquire", blacklist |-> "acquire",
   acquire |-> "stream", stream |-> "store", store |-> "own",
   own |-> "revive", revive |-> "release", release |-> "idle"]

NonRevivingUploadCalls ==   \* mutant of UploadCalls
  [start |-> "blocked", blocked |-> "blacklist", blacklist |-> "acquire",
   acquire |-> "stream", stream |-> "store", store |-> "own",
   own |-> "release", revive |-> "release", release |-> "idle"]

UploadCalls ==
  [start |-> "blocked", blocked |-> "blacklist", blacklist |-> "acquire",
   acquire |-> "stream", stream |-> "store", store |-> "own",
   own |-> "revive", revive |-> "release", release |-> "idle"]

UnblockedClaimCalls ==   \* mutant of ClaimCalls
  [start |-> "blacklist", blocked |-> "blacklist", blacklist |-> "has",
   has |-> "own", own |-> "revive", revive |-> "invalidate",
   invalidate |-> "idle"]

ClaimCalls ==
  [start |-> "blocked", blocked |-> "blacklist", blacklist |-> "has",
   has |-> "own", own |-> "revive", revive |-> "invalidate",
   invalidate |-> "idle"]

\* DELETE /<hash> signed by the admin.
HardDeleteCalls ==
  [start |-> "erase", erase |-> "disown", disown |-> "revive",
   revive |-> "invalidate", invalidate |-> "idle"]

\* DELETE /<hash> signed by anyone else.
RetractCalls ==
  [start |-> "retract", retract |-> "refs", refs |-> "withhold",
   withhold |-> "invalidate", invalidate |-> "idle"]

\* DELETE /admin/blob/<hash>, the dashboard's delete.
DashDeleteCalls ==
  [start |-> "erase", erase |-> "disown", disown |-> "invalidate",
   invalidate |-> "idle"]

BlacklistAddCalls ==
  [start |-> "ban", ban |-> "erase", erase |-> "disown",
   disown |-> "invalidate", invalidate |-> "idle"]

BlacklistRemoveCalls == [start |-> "unban", unban |-> "idle"]

ReleaseCalls ==
  [start |-> "revive", revive |-> "invalidate", invalidate |-> "idle"]

\* GET /<hash> through the gate.
DownloadCalls ==
  [start |-> "gateBlacklist", gateBlacklist |-> "gateQuarantine",
   gateQuarantine |-> "load", load |-> "idle"]

\* GET /admin/blobs: listBlobsCached holds the mutex across storage.List.
ListCalls ==
  [start |-> "lock", lock |-> "scan", scan |-> "fill", fill |-> "idle"]

UnnotedPublishCalls ==   \* mutant of PublishCalls
  [start |-> "save", save |-> "idle", note |-> "idle"]

\* An event stored through the relay, and one stored by the ingest loop.
PublishCalls == [start |-> "save", save |-> "note", note |-> "idle"]
IngestCalls  == [start |-> "save", save |-> "idle"]

Calls ==
  [upload |-> UploadCalls, claim |-> ClaimCalls,
   hardDelete |-> HardDeleteCalls, retract |-> RetractCalls,
   dashDelete |-> DashDeleteCalls, blacklistAdd |-> BlacklistAddCalls,
   blacklistRemove |-> BlacklistRemoveCalls, quarantineRelease |-> ReleaseCalls,
   download |-> DownloadCalls, list |-> ListCalls,
   publish |-> PublishCalls, ingest |-> IngestCalls]

OpNames == DOMAIN Calls

AnySigner(op) == Pubkeys   \* mutant of Signers

\* Who may sign each operation.  The two meanings of DELETE /<hash> are told
\* apart by the signer alone.
Moderation == {"hardDelete", "dashDelete", "blacklistAdd", "blacklistRemove",
               "quarantineRelease", "list"}

Signers(op) ==
  CASE op \in {"upload", "claim"} -> Pubkeys
    [] op = "retract"            -> Pubkeys \ {Admin}
    [] op \in Moderation         -> {Admin} \ {None}
    [] OTHER                     -> {None}

Idle == [op |-> "none", hash |-> None, key |-> None,
         pc |-> "idle", seen |-> {}]

At(p, call) == req[p].pc = call

Proceed(p) ==
  req' = [req EXCEPT ![p] =
            LET next == Calls[@.op][@.pc]
            IN  IF next = "idle" THEN Idle ELSE [@ EXCEPT !.pc = next]]

LeakyQuit(p) == req' = [req EXCEPT ![p] = Idle]   \* mutant of Quit

\* An early return.  An upload that holds a slot returns through its deferred
\* release.
HoldsSlot(p) == uploading[p] # None

Quit(p) ==
  req' = [req EXCEPT ![p] =
            IF HoldsSlot(p) THEN [@ EXCEPT !.pc = "release"] ELSE Idle]

Quiet == \A p \in Procs : At(p, "idle")
-----------------------------------------------------------------------------
Init ==
  /\ stored = {}
  /\ orphans = {}
  /\ owners = [h \in Hashes |-> {}]
  /\ quarantine = {}
  /\ blacklist = {}
  /\ blacklistFile = {}
  /\ blocked = {}
  /\ mods = {}
  /\ refs = {}
  /\ cache = {}
  /\ cacheLock = Free
  /\ uploading = [p \in Procs |-> None]
  /\ req = [p \in Procs |-> Idle]

BeginUnchecked(p, op, h, k) ==   \* mutant of Begin
  /\ At(p, "idle")
  /\ req' = [req EXCEPT ![p] = [op |-> op, hash |-> h, key |-> k,
                                pc |-> Calls[op].start, seen |-> {}]]
  /\ UNCHANGED <<library, policy, events, listing, uploading>>

\* A request arrives and passes authentication.
Begin(p, op, h, k) ==
  /\ At(p, "idle")
  /\ k \in Signers(op)
  /\ req' = [req EXCEPT ![p] = [op |-> op, hash |-> h, key |-> k,
                                pc |-> Calls[op].start, seen |-> {}]]
  /\ UNCHANGED <<library, policy, events, listing, uploading>>

\* s.blocked(evt.PubKey)
CheckBlocked(p) ==
  /\ At(p, "blocked")
  /\ IF req[p].key \in blocked THEN Quit(p) ELSE Proceed(p)
  /\ UNCHANGED <<library, policy, events, listing, uploading>>

\* s.blacklist.has(hash)
CheckBlacklist(p) ==
  /\ At(p, "blacklist")
  /\ IF req[p].hash \in blacklist THEN Quit(p) ELSE Proceed(p)
  /\ UNCHANGED <<library, policy, events, listing, uploading>>
-----------------------------------------------------------------------------
(* Uploading                                                               *)

Slots == INSTANCE UploadSlots
           WITH Requests <- Procs, NoPubkey <- None, capacity <- Capacity

AcquireAlways(p) ==   \* mutant of Acquire
  /\ At(p, "acquire")
  /\ uploading' = [uploading EXCEPT ![p] = req[p].key]
  /\ Proceed(p)
  /\ UNCHANGED <<library, policy, events, listing>>

\* limiter.acquire, and the size and disk checks before it.  The limiter may
\* refuse although a slot is free: a loser of its race holds one for a moment.
Acquire(p) ==
  /\ At(p, "acquire")
  /\ \/ Slots!Admit(p, req[p].key) /\ Proceed(p)
     \/ Quit(p) /\ UNCHANGED uploading
  /\ UNCHANGED <<library, policy, events, listing>>

\* The body is spooled and hashed.  It may stall, be too slow or too large,
\* hash to something else or be of a type the node does not accept.
Stream(p) ==
  /\ At(p, "stream")
  /\ Proceed(p) \/ Quit(p)
  /\ UNCHANGED <<library, policy, events, listing, uploading>>

\* A temporary file of h is in its shard directory (disk.go:105): a store of
\* it is under way, or was when the process was killed.
Writing(h) ==
  Disk /\ \E p \in Procs : req[p].hash = h /\ At(p, "store")

Partial(h) == Writing(h) \/ h \in orphans

Stores(p) == stored' = stored \union {req[p].hash}

\* storage.Store
Store(p) ==
  /\ At(p, "store")
  /\ \/ Stores(p) /\ Proceed(p)
     \/ "refused" \in Failures /\ UNCHANGED stored /\ Quit(p)
     \/ "unacked" \in Failures /\ Stores(p) /\ Quit(p)
  /\ UNCHANGED <<orphans, owners, quarantine, policy, events, listing, uploading>>

\* owners.add: at most MaxUploaders are recorded, later ones are not.
Own(p) ==
  /\ At(p, "own")
  /\ LET h == req[p].hash IN
       owners' = IF Cardinality(owners[h]) < MaxUploaders
                 THEN [owners EXCEPT ![h] = @ \union {req[p].key}]
                 ELSE owners
  /\ Proceed(p)
  /\ UNCHANGED <<stored, orphans, quarantine, policy, events, listing, uploading>>

\* quarantine.remove
Revive(p) ==
  /\ At(p, "revive")
  /\ quarantine' = quarantine \ {req[p].hash}
  /\ Proceed(p)
  /\ UNCHANGED <<stored, orphans, owners, policy, events, listing, uploading>>

\* The deferred release of the upload slot.
Release(p) ==
  /\ At(p, "release")
  /\ Slots!Finish(p)
  /\ Proceed(p)
  /\ UNCHANGED <<library, policy, events, listing>>
-----------------------------------------------------------------------------
(* Claiming, deleting and retracting                                       *)

HasOrErr(p) ==   \* mutant of Has
  /\ At(p, "has")
  /\ LET h == req[p].hash IN
       \/ (h \in stored \/ Partial(h)) /\ Proceed(p)
       \/ h \notin stored \union orphans /\ Quit(p)
       \/ Failures \intersect {"refused", "unacked"} # {} /\ Proceed(p)
  /\ UNCHANGED <<library, policy, events, listing, uploading>>

\* storage.Has.  The disk takes a temporary file of the blob for the blob when
\* it happens to be there (resolvePath).  An error is answered like absence.
Has(p) ==
  /\ At(p, "has")
  /\ LET h == req[p].hash IN
       \/ (h \in stored \/ Partial(h)) /\ Proceed(p)
       \/ h \notin stored \union orphans /\ Quit(p)
       \/ Failures \intersect {"refused", "unacked"} # {} /\ Quit(p)
  /\ UNCHANGED <<library, policy, events, listing, uploading>>

\* Without the blob the disk removes one of its temporary files, if any.
Erases(p) ==
  LET h == req[p].hash IN
    /\ stored' = stored \ {h}
    /\ \/ UNCHANGED orphans
       \/ h \notin stored /\ orphans' = orphans \ {h}

\* What the handler does when storage.Delete fails: the blacklist's purge is
\* best effort, the delete handlers give up.
EraseFailed(p) ==
  IF req[p].op = "blacklistAdd" THEN Proceed(p) ELSE Quit(p)

\* storage.Delete; deleting an absent blob succeeds.
Erase(p) ==
  /\ At(p, "erase")
  /\ \/ Erases(p) /\ Proceed(p)
     \/ "refused" \in Failures /\ UNCHANGED <<stored, orphans>> /\ EraseFailed(p)
     \/ "unacked" \in Failures /\ Erases(p) /\ EraseFailed(p)
  /\ UNCHANGED <<owners, quarantine, policy, events, listing, uploading>>

\* owners.remove
Disown(p) ==
  /\ At(p, "disown")
  /\ owners' = [owners EXCEPT ![req[p].hash] = {}]
  /\ Proceed(p)
  /\ UNCHANGED <<stored, orphans, quarantine, policy, events, listing, uploading>>

\* owners.removeOne.  Only the retraction that empties the owner set goes on
\* to ask for references; any other just refreshes the listing.
Retract(p) ==
  /\ At(p, "retract")
  /\ LET h == req[p].hash
         rest == owners[h] \ {req[p].key}
     IN  IF req[p].key \in owners[h]
         THEN /\ owners' = [owners EXCEPT ![h] = rest]
              /\ IF rest = {} THEN Proceed(p)
                 ELSE req' = [req EXCEPT ![p].pc = "invalidate"]
         ELSE Quit(p) /\ UNCHANGED owners
  /\ UNCHANGED <<stored, orphans, quarantine, policy, events, listing, uploading>>

\* len(s.refs.refsFor(hash)) == 0
CheckRefs(p) ==
  /\ At(p, "refs")
  /\ IF req[p].hash \notin refs THEN Proceed(p)
     ELSE req' = [req EXCEPT ![p].pc = "invalidate"]
  /\ UNCHANGED <<library, policy, events, listing, uploading>>

\* quarantine.add
Withhold(p) ==
  /\ At(p, "withhold")
  /\ quarantine' = quarantine \union {req[p].hash}
  /\ Proceed(p)
  /\ UNCHANGED <<stored, orphans, owners, policy, events, listing, uploading>>
-----------------------------------------------------------------------------
(* The blacklist                                                           *)

\* The failing write of blacklist.json: the file stays when it could not be
\* opened, and holds nothing that loads when it was cut off.
BlacklistUnsaved ==
  "unsaved" \in Failures /\ blacklistFile' \in {blacklistFile, {}}

\* blacklist.add: the entry is in memory before it is saved, and stays there
\* when the save fails; the handler then returns before it purges anything.
Ban(p) ==
  /\ At(p, "ban")
  /\ blacklist' = blacklist \union {req[p].hash}
  /\ \/ blacklistFile' = blacklist' /\ Proceed(p)
     \/ BlacklistUnsaved /\ Quit(p)
  /\ UNCHANGED <<library, blocked, events, listing, uploading>>

\* blacklist.remove
Unban(p) ==
  /\ At(p, "unban")
  /\ blacklist' = blacklist \ {req[p].hash}
  /\ blacklistFile' = blacklist' \/ BlacklistUnsaved
  /\ Proceed(p)
  /\ UNCHANGED <<library, blocked, events, listing, uploading>>
-----------------------------------------------------------------------------
(* The download gate                                                       *)

GateBlacklist(p) ==
  /\ At(p, "gateBlacklist")
  /\ IF req[p].hash \in blacklist THEN Quit(p) ELSE Proceed(p)
  /\ UNCHANGED <<library, policy, events, listing, uploading>>

\* The proof-of-work and advertisement gates follow and may refuse as well.
GateQuarantine(p) ==
  /\ At(p, "gateQuarantine")
  /\ \/ req[p].hash \notin quarantine /\ Proceed(p)
     \/ Quit(p)
  /\ UNCHANGED <<library, policy, events, listing, uploading>>

\* storage.Load, and the bytes go out if there are any.
Load(p) ==
  /\ At(p, "load")
  /\ Proceed(p)
  /\ UNCHANGED <<library, policy, events, listing, uploading>>
-----------------------------------------------------------------------------
(* The cached listing                                                      *)

\* listBlobsCached takes the mutex; a cached listing is returned at once.
Lock(p) ==
  /\ At(p, "lock")
  /\ cacheLock = Free
  /\ IF cache # {} THEN Quit(p) /\ UNCHANGED cacheLock
     ELSE Proceed(p) /\ cacheLock' = p
  /\ UNCHANGED <<library, policy, events, cache, uploading>>

ScanLeavesLock(p) ==   \* mutant of Scan
  /\ At(p, "scan")
  /\ \/ req' = [req EXCEPT ![p].seen = stored, ![p].pc = "fill"]
     \/ Quit(p)
  /\ UNCHANGED <<library, policy, events, listing, uploading>>

\* storage.List
Scan(p) ==
  /\ At(p, "scan")
  /\ \/ /\ req' = [req EXCEPT ![p].seen = stored, ![p].pc = "fill"]
        /\ UNCHANGED cacheLock
     \/ /\ Failures \intersect {"refused", "unacked"} # {}
        /\ cacheLock' = Free
        /\ Quit(p)
  /\ UNCHANGED <<library, policy, events, cache, uploading>>

Fill(p) ==
  /\ At(p, "fill")
  /\ cache' = {req[p].seen}
  /\ cacheLock' = Free
  /\ Proceed(p)
  /\ UNCHANGED <<library, policy, events, uploading>>

CacheUnlocked == cacheLock = Free

InvalidateUnlocked(p) ==   \* mutant of Invalidate
  /\ At(p, "invalidate")
  /\ cache' = {}
  /\ Proceed(p)
  /\ UNCHANGED <<library, policy, events, cacheLock, uploading>>

\* invalidateBlobCache waits for the mutex.
Invalidate(p) ==
  /\ At(p, "invalidate")
  /\ CacheUnlocked
  /\ cache' = {}
  /\ Proceed(p)
  /\ UNCHANGED <<library, policy, events, cacheLock, uploading>>

\* blobCacheTTL passes.
Expire ==
  /\ cache # {}
  /\ CacheUnlocked
  /\ cache' = {}
  /\ UNCHANGED <<library, policy, events, cacheLock, uploading, req>>
-----------------------------------------------------------------------------
(* Events that link to blobs                                               *)

\* An event that links to the blob is stored (SaveEvent, ReplaceEvent).
SaveEvent(p) ==
  /\ At(p, "save")
  /\ mods' = mods \union {req[p].hash}
  /\ Proceed(p)
  /\ UNCHANGED <<library, policy, refs, listing, uploading>>

\* refs.note, from the relay's OnEventSaved hook.
Note(p) ==
  /\ At(p, "note")
  /\ refs' = refs \union {req[p].hash}
  /\ Proceed(p)
  /\ UNCHANGED <<library, policy, mods, listing, uploading>>

\* The last event that links to the blob is deleted or replaced; the index
\* is not told.
Unlink(h) ==
  /\ "unlink" \in Ops
  /\ h \in mods
  /\ mods' = mods \ {h}
  /\ UNCHANGED <<library, policy, refs, listing, uploading, req>>
-----------------------------------------------------------------------------
\* NIP-86 banpubkey and allowpubkey.
BlockPubkey(k) ==
  /\ "banPubkey" \in Ops
  /\ blocked' = blocked \union {k}
  /\ UNCHANGED <<library, blacklist, blacklistFile, events, listing,
                 uploading, req>>

AllowPubkey(k) ==
  /\ "allowPubkey" \in Ops
  /\ blocked' = blocked \ {k}
  /\ UNCHANGED <<library, blacklist, blacklistFile, events, listing,
                 uploading, req>>

\* A request is writing blacklist.json.
SavingBlacklist == \E p \in Procs : At(p, "ban") \/ At(p, "unban")

\* The process is killed and started again: requests, slots, cache and index
\* are gone, a store in progress may leave its temporary file and a write of
\* the blacklist a file cut off, files are read back.  backfillRefs rebuilds
\* the index as far as it gets: a query error or a page of one second stops
\* it (blob_refs.go:173, 191), and it starts at the present (blob_refs.go:169).
Restart ==
  /\ Crashes
  /\ UNCHANGED blacklistFile \/ (SavingBlacklist /\ blacklistFile' = {})
  /\ blacklist' = blacklistFile'
  /\ \E left \in SUBSET {h \in Hashes : Writing(h)} : orphans' = orphans \union left
  /\ refs' \in SUBSET mods
  /\ cache' = {}
  /\ cacheLock' = Free
  /\ uploading' = [p \in Procs |-> None]
  /\ req' = [p \in Procs |-> Idle]
  /\ UNCHANGED <<stored, owners, quarantine, blocked, mods>>

Step(p) ==
  \/ CheckBlocked(p) \/ CheckBlacklist(p)
  \/ Acquire(p) \/ Stream(p) \/ Store(p) \/ Own(p) \/ Revive(p) \/ Release(p)
  \/ Has(p) \/ Erase(p) \/ Disown(p) \/ Retract(p) \/ CheckRefs(p)
  \/ Withhold(p) \/ Ban(p) \/ Unban(p)
  \/ GateBlacklist(p) \/ GateQuarantine(p) \/ Load(p)
  \/ Lock(p) \/ Scan(p) \/ Fill(p) \/ Invalidate(p)
  \/ SaveEvent(p) \/ Note(p)

Next ==
  \/ \E p \in Procs, op \in Ops \intersect OpNames, h \in Hashes,
        k \in Pubkeys \union {None} : Begin(p, op, h, k)
  \/ \E p \in Procs : Step(p)
  \/ \E h \in Hashes : Unlink(h)
  \/ \E k \in Pubkeys : BlockPubkey(k) \/ AllowPubkey(k)
  \/ Expire
  \/ Restart

SafeSpec == Init /\ [][Next]_vars

\* A goroutine that can run is run, storage calls return (the breaker's
\* timeouts, the idle limit of streamBody), and sync.Mutex hands itself to a
\* waiter that others keep overtaking: hence strong fairness of each request.
Spec == SafeSpec /\ \A p \in Procs : SF_vars(Step(p))
-----------------------------------------------------------------------------
Labels == {"idle", "blocked", "blacklist", "acquire", "stream", "store", "own",
           "revive", "release", "has", "invalidate", "erase", "disown",
           "retract", "refs", "withhold", "ban", "unban", "gateBlacklist",
           "gateQuarantine", "load", "lock", "scan", "fill", "save", "note"}

\* The requests the handlers can be in the middle of.
Requests ==
  [op : OpNames, hash : Hashes, key : Pubkeys \union {None},
   pc : Labels \ {"idle"}, seen : SUBSET Hashes]

TypeOK ==
  /\ stored \subseteq Hashes
  /\ orphans \subseteq Hashes
  /\ owners \in [Hashes -> SUBSET Pubkeys]
  /\ quarantine \subseteq Hashes
  /\ blacklist \subseteq Hashes
  /\ blacklistFile \subseteq Hashes
  /\ blocked \subseteq Pubkeys
  /\ mods \subseteq Hashes
  /\ refs \subseteq Hashes
  /\ cache \in SUBSET SUBSET Hashes
  /\ cacheLock \in Procs \union {Free}
  /\ uploading \in [Procs -> Pubkeys \union {None}]
  /\ req \in [Procs -> Requests \union {Idle}]
  \* a request only waits at a call its handler makes, signed as it must be
  /\ \A p \in Procs : req[p] # Idle => /\ req[p].pc \in DOMAIN Calls[req[p].op]
                                       /\ req[p].pc # "start"
                                       /\ req[p].key \in Signers(req[p].op)

Doing(p, ops, h) == req[p].op \in ops /\ req[p].hash = h

\* A slot is held exactly by the uploads between acquire and release: no
\* early return of handleUploadPut leaks one (upload.go:309-377).
SlotsMatchUploads ==
  \A p \in Procs :
    uploading[p] = IF /\ req[p].op = "upload"
                      /\ req[p].pc \in {"stream", "store", "own", "revive",
                                        "release"}
                   THEN req[p].key ELSE None

\* Through all the handler's paths, uploads obey the limiter's contract.
ImplementsSlots == Slots!SafeSpec

\* Deletes of h that have removed its bytes and not yet refreshed the listing.
RefreshPending(h) ==
  \E p \in Procs : /\ Doing(p, {"hardDelete", "dashDelete", "blacklistAdd"}, h)
                   /\ req[p].pc \in {"disown", "revive", "invalidate"}

\* The cached listing outlives a deletion only while the handler that deleted
\* is still on its way to invalidateBlobCache: a listing scanned before the
\* delete cannot be cached after the invalidation, because the mutex is held
\* across storage.List (admin.go:64-83).
ListingNeverOutlivesDelete ==
  \A list \in cache, h \in Hashes :
    h \in list => h \in stored \/ RefreshPending(h)

\* h is banned and gone, and no upload or claim that was let in before the
\* ban is left.
Purged(h) ==
  /\ h \in blacklist
  /\ h \notin stored
  /\ \A p \in Procs : Doing(p, {"upload", "claim"}, h) =>
                        req[p].pc \in {"blocked", "blacklist"}

\* How a ban of h may end: it is lifted, or the process is killed while
\* blacklist.json does not hold it, or while somebody writes that file.
BanEnds(h) ==
  \/ \E p \in Procs : Unban(p) /\ req[p].hash = h
  \/ Restart /\ (h \notin blacklistFile \/ SavingBlacklist)

\* "a takedown that survives re-upload" (blacklist.go:12): a banned blob, once
\* purged with the uploads of its time, is never stored or owned again until
\* the entry is lifted, whatever other bans fail to be saved.  Through
\* restarts it lasts as long as the file holds it: a ban that was saved is lost
\* only with a later write of the file that is cut off.
BanSticks ==
  [][\A h \in Hashes :
       Purged(h) => \/ BanEnds(h)
                    \/ Purged(h)' /\ owners'[h] \subseteq owners[h]]_vars

\* k is blocked, and no request of k is past the check.
ShutOut(k) ==
  /\ k \in blocked
  /\ \A p \in Procs : req[p].op \in {"upload", "claim"} /\ req[p].key = k =>
                        req[p].pc = "blocked"

\* A banned pubkey (blocklist.go:11) becomes the uploader of nothing more,
\* however long it keeps trying and whatever was in flight has drained.
BlockedNeverOwns ==
  [][\A k \in Pubkeys :
       ShutOut(k) => \/ k \notin blocked'
                     \/ /\ ShutOut(k)'
                        /\ \A h \in Hashes : k \in owners'[h] => k \in owners[h]]_vars

\* "a non-admin request can NEVER delete bytes" (delete.go:19), nor drop
\* anybody else's claim to them.
NonAdminOnlyRetractsItself ==
  [][\A p \in Procs :
       Step(p) /\ req[p].key # Admin =>
         /\ stored \subseteq stored'
         /\ \A h \in Hashes : owners[h] \ owners'[h] \subseteq {req[p].key}]_vars

\* h is not stored, not even in part, nobody owns it, and nobody is about to:
\* no upload of it is past the store, and no claim past the look for its bytes.
Absent(h) ==
  /\ h \notin stored
  /\ ~Partial(h)
  /\ owners[h] = {}
  /\ \A p \in Procs : Doing(p, {"upload", "claim"}, h) => ~At(p, "own")

\* "no phantom ownership" (claim.go:52): a blob that is absent becomes owned
\* only after it is stored or, on the disk, after a store of it has begun.
\* Absent leaves out the claims that do make phantom owners: one that found
\* the bytes before a delete, and one that found the temporary file of a store
\* that was then killed or failed.
NoPhantomOwner ==
  [][\A h \in Hashes :
       Absent(h) => Absent(h)' \/ h \in stored' \/ Partial(h)']_vars

\* Every request ends, the ones that queue for the listing's mutex included.
EveryRequestReturns == \A p \in Procs : ~At(p, "idle") ~> At(p, "idle")

\* "A re-upload revives a quarantined blob" (upload.go:367), and so does a claim.
AcceptedUploadRevives ==
  \A p \in Procs, h \in Hashes :
    Doing(p, {"upload", "claim"}, h) /\ At(p, "own") ~> h \notin quarantine

\* A blob some stored event links to is known as referenced, but for the
\* moment between storing the event and indexing it.
Indexed(h) ==
  h \in mods => h \in refs \/ \E p \in Procs :
                                Doing(p, {"publish"}, h) /\ At(p, "note")

\* "Any drift errs only toward over-claiming" (blob_refs.go:27), which a
\* retraction relies on before it withholds a blob, is true of all that happens
\* to the index but of two things: an event stored by the ingest loop, which
\* does not tell the index, and a rebuild at startup that stops early.
IndexKeepsUp ==
  [][\A h \in Hashes :
       Indexed(h) => \/ Indexed(h)'
                     \/ \E p \in Procs : SaveEvent(p) /\ req[p].op = "ingest"
                     \/ Restart]_vars
-----------------------------------------------------------------------------
(* What comments in the code say, and overlapping requests can break.       *)

\* "a blob lands here when its last uploader retracts their upload and no
\* stored mod references it" (quarantine.go:12): whoever owns a blob can
\* have it downloaded.
WithheldOnlyUnowned == Quiet => \A h \in quarantine : owners[h] = {}
=============================================================================
