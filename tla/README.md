# Blossom Relay Server: verification

TLA+ models, TLC runs and TLAPS proofs for `degnode`, a Nostr node in Go that
stores blobs (a Blossom server over S3/R2 or a local disk) and relays the mods
that link to them. Paths below are relative to the repository; `server/` is
`src/internal/server/`, `storage/` is `src/internal/storage/`.

The code has no transactions. Each HTTP handler and relay callback is a chain of
calls on shared components, each component has its own mutex, and no lock spans
two of them. What makes it correct is which call comes before which, what each
early return leaves behind, and what a restart reads back. That is what the
modules model; hashes, keys, events and texts are opaque values.

## 1. Inventory

| Component | State | Operations | Hard behaviour | What makes it correct |
|---|---|---|---|---|
| Upload limiter (`server/limits.go`) | a channel of global slots, a map of busy pubkeys | acquire, release | check, unlock, take a slot, check again; two-part release | never two uploads of a pubkey, never more than the cap, no slot lost on any path |
| Upload (`server/upload.go`) | a spooled temporary file, a slot | PUT /upload | policy is read before a body of minutes and acted on after it; nine early returns | every path gives the slot back; bans stop every later upload |
| Claim, delete, retract (`server/claim.go`, `delete.go`, `admin.go`) | none of their own | PUT /claim, DELETE (two meanings), dashboard delete | check-then-act across store, owners, quarantine, index | a non-admin removes only its own claim; nothing is withheld that is in use |
| Owner registry, quarantine, blacklist, blocklist (`server/blob_owners.go`, `quarantine.go`, `blacklist.go`, `blocklist.go`) | a map and a JSON file each | add, remove, has | shared by all handlers; durability | bans stick, owners are never lost |
| Reference index (`server/blob_refs.go`) | hash -> events, in memory | note, refsFor, rebuild at startup | kept by a relay callback only, never shrinks | it falls behind the stored mods only by ingestion and a rebuild that stops early |
| Download gate (`server/gate.go`) | an HMAC key | proof of work, ad challenge, blacklist, quarantine | stateless tokens that expire | no download without its gate; withheld blobs are not served |
| Ad metrics (`server/ad.go`) | counts, two sets of addresses, a window, a file | view, click, rotate, save every 30 s | the edge of a window; the save against kills | an address counts once per window; counts reach the disk |
| Ad inventory (`server/ads_admin.go`) | the list, its signed event, a file, the event in the store | PUT, load, store again at startup | two stores of one thing | what is served is what the admin is shown |
| Listing cache (`server/admin.go:54-96`) | one listing, its time, a mutex | listBlobsCached, invalidateBlobCache | the mutex is held across a slow `storage.List` | no listing outlives a delete's invalidation; nobody waits for ever |
| Circuit breaker (`storage/breaker.go`) | failure counter, end of the open window | guard, record | calls let through before it opened report after | opens on consecutive failures only, spares a dead backend, tries again |
| R2 and disk backends (`storage/r2.go`, `disk.go`) | objects; files and temporary files | Store, Load, Has, Delete, Stat, List | what one operation resolved another removes; temporary files beside a prefix scan; answers that are lost | what is listed is whole, no temporary file leaks, an answer was true at some moment |
| Persistent JSON sets (seven registries of `server/`) | a map and its file | edit, save, load | snapshots and writes of two saves interleave; truncate-then-write; crashes | an edit whose save overlapped no other and did not fail survives a restart |
| Upload caps (`server/upload_caps.go`) | two sizes and a file | set, reset, load | reset removes the file another save writes | a restart loads what was set or reset last |
| Event policy and takedowns (`server/relay.go`, `banned_events.go`, `deletions.go`) | the event store, two registries | reject hooks, NIP-86 bans, NIP-09 deletions, sweep | takedown against re-publication and ingestion | what was taken down stays down while the process lives, and through a restart unless its file is in doubt |
| Ingest (`server/ingest.go`) | none; writes the event store | live subscription, backfill by pages | pagination at equal timestamps, filters outside the relay | every accepted event of the source arrives |
| Admin reads (`server/stats.go`, `events.go`, `config_view.go`, `index.go`) | none | GET | paging | pages neither skip nor repeat |
| Wiring, configuration, identity, announcement, dashboard | constants | start, stop | load before serve | - |

How they interact. The HTTP handlers call the registries, the limiter, the
storage and the cache in sequence; khatru calls the relay hooks, which write the
event store and the reference index; the ingest loop writes the event store
behind khatru's back; the storage interface is R2 behind the breaker or the disk;
the registries are loaded once in `New` before anything is served.

## 2. Modules

| Module | Models | Kind |
|---|---|---|
| `UploadSlots` | what the limiter promises: atomic admission | abstract specification |
| `UploadLimiter` | `limits.go`, one action per critical section or channel operation | implements `UploadSlots` |
| `UploadLimiter_proof` | | proofs |
| `BlobLifecycle` | the blob handlers and everything they share; uses `UploadSlots` as its admission step | composition |
| `BlobLifecycle_proof` | | proofs |
| `Breaker`, `Breaker_proof` | `breaker.go` | component |
| `PersistentSet`, `PersistentSet_proof` | how every registry, the upload caps and the ad inventory reach their file | component |
| `Takedown` | what the relay promises of the versions it holds: registers that only move to newer versions, deletions for good, bans until they are lifted | abstract specification |
| `RelayEvents`, `RelayEvents_proof` | implements `Takedown`: the write policy, publication and ingestion, NIP-09 deletions, event and pubkey bans, the sweep | composition |
| `BlobStorage`, `BlobStorage_proof` | the storage interface over `disk.go` and `r2.go`, one action per system call | component |
| `PagedWalk`, `PagedWalk_proof` | the three loops that walk the events in pages: `events.go`, `blob_refs.go`, `ingest.go` | pure loop over a changing store |
| `AdMetrics`, `AdMetrics_proof` | the counting windows of `ad.go` and their saver in `server.go` | component |
| `MC_*` | the instances for TLC | |

Definitions called "mutant of X" are wrong versions of the definition that
follows them, a plausible bug each. Replacing X by one breaks the property it is
listed with in `PROJECT.json`; nothing else refers to them.

### UploadLimiter and UploadSlots

`acquire` looks at the map (`Check`), drops the lock, takes a slot (`TakeToken`),
looks again and commits (`Recheck`), or puts the slot back (`GiveBack`). The
release function frees the pubkey (`ReleaseKey`) and then the slot
(`ReleaseToken`). `global` is the channel's length; a receive is only enabled
when there is an entry (`Drain`), so a lost entry would show as a blocked request.
`UploadSlots` knows only which request uploads for whom. The refinement maps a
request to its pubkey while it is between the commit and the start of release.
`maxConcurrent` is `max_concurrent_uploads` as the process read it, any integer of
`Configs`, which a restart may change; `Capacity` is its clamp.

### BlobLifecycle

A request is a record: its operation, blob, signer, the call it makes next (`pc`)
and, for a listing, what the scan returned. The tables `UploadCalls`,
`ClaimCalls`, ... give for every handler the order of its calls, as the source
has them; one action per call does what the call does to the shared state and
then goes on (`Proceed`), returns early (`Quit`) or, for an upload that holds a
slot, returns through its deferred release. Abstractions:

* A blob is its hash. The store is content-addressed, and at most one extension
  is in use per blob.
* Authentication is done: a request carries the key that signed it. `Signers`
  says which key each operation admits; a configuration without an admin is
  `Admin = None`.
* A storage call may be *refused* (fails without effect: the circuit is open) or
  *unacked* (takes effect and reports failure: its deadline passed).
* The blacklist's save may fail (*unsaved*), and leaves the file as it was or cut
  off, which a start reads as empty; a kill in the middle of a save cuts it off
  too. It is the registry whose handler returns early on that error. The other
  registries are durable when their call returns; when that holds of each, and what
  overlapping saves do to the file, is `PersistentSet`'s question.
* On the disk (`Disk`) a blob has a temporary file from the start of its store to
  the end, and after a kill in between for good (`orphans`, `Partial`). A lookup by
  bare hash may find it, so that a claim (`Has`) passes for a blob that is not
  stored, and a delete may remove it (`Erases`). The steps inside the store are
  `BlobStorage`'s.
* A restart rebuilds some part of the index, any part: `backfillRefs` stops at a
  query error and at a page of one second, and begins at the present.
* The admission step is `UploadSlots!Admit` or a refusal: the limiter may refuse
  although a slot is free, because the loser of its race holds one for a moment.
* The index is the set of hashes it claims; the text scan for URLs and the cap on
  references per blob are left out.

### Breaker

Time is counted in ticks relative to now. `Start` and `Return` are the two halves of
`guard`, with the mutex dropped in between; a running call carries what is left of
its deadline, and time does not pass it. A tick stands for a unit in which the
deadlines and the cooldown are whole numbers. `backoff` is the cooldown the breaker
was built with. `recent`, `spent` and `outage` are history variables: no action
reads them.

### PersistentSet

An edit changes the map (`Edit`), snapshots it (`Snapshot`), takes the save mutex
if the registry has one (`LockSaveMu`), truncates the file (`Truncate`) and writes
(`Write`). A file may hold nothing, one snapshot, or, where two writers filled it
without a mutex, a shorter snapshot over a longer one, which no loader parses. All
entries have one size, so a longer map is a longer file. `solo` is a history
variable: no save has overlapped another or failed since the last edit that began
alone. `kind` says which registry it is. The upload caps are a registry of at most
one value whose `ResetCaps` removes the file (`Unlink`) under the same mutex. The
ad inventory is signed and stored as an event (`served`), then published to other
relays, then kept in memory and written (`KeepInventory`); at startup the event of
the file is stored again (`Restored`) over a database that may be lost.

### BlobStorage

One blob, several operations on it, one action per system call or request to the
bucket. A request resolves a name first (`Exact`, then `Scan`, the same on both
backends) and uses it later (`Use`), when somebody may have removed it. On disk a
store creates a temporary file in the blob's own directory (`CreateTemp`), fills
it (`Copy`) and renames it; the prefix scan sees such files and the listing does
not. A bucket has no parts: `Put` appears whole, but its answer or that of a delete
may be lost. `Fail` ends an operation without effect. Abstractions:

* A blob has one extension, which its content decides; a request names it, another
  one, or none.
* Names are numbers: the stored blob is the least, as in the order in which a
  directory is read, in which a name precedes those it begins.
* `here` and `gone` are history: whether the blob was stored, and was not, at some
  moment since the operation began. `orphans` is history: what crashes left.
* A reader that has opened a file or an object reads what it opened; the bytes of a
  download are not modelled.

### PagedWalk

Each step is one page: a query for the newest events at or before the cursor, as
many as a page holds, those of one second in any order. The three loops differ in
what ends them (`Ends`), where they resume (`Resume`) and whose oldest second they
take (`Counted`). Between two pages events are stored and removed (`Change`).
`queryEventsPaged` may also stop in the middle of a page (`ReachLimit`) or at its
ceiling, and says so. `Page` is the number a query really returns at most: the
store's cap, or what a relay returns of the window it is asked for. An unreachable
relay answers with an empty page, which ends its walk like one that has no more.
Events that fail the policy count as visited: they were offered to it.

### AdMetrics

Views and clicks are counted once per address in a window (`Count`); the first to
come after its end resets both sets (`Rotates`). The saver snapshots the counts,
truncates the file and writes it; a failure is dropped and the next tick tries
again. The window is ticks; `age` is the time since it began. `last`, `prev` and
`thrice` are history. The process only ever ends by being killed: `main` leaves by
`os.Exit`, so the `Close` it defers, which would save the metrics, does not run.

### RelayEvents and Takedown

A process publishes (or mirrors) an event, carries out a deletion, or bans an
address or lifts a ban; `req` says what it is about and which call it makes next.
The policy (`Publish`: the event arrives and is not `Rejected`) and the store
(`Save`) are two steps, for khatru as for the ingest loop. A deletion finds its
targets when it arrives (`Delete`), has the outcome decided and recorded
(`Outcome`, which is `onDeletionOutcome`), erases the targets (`Erase`), and only
then is the kind-5 event offered to the policy (`Admit`) and kept (`Retain`) until
the sweep. A ban records first, then asks the store (`Query`) and erases.

Both registries are edited in `memory` under their lock (`Edit`) and saved without
any: `Open` copies the set and truncates the file, `Write` fills it. Saves of one
registry overlap, so an older copy may be written last, or over a newer one, which
leaves a mixture; each of the two calls may fail, before the file is touched or
after it is cut off. `file` is what a start would load, which is nothing when the
file is cut off or does not parse. After the save a deletion goes on whatever its
outcome, a ban only when it succeeded (`SaveEnds`). `spoilt` is history: the
registries whose last save failed or overlapped another.

`Takedown` has no requests, registries or files, only what the relay holds, what was
deleted for good, which addresses are down, and which of the two is in doubt. The
refinement maps the event store to the first, to the next two the deletions and bans
that are in force: recorded, carried out, and with nothing let in before them still
on its way (`DeletedUpTo`, `TakenDown`), and to the last the registries that
somebody is saving or that are `spoilt` (`InDoubt`). `Save` is then `Put`, `Erase`
is `Withdraw`, an unban is `Lift`, a restart is `Crash`, which may forget what is in
doubt and nothing else, and every other step stutters or is a `Settle`, the moment
at which a deletion or a ban comes into force.

Abstractions:

* An event is a version, by `created_at`, of an address `<kind>:<pubkey>:<d>`;
  versions of one second are one event. Events without a `d` tag, whose key is
  their id, are left out.
* Signatures are valid. An event that proof-of-work or its own form excludes does
  not arrive; no property needs to see it refused.
* A deletion names one target. A kind-5 event with several is that many deletions
  in sequence, and its offer is one of them.
* Khatru and badger are external: a deletion's effect comes before the policy
  looks at its event, an unauthorised deletion ends there, a deletion by address
  asks for versions up to its own `created_at` and one by id for that event; the
  store's `ReplaceEvent` keeps the newest version.
* `banned_events.json` and `deletions.json` may fail to be saved (`SaveFails`),
  which the ban's handler reports and the deletion ignores. What a mixed or partial
  file holds is not told apart: none of it parses. The blocklist is durable when a
  ban returns.

## 3. Runs

| Run | Question | Bounds | Result |
|---|---|---|---|
| `limiter` | Does the racing limiter admit one upload per pubkey, leak nothing and implement `UploadSlots`? | 3 requests, 3 pubkeys, caps of 2, 0 and -1, restarts | holds |
| `blob_takedown` | Do bans stick, do slots balance, does an absent blob stay without owners, does the index keep up with the mods, under failures and restarts? | 2 requests, 1 blob on disk, 2 keys, 1 slot, all failures, 11 operations, ingestion among them | holds |
| `blob_sharing` | Who may remove what, is the listing fresh, does every request return? | 2 requests, 1 blob, 3 keys, owner cap 2, 7 operations, fairness | holds |
| `breaker` | When does the circuit open, how long, how much reaches the backend? | 4 callers, threshold 2, cooldowns 2 and 4, deadlines 1 and 3 | holds |
| `persistent_set` | When is an edit durable, when is a file whole, is the inventory served the one shown? | 3 editors, 2 entries, four kinds, crashes and full disk | holds |
| `relay_events` | Do takedowns, deletions and pubkey bans stick, what may be erased, and is `Takedown` implemented? | 2 processes, 1 mod, 2 keys, 2 points in time, overlapping and failing saves, restarts | holds |
| `blob_storage` | Is what is listed whole, do temporary files leak, are answers true? | 3 operations, 2 temporary names, both backends, all failures, crashes | holds |
| `paged_walk` | Does a walk skip anything, and does it end? | 7 events in 3 seconds, pages of 3, limit 3, ceiling 5, 2 changes | holds |
| `ad_metrics` | How often does an address count, and do counts reach the disk? | 1 ad, 1 address, a window of 2 ticks, counts to 3, kills | holds |
| `blob_withheld_owned` | Is a withheld blob without owners? | 2 requests | violated |
| `breaker_canceled` | Does the circuit open only when the backend failed? | 2 callers, threshold 2 | violated |
| `blob_storage_partial` | Is only found what was stored? | 2 operations on disk, no crash | violated |

Why the bounds are enough. The races of this code are between two handlers, and
every pair of the operations in a run meets at every pair of calls with two
requests; a third party acts without being a request (the ban of a pubkey, the
unlinking of an event, the cache's expiry, a restart). In the limiter three requests
let two of one pubkey race while a third competes for slots, and there are more
pubkeys than slots; under a cap of zero or less there is one slot. The breaker's
shorter cooldown is below its longest deadline, as in the code (60 seconds against
five minutes), so results from before an opening arrive during and after it; the
longer one lets such a result come back at the very end of the outage. Two of the
four callers open the circuit and the other two, late, open it again, so that the
bound of `OutageBounded` is reached: with one tick less TLC finds it violated. In
`PersistentSet` two saves overlap while a third edit changes the map between their
snapshots. In `BlobStorage` three operations are a store, a delete and a reader, or
two stores of one blob and a third that resolves it. In `PagedWalk` a page holds
three events: one second has as many, the others fewer, so that a second fills a
page, or is divided between two. In `AdMetrics` a window of two ticks and three
counts reach over the edge of two windows; the two kinds share the window, two
addresses share nothing else. In `RelayEvents` two points in time give a version and
its successor, and deletions dated before, at and after each; one address is enough
because no step relates two; the processes are interchangeable, hence the symmetry
(the run has no liveness). Its kind is a mod: the admin's tag overlays, other kinds
and `accept_all_kinds` are covered by the proofs, which are for every kind and both
policies. The two blob runs split the operations so that each stays exhaustive:
pairs across them (a ban against a retraction) are covered by the proofs, which are
for all operations at once, except for the liveness properties. Deadlock is checked
in every run. The bounded counters are history (`OutageCap`, the length of
`recent`), the changes of the store during a walk (`MaxChurn`) and the counts of an
ad (`MaxCount`).

Violations. Each states a sentence of the code's own comments and shows a
schedule that breaks it; `PROJECT.json` quotes them under `findings`.

1. `quarantine.go:12`: a claim or an upload between `removeOne` and
   `quarantine.add` leaves a blob withheld that has an uploader.
2. `breaker.go:16`, "backend presumed down": a client that hangs up counts as a
   failure of the backend.
3. `disk.go:17`, "Writes are atomic": the prefix scan resolves the temporary file of
   a store in progress, so a reader finds a blob that was never stored, and may
   read a part of it. `AnswersHold` bounds the damage: a temporary file is resolved
   only while no blob is stored.

Gaps that are understood but have no run, because a passing property says what
holds instead. The models have each schedule:

* `admin.go:261`, "removed now": an upload past its blacklist check (`CheckBlacklist`)
  stores the blob after the ban's purge. It is not served (`BanSticks` holds for
  every later upload) and stays stored.
* `blob_refs.go:27`, "errs only toward over-claiming": the ingest loop stores events
  (`IngestCalls`) without indexing them, and the rebuild at startup, which would
  make up for it, ends at a query error (`blob_refs.go:173`) or a second that fills a
  page (`:191`) and leaves out events dated later than the start (`:169`). A
  retraction can then withhold a blob that a stored mod links to. `IndexKeepsUp`
  says that nothing but these two lets the index fall behind.
* `blob_owners.go:92`, "Persists on change": the snapshot is taken before the save
  mutex, so the older of two may be written last and a restart forgets the newer
  edit. `SoloEditsStick` holds for edits whose save overlaps no other.
* `banned_events.go:15`, "a takedown survives re-publishing", and `deletions.go:25`,
  "a delete survives the node re-mirroring": the registries' files are written by
  `os.WriteFile` of a copy, under no mutex (`banned_events.go:79`,
  `deletions.go:63`). A save that fails or is killed may cut the file off, and of two
  that overlap the older copy may be written last or the two be mixed. All of that
  shows at the next restart only: bans and deletions are then forgotten, also those
  that an earlier save had on file for long. `TakedownSticks` and `DeletionSticks`
  hold but for a restart while the file is in doubt, and the first edit whose save
  is whole and alone ends the doubt (`FilesMatch`). The same is true of
  `blacklist.json` (`BanEnds`).
* `deletions.go:14`, "captured permanently", and `deletions.go:69`, "so re-ingest
  can't resurrect it": a deletion by id dated before its target removes the mod and
  leaves a record that does not bar it. `RecordedBeforeErased` holds by address.
* `claim.go:52`, "no phantom ownership": a delete between the existence check and
  `owners.add` leaves an owner of a blob that is gone, and on the disk so does a
  claim that found the temporary file of a store which then fails or is killed.
  `NoPhantomOwner` says that a blob that is absent altogether, its temporary files
  included, gets no owner before a store of it begins.
* `r2.go:94`: a listing that fails is reported as a blob that is not there.
  `AnswersHold` excepts just those answers.
* `events.go:104`: after a query that fails, the search returns `truncated = false`,
  which says that nothing is missing. `PagedWalk` calls such a walk `failed`, and
  `NothingSkipped` speaks of it only up to its cursor.
* A ban of an event erases what it found even when it was lifted meanwhile
  (`Unban` between `Query` and `Erase`). `RemovalJustified` counts it as a ban.

## 4. Fairness

* `UploadLimiter`: weak fairness of every request inside acquire or release and
  of the end of an admitted upload; a goroutine is scheduled again, and
  `streamBody` bounds an upload by its idle timeout and minimum rate.
* `BlobLifecycle`: strong fairness of each request's next call. Storage calls
  return: the breaker gives them deadlines, and `List`, which the breaker does not
  guard, ends with minio's transport timeouts. Strong rather than weak because
  requests queue for the listing's mutex: `sync.Mutex` in starvation mode hands
  itself to the longest waiter, which weak fairness would not express. Nothing is
  assumed about the arrival of requests, the cache's expiry or restarts.
* `Breaker`: time passes, and a call whose context has expired returns.
* `PagedWalk`: weak fairness of the loop's next page; each query answers.
* `AdMetrics`: weak fairness of the saver's ticker, strong fairness of its two
  steps: the disk may fail again and again, but not each time for ever.
* `PersistentSet`, `RelayEvents` and `BlobStorage` claim no liveness.

## 5. Proofs

All theorems are for any number of requests, keys, blobs and entries, and for all
operations, failures and crashes at once, unless stated. The assumptions are the
named ASSUMEs of each module: disjointness of the null values, positive bounds,
finite sets where a cardinality is taken.

Every invariant and action property that a passing run checks is proved, one of
them (`ListingFresh`) under an assumption stated below. Three more
kinds of theorem say what no run does:

* Each violated sentence has a theorem that marks out its extent. A withheld blob
  with an owner takes two overlapping requests or a crash (`SerialNeverWithholds`);
  a circuit opened by no failure of the backend takes `Threshold` cancellations in
  a row, nothing less (`HangUpsAlone`); a blob found that was never stored takes the
  disk (`BucketsHoldBlobs`).
* The safety half of liveness. That something ends needs fairness, which is
  model-checked; that nothing but scheduling can prevent it is proved. Every call
  leaves a handler fewer to make (`HandlersRunOut`) and nobody keeps the listing's
  mutex (`MutexNeverLeaks`); each step of `acquire` and release is one of five at
  most (`RequestsRunOut`) and their receives never block (`NeverBlocks`); each page
  moves the cursor back (`WalksRunOut`); no save keeps its mutex
  (`SaveMutexNeverLeaks`).
* Both abstract specifications are implemented, step by step (`RefinesSlots`,
  `HandlersObeySlots`, `RefinesTakedown`).

By module:

* `UploadLimiter_proof`. Type correctness; `SlotsNeverLeak` (the channel holds one
  entry per request between taking and putting back): inductive with the typing, a
  set-cardinality argument per action. `KeysExact` and `OnePerPubkey` need each
  other: the second look refuses a pubkey of the map, and the map holds exactly the
  admitted ones. `CapRespected` follows because the admitted are among the holders.
  `RefinesSlots` maps `Recheck` to `Admit`, `ReleaseKey` to `Finish`, and every
  other step to a stutter. `EmptyAdmits` and all the others are for every configured
  integer. `NeverBlocks` reads off the count: whoever is about to receive is a
  holder.
* `BlobLifecycle_proof`. `SlotInv` (typing, every request at a call of its own
  handler with an admissible signer, slots match) is the base. `BansStick` and
  `BlockHolds` are action properties: the lemmas on `Step` say which calls can add
  bytes or owners and that a request reaches them only through the check.
  `RetractsItself` needs the typing of signers. `ListingFresh` strengthens the
  property with the mutex's holder and what a scan in progress has seen; it assumes
  that no deletion takes effect and reports failure (then the handler returns
  without invalidating, and the listing is stale until it expires). `IndexDrifts`
  goes through the calls: only `SaveEvent` makes a blob referenced, and a
  publication then stands before `Note`. `HandlersObeySlots` is the refinement of
  `UploadSlots`; it is proved here for the handlers and no run checks it; that of
  the limiter is proved and model-checked. `NoPhantoms` needs that a claim comes to
  `owners.add` from its look only (`IntoOwn`, `Before`), and what the look can find.
  The serial theorems assume one request slot and no crashes. Their invariants
  (`SerialInv`, `StoredInv`) say what the one handler has established at each of its
  calls: between `removeOne` and `quarantine.add` the blob has no owners, between
  the erasure and `owners.remove` it may have owners without bytes, and at no other
  time. `SerialNeverPhantom` assumes besides that no storage call takes effect and
  reports failure: after such a delete the handler returns and leaves the owners.
  `MutexNeverLeaks` goes through every early return that holds the mutex.
  `HandlersRunOut` is a measure (`Remaining`) on the call a request makes next.
* `Breaker_proof`. The counter stays below the threshold. `BackendSpared`: calls
  let through are those running plus the failures counted. `OutageIsBounded`: the
  invariant relates the outage's length to what is left of the deadlines of calls
  let through before it. `ConsecutiveOnly`: the last `failures` outcomes
  remembered are failures; with the type of outcomes `HangUpsAlone` follows.
* `PersistentSet_proof`. `FilesAreWhole`: the holder of the mutex is alone past the
  lock and writes over an empty file. `SoloEditsAreDurable`: what a lone editor is
  about to write is the map. `InventoryIsEchoed` adds that what it has published is
  what it is about to keep, and rests on the same invariant, because the file that
  a restart stores again must be whole. `SaveMutexNeverLeaks` is the converse of
  the mutual exclusion `FilesAreWhole` rests on: who holds the mutex is writing.
* `BlobStorage_proof`. The invariant `IInv` gives every operation in progress what
  it knows (`AllSound`: what it resolved was there, and what it answers was seen)
  and every temporary file its owner (`Owned`). `BecomeKeeps` says once how a call
  of one operation touches the history of all others; each action then only has to
  say where it leaves its own request. Temporary names need not be finite.
  For a bucket the invariant adds `OneName`: no temporary name exists or is
  resolved, so what is found is the blob.
* `PagedWalk_proof`. `LeftOutIsOldest`: what a full page leaves out is no newer than
  its oldest event. `EndsEarlyOnlyInCrowd`: a loop that stops at a full page has met
  a second with a page of events. The invariant adds to `NothingSkipped` that the
  rebuild has visited nothing older than its cursor (`CursorBelow`). `WalksRunOut`
  follows from what ends a loop: a page that is not the last has an event older than
  the cursor.
* `AdMetrics_proof`. The invariant `Spaced` relates the window's age to when a key
  was counted last and before: what a rotation forgets is older than the window.
  `DiskIsNeverAhead` carries with the file what the saver is about to write, since
  counts only grow under it.
* `RelayEvents_proof`. `TypeCorrect` includes that the store holds one version of
  each address. `ReqMoves` says how a request comes to a dangerous call, and
  `NewVersion`, `NewlyPassed` that a version enters the store only past the policy.
  With them `TakedownsStick`, `DeletionsStick` and `BlocksHold` are one step each:
  the registry keeps what bars the event (`MemoryMoves`, `RecordKept`), so the
  policy rejects it. Restarts need the invariant `SaveInv`: a registry that is not
  spoilt has at most one save under way, that save's copy is what is in memory, and
  with none under way the file is what is in memory. So a restart loses only what is
  in doubt (`Restarted`, and `FilesMatch` as a theorem of its own).
  `RemovalsJustified` and `RecordedFirst` need the invariant `TargetInv`: a request
  holds what its query asked for, and a deletion about to erase is its author's and
  on record. `RefinesTakedown` rests on the same facts: `BarsKept` says that what is
  in force stays in force but for an unban or a crash in doubt, and that nothing
  held is barred, and a step that changes the store is a `Put` past the policy
  (`PutStep`) or an erasure of one address (`WithdrawStep`).

Model-checked only: all liveness (`CapacityComesBack`, `EveryRequestReturns`,
`AcceptedUploadRevives`, `ProbesAgain`, `WalkEnds`, `CountsPersist`), and the
fairness part of `UploadLimiter`'s refinement (`ImplementsSlots` as checked includes
it; `RefinesSlots` proves the safety part). Liveness is out of the prover's reach.

## 6. Not modelled, and why

The parsing of authentication events and of mods, URL extraction, MIME checks,
the normalisation of ads, formatting and the dashboard: sequential data processing
without state. The proof-of-work and ad challenges are stateless: an HMAC over the
blob, the address and an expiry, so a valid proof is an input to the models.
`config.go` turns a file and the environment into constants, `identity.go` reads or
makes one key at startup, `announce.go` publishes without remembering: there is no
state whose interleavings matter. `stats.go` and `config_view.go` read and format.
Khatru, badger, minio and the relay pool are external; the models take from them
only what the code relies on.

## 7. Plan

Done, in this order of importance: the admission of uploads, the blob handlers,
the breaker, the persistence of registries, the events of the relay, the storage
backends, the paged walks, the ad metrics and inventory, the upload caps, the
promise of takedowns and its refinement. Next:

1. In `RelayEvents`, several targets per deletion; events without a `d` tag; runs
   for tag overlays and for `accept_all_kinds`, whose deletions of other kinds are
   not recorded.
2. The full composition of `BlobStorage` with the blob handlers. `BlobLifecycle` has
   the temporary files as far as a claim and a delete meet them, not what a download
   reads of one.
3. Owner registry and index with their caps and the text scan, against the set of
   all events that link to a blob.
4. Proofs: an abstract specification of the blob library (who may read and who may
   remove a blob) that `BlobLifecycle` implements where requests do not overlap.
