---------------------------- MODULE RelayEvents ----------------------------
(***************************************************************************)
(* The events of the relay: publication and ingestion under the write       *)
(* policy of internal/server/relay.go, authors' NIP-09 deletions, the       *)
(* moderator's event bans, pubkey bans and the sweep of spent deletions.    *)
(* An event arrives from a client through khatru or from the ingest loop;   *)
(* both look at the policy first and write the event store second, and      *)
(* nothing holds the two together.  Deletions and bans are chains of calls  *)
(* as well, and all of them interleave, the writes of their registries'     *)
(* files included: a save copies the set, truncates the file and fills it,  *)
(* under no mutex of its own.                                               *)
(*                                                                         *)
(* Abstractions.  An event is a version, by created_at, of its addressable  *)
(* coordinate; kinds without a d tag are not modelled.  Signatures are      *)
(* valid.  A publication that the policy, proof-of-work or its own form     *)
(* excludes does not arrive.  A deletion names one target.  The blocklist   *)
(* is durable when a ban returns.                                           *)
(***************************************************************************)
EXTENDS Naturals, FiniteSets

CONSTANTS Procs,        \* events, deletions and admin calls under way
          Authors,      \* keys that sign
          Admin,        \* relay.admin_npub, or somebody who never signs
          Coordinates,  \* "<kind>:<pubkey>:<d>", see Coordinate
          MaxTime,      \* created_at runs from 1 to MaxTime
          AcceptAll,    \* relay.accept_all_kinds
          SaveFails,    \* may a registry's save fail?
          Crashes       \* may the process be killed and restarted?

\* acceptedKind: mods, jams and legacy mods; the admin's tag overlays; the rest.
Kinds == {"mod", "tag", "other"}

Coordinate == [kind : Kinds, author : Authors]

ASSUME RelayAssumption ==
  /\ Coordinates \subseteq Coordinate
  /\ MaxTime \in Nat \ {0}
  /\ AcceptAll \in BOOLEAN
  /\ SaveFails \in BOOLEAN
  /\ Crashes \in BOOLEAN

VARIABLES
  store,     \* the event store: the version it has of each coordinate
  retained,  \* authors of the kind-5 events in the store
  memory,    \* the two registries: bannedEv, a set of coordinates, and
             \* deletions, the created_at of the newest deletion recorded for
             \* a coordinate, 0 when there is none
  file,      \* banned_events.json and deletions.json: what a start would load
             \* from them, nothing when the file is cut off or does not parse
  blocked,   \* blocklist.json: pubkeys
  req,       \* each process: what it does and the call it makes next
  (* history: read by properties, guards no action *)
  spoilt     \* registries whose last save failed or overlapped another

registries == <<memory, file, blocked, spoilt>>
vars == <<store, retained, registries, req>>

Times == 1 .. MaxTime
Events == [coord : Coordinates, at : Times]
Marks == [Coordinates -> 0 .. MaxTime]

Empty == [bans |-> {}, deletions |-> [c \in Coordinates |-> 0]]

banned == memory.bans
deleted == memory.deletions

\* NoName: the deletion names a coordinate and not the id of one version.
NoName == 0

Publishing == [op : {"publish"}, pc : {"save"}, event : Events]
Deleting == [op : {"delete"}, pc : {"outcome", "open", "write", "erase"},
             coord : Coordinates, named : Times \union {NoName},
             by : Authors, at : Times, target : SUBSET Events, snap : Marks]
Offering == [op : {"offer"}, pc : {"admit", "retain"}, by : Authors]
Moderating == [op : {"ban", "unban"}, pc : {"open", "write", "query", "erase"},
               coord : Coordinates, target : SUBSET Events,
               snap : SUBSET Coordinates]
Idle == [op |-> "none", pc |-> "idle"]

Init ==
  /\ store = {}
  /\ retained = {}
  /\ memory = Empty
  /\ file = Empty
  /\ blocked = {}
  /\ req = [p \in Procs |-> Idle]
  /\ spoilt = {}

At(p, call) == req[p].pc = call

GoTo(p, call) == req' = [req EXCEPT ![p].pc = call]

\* What is left of a deletion whose effect is done: the kind-5 event itself.
Offered(k) == [op |-> "offer", pc |-> "admit", by |-> k]

Done(p) == req' = [req EXCEPT ![p] = Idle]

Start(p, r) == At(p, "idle") /\ req' = [req EXCEPT ![p] = r]
-----------------------------------------------------------------------------
(* The registries' files                                                   *)

RegistryOf(r) == IF r.op = "delete" THEN "deletions" ELSE "bans"

\* p is between the edit of g's set and the end of the save that follows it.
Saving(p, g) ==
  req[p].pc \in {"open", "write"} /\ RegistryOf(req[p]) = g

\* The set changes under its lock; the save that follows runs without it.
Edit(p, g, set) ==
  /\ memory' = [memory EXCEPT ![g] = set]
  /\ spoilt' = IF \E q \in Procs \ {p} : Saving(q, g)
               THEN spoilt \union {g} ELSE spoilt \ {g}

\* What follows a save: a deletion is carried out, saved or not; a ban only
\* when it is saved; nothing follows the lifting of one.
SaveEnds(p, saved) ==
  LET r == req[p]
  IN  req' = [req EXCEPT ![p] =
        IF r.op = "delete"
        THEN [r EXCEPT !.pc = "erase", !.snap = Empty.deletions]
        ELSE IF r.op = "ban" /\ saved
        THEN [r EXCEPT !.pc = "query", !.snap = Empty.bans]
        ELSE Idle]

SaveBreaks(p, g) ==
  /\ SaveFails
  /\ SaveEnds(p, FALSE)
  /\ spoilt' = spoilt \union {g}

\* save: the set is copied and os.WriteFile truncates the file, or cannot open it.
Open(p) ==
  /\ At(p, "open")
  /\ LET g == RegistryOf(req[p]) IN
       \/ /\ file' = [file EXCEPT ![g] = Empty[g]]
          /\ req' = [req EXCEPT ![p].snap = memory[g], ![p].pc = "write"]
          /\ UNCHANGED spoilt
       \/ SaveBreaks(p, g) /\ UNCHANGED file
  /\ UNCHANGED <<store, retained, memory, blocked>>

\* The copy is written.  Over what another save has put there meanwhile it may
\* leave a mixture, and a write that fails is cut off: neither parses.
Write(p) ==
  /\ At(p, "write")
  /\ LET g == RegistryOf(req[p]) IN
       \/ /\ \/ file' = [file EXCEPT ![g] = req[p].snap]
             \/ file[g] # Empty[g] /\ file' = [file EXCEPT ![g] = Empty[g]]
          /\ SaveEnds(p, TRUE)
          /\ UNCHANGED spoilt
       \/ /\ SaveBreaks(p, g)
          /\ file' \in {file, [file EXCEPT ![g] = Empty[g]]}
  /\ UNCHANGED <<store, retained, memory, blocked>>
-----------------------------------------------------------------------------
(* Publishing                                                              *)

AcceptedKind(kind) == kind \in {"mod", "tag"}

RejectedUnlessDeleted(e) ==   \* mutant of Rejected
  \/ e.coord.author \in blocked
  \/ e.at <= deleted[e.coord]

RejectedUnlessBlocked(e) ==   \* mutant of Rejected
  \/ e.coord \in banned
  \/ e.at <= deleted[e.coord]

\* rejectEvent, but for proof-of-work and form.
Rejected(e) ==
  \/ e.coord.author \in blocked
  \/ e.coord \in banned
  \/ e.at <= deleted[e.coord]
  \/ ~AcceptAll /\ ~AcceptedKind(e.coord.kind)
  \/ ~AcceptAll /\ e.coord.kind = "tag" /\ e.coord.author # Admin

\* An event arrives, from a client or from a relay that is mirrored, and the
\* policy lets it pass.
Publish(p, e) ==
  /\ ~Rejected(e)
  /\ Start(p, [op |-> "publish", pc |-> "save", event |-> e])
  /\ UNCHANGED <<store, retained, registries>>

ReplaceWithLast(e) ==   \* mutant of ReplaceEvent
  store' = {old \in store : old.coord # e.coord} \union {e}

\* The event store's ReplaceEvent keeps the newest version.
ReplaceEvent(e) ==
  store' = IF \E old \in store : old.coord = e.coord /\ old.at >= e.at
           THEN store
           ELSE {old \in store : old.coord # e.coord} \union {e}

SaveEvent(p) ==   \* mutant of Save
  /\ At(p, "save")
  /\ store' = store \union {req[p].event}
  /\ Done(p)
  /\ UNCHANGED <<retained, registries>>

Save(p) ==
  /\ At(p, "save")
  /\ ReplaceEvent(req[p].event)
  /\ Done(p)
  /\ UNCHANGED <<retained, registries>>
-----------------------------------------------------------------------------
(* An author's deletion: khatru runs it before the kind-5 event itself is   *)
(* offered to the policy.                                                  *)

\* What a deletion asks the store for: by coordinate, no version newer than
\* itself; by id, exactly that version.  A ban asks for the coordinate.
Names(r, e) ==
  /\ e.coord = r.coord
  /\ r.op = "delete" => IF r.named = NoName THEN e.at <= r.at ELSE e.at = r.named

\* The deletion arrives and khatru queries the store for what it names.
Delete(p, c, named, k, t) ==
  /\ LET r == [op |-> "delete", pc |-> "outcome", coord |-> c, named |-> named,
               by |-> k, at |-> t, target |-> {}, snap |-> Empty.deletions]
         found == {e \in store : Names(r, e)}
     IN  Start(p, IF found = {} THEN Offered(k) ELSE [r EXCEPT !.target = found])
  /\ UNCHANGED <<store, retained, registries>>

RecordedLast(c, t) == [deleted EXCEPT ![c] = t]   \* mutant of Recorded

\* deletions.record keeps the newest.
Recorded(c, t) == [deleted EXCEPT ![c] = IF t > @ THEN t ELSE @]

AnyoneMay(r) == TRUE   \* mutant of MayDelete

MayDelete(r) == r.by = r.coord.author

OutcomeUnsaved(p) ==   \* mutant of Outcome
  /\ At(p, "outcome")
  /\ LET r == req[p] IN
       IF MayDelete(r)
       THEN memory' = [memory EXCEPT !.deletions = Recorded(r.coord, r.at)] /\ GoTo(p, "erase")
       ELSE Done(p) /\ UNCHANGED memory
  /\ UNCHANGED <<store, retained, file, blocked, spoilt>>

\* onDeletionOutcome: the author's deletion is recorded, and then carried out;
\* anybody else's ends here, and with it the kind-5 event.
Outcome(p) ==
  /\ At(p, "outcome")
  /\ LET r == req[p] IN
       \/ /\ MayDelete(r) /\ AcceptedKind(r.coord.kind)
          /\ Edit(p, "deletions", Recorded(r.coord, r.at))
          /\ GoTo(p, "open")
       \/ /\ MayDelete(r) /\ ~AcceptedKind(r.coord.kind)
          /\ GoTo(p, "erase") /\ UNCHANGED <<memory, spoilt>>
       \/ ~MayDelete(r) /\ Done(p) /\ UNCHANGED <<memory, spoilt>>
  /\ UNCHANGED <<store, retained, file, blocked>>

\* DeleteEvent for what the query found, which may be gone or replaced by now.
Erase(p) ==
  /\ At(p, "erase")
  /\ store' = store \ req[p].target
  /\ IF req[p].op = "delete"
     THEN req' = [req EXCEPT ![p] = Offered(req[p].by)]
     ELSE Done(p)
  /\ UNCHANGED <<retained, registries>>

\* The kind-5 event goes through rejectEvent, which knows no other objection
\* to it than its author, and is stored.
Admit(p) ==
  /\ At(p, "admit")
  /\ IF req[p].by \in blocked THEN Done(p) ELSE GoTo(p, "retain")
  /\ UNCHANGED <<store, retained, registries>>

Retain(p) ==
  /\ At(p, "retain")
  /\ retained' = retained \union {req[p].by}
  /\ Done(p)
  /\ UNCHANGED <<store, registries>>

\* sweepDeletionEvents: spent kind-5 events go, the record stays.
Sweep(k) ==
  /\ k \in retained
  /\ retained' = retained \ {k}
  /\ UNCHANGED <<store, registries, req>>
-----------------------------------------------------------------------------
(* The moderator                                                           *)

Moderation(op, c) ==
  [op |-> op, pc |-> "open", coord |-> c, target |-> {}, snap |-> Empty.bans]

\* bannedEv.ban, first half; when it cannot be saved handleBanEvent returns
\* before it deletes the stored version, with the ban in memory.
Ban(p, c) ==
  /\ Start(p, Moderation("ban", c))
  /\ Edit(p, "bans", banned \union {c})
  /\ UNCHANGED <<store, retained, file, blocked>>

\* bannedEv.unban, first half.
Unban(p, c) ==
  /\ Start(p, Moderation("unban", c))
  /\ Edit(p, "bans", banned \ {c})
  /\ UNCHANGED <<store, retained, file, blocked>>

\* deleteStoredByKey asks the store for the banned coordinate.
Query(p) ==
  /\ At(p, "query")
  /\ req' = [req EXCEPT ![p].target = {e \in store : Names(req[p], e)},
                        ![p].pc = "erase"]
  /\ UNCHANGED <<store, retained, registries>>

BlockPubkey(k) ==
  /\ blocked' = blocked \union {k}
  /\ UNCHANGED <<store, retained, memory, file, spoilt, req>>

AllowPubkey(k) ==
  /\ blocked' = blocked \ {k}
  /\ UNCHANGED <<store, retained, memory, file, spoilt, req>>

\* The process is killed and started again: loadBannedEvents, loadDeletions.
Restart ==
  /\ Crashes
  /\ memory' = file
  /\ spoilt' = {}
  /\ req' = [p \in Procs |-> Idle]
  /\ UNCHANGED <<store, retained, file, blocked>>

Step(p) == \/ Save(p)
           \/ Outcome(p) \/ Open(p) \/ Write(p) \/ Query(p) \/ Erase(p)
           \/ Admit(p) \/ Retain(p)

Arrive(p) ==
  \/ \E e \in Events : Publish(p, e)
  \/ \E c \in Coordinates, named \in Times \union {NoName}, k \in Authors, t \in Times :
       Delete(p, c, named, k, t)
  \/ \E c \in Coordinates : Ban(p, c) \/ Unban(p, c)

Next ==
  \/ \E p \in Procs : Arrive(p) \/ Step(p)
  \/ \E k \in Authors : BlockPubkey(k) \/ AllowPubkey(k) \/ Sweep(k)
  \/ Restart

Spec == Init /\ [][Next]_vars
-----------------------------------------------------------------------------
\* Types, and at most one version of each coordinate in the store.
TypeOK ==
  /\ store \subseteq Events
  /\ \A e, f \in store : e.coord = f.coord => e = f
  /\ retained \subseteq Authors
  /\ memory \in [bans : SUBSET Coordinates, deletions : Marks]
  /\ file \in [bans : SUBSET Coordinates, deletions : Marks]
  /\ blocked \subseteq Authors
  /\ spoilt \subseteq {"bans", "deletions"}
  /\ req \in [Procs -> Publishing \union Deleting \union Offering
                       \union Moderating \union {Idle}]

\* What a restart may lose: a registry that somebody is saving, or whose last
\* save failed or overlapped another.
InDoubt(g) == g \in spoilt \/ \E p \in Procs : Saving(p, g)

\* Publications that are past the policy and not yet in the store.
Passed == {req[p].event : p \in {q \in Procs : At(q, "save")}}

\* c is banned, its version is gone and none is on its way.
TakenDown(c) ==
  /\ c \in banned
  /\ \A e \in store \union Passed : e.coord # c

\* "a takedown survives re-publishing (of the same address)" (banned_events.go:15):
\* until it is lifted, whoever publishes or mirrors; and through restarts too,
\* unless the process is killed while the bans on file are in doubt, be it for
\* the sake of another ban.
TakedownSticks ==
  [][\A c \in Coordinates :
       TakenDown(c) => \/ TakenDown(c)'
                       \/ \E p \in Procs : Unban(p, c)
                       \/ Restart /\ InDoubt("bans")]_vars

\* A deletion of c up to time t is recorded and carried out, and nothing it
\* covers is on its way.
DeletedUpTo(c, t) ==
  /\ deleted[c] >= t
  /\ \A e \in store \union Passed : e.coord = c => e.at > t

\* "so a delete survives the node re-mirroring the original event from another
\* relay" (deletions.go:26), whatever older deletions are recorded after it and
\* though its kind-5 event is swept; only a process that is killed while the
\* record on file is in doubt may forget it.
DeletionSticks ==
  [][\A c \in Coordinates, t \in Times :
       DeletedUpTo(c, t) => \/ DeletedUpTo(c, t)'
                            \/ Restart /\ InDoubt("deletions")]_vars

Promise == INSTANCE Takedown WITH
             held <- store,
             gone <- {e \in Events : DeletedUpTo(e.coord, e.at)},
             down <- {c \in Coordinates : TakenDown(c)},
             doubt <- {g \in {"bans", "deletions"} : InDoubt(g)}

\* Seen from outside, the relay keeps the promise of Takedown: its addresses
\* only move to newer versions ("keeps the latest per coordinate", ingest.go:47),
\* and what deletions and bans removed stays out, through every race; a crash
\* takes back only what the files did not hold for certain.
ImplementsTakedown == Promise!Spec

\* k is blocked and nothing of k is past the policy.
ShutOut(k) ==
  /\ k \in blocked
  /\ \A e \in Passed : e.coord.author # k
  /\ \A p \in Procs : At(p, "retain") => req[p].by # k

\* "blocked: pubkey is banned" (relay.go:60): a banned pubkey adds nothing to
\* the event store, its deletions' own events included.
BlockedAddsNothing ==
  [][\A k \in Authors :
       ShutOut(k) => \/ k \notin blocked'
                     \/ /\ ShutOut(k)'
                        /\ \A e \in store' : e.coord.author = k => e \in store
                        /\ k \in retained' => k \in retained]_vars

\* Why request r may take the version e out of the store: a ban of e's address,
\* lifted meanwhile or not, or a deletion by e's author that names e or else e's
\* address, at a time not before e.
Entitles(r, e) ==
  /\ r.coord = e.coord
  /\ \/ r.op = "ban"
     \/ /\ r.op = "delete"
        /\ r.by = e.coord.author
        /\ e.at <= r.at \/ e.at = r.named

\* An event leaves the store only for a newer version of it, or by a request
\* that is entitled to remove it: a version newer than an author's deletion
\* stays, though it was published between the query and the erasure.
RemovalJustified ==
  [][\A e \in store \ store' :
       \/ \E new \in store' : new.coord = e.coord /\ new.at > e.at
       \/ \E p \in Procs : Erase(p) /\ Entitles(req[p], e)]_vars

\* A deletion by coordinate removes a mod only once the record bars that version
\* ("persist it so re-ingest can't resurrect it", deletions.go:69), and never a
\* version newer than itself.
RecordedBeforeErased ==
  [][\A p \in Procs :
       Erase(p) /\ req[p].op = "delete" /\ req[p].named = NoName =>
         \A e \in store \ store' :
           /\ e.at <= req[p].at
           /\ AcceptedKind(e.coord.kind) => e.at <= deleted[e.coord]]_vars
=============================================================================
