------------------------ MODULE BlobLifecycle_proof ------------------------
(***************************************************************************)
(* Proofs about BlobLifecycle for any number of requests, blobs and        *)
(* pubkeys, any admin, any subset of the operations and any failures.      *)
(***************************************************************************)
EXTENDS BlobLifecycle, TLAPS

-----------------------------------------------------------------------------
\* A request record is told from an idle one by its label.
LEMMA IdleLabel == TypeOK => \A p \in Procs : At(p, "idle") <=> req[p] = Idle
  BY DEF TypeOK, Requests, At, Idle

\* Every handler stays inside its own chain of calls.
LEMMA CallsClosed ==
  \A op \in OpNames : \A c \in DOMAIN Calls[op] :
    /\ Calls[op][c] \in Labels
    /\ Calls[op][c] # "idle" => /\ Calls[op][c] \in DOMAIN Calls[op]
                                /\ Calls[op][c] # "start"
<1> SUFFICES ASSUME NEW op \in OpNames
             PROVE  \A c \in DOMAIN Calls[op] :
                      /\ Calls[op][c] \in Labels
                      /\ Calls[op][c] # "idle" =>
                           /\ Calls[op][c] \in DOMAIN Calls[op]
                           /\ Calls[op][c] # "start"
  OBVIOUS
<1>1. op \in {"upload", "claim", "hardDelete", "retract", "dashDelete",
              "blacklistAdd", "blacklistRemove", "quarantineRelease",
              "download", "list", "publish", "ingest"}
  BY DEF OpNames, Calls
<1>2. CASE op = "upload"
  BY <1>2 DEF Calls, UploadCalls, Labels
<1>3. CASE op = "claim"
  BY <1>3 DEF Calls, ClaimCalls, Labels
<1>4. CASE op \in {"hardDelete", "dashDelete"}
  BY <1>4 DEF Calls, HardDeleteCalls, DashDeleteCalls, Labels
<1>5. CASE op = "retract"
  BY <1>5 DEF Calls, RetractCalls, Labels
<1>6. CASE op \in {"blacklistAdd", "blacklistRemove", "quarantineRelease"}
  BY <1>6 DEF Calls, BlacklistAddCalls, BlacklistRemoveCalls, ReleaseCalls, Labels
<1>7. CASE op \in {"download", "list", "publish", "ingest"}
  BY <1>7 DEF Calls, DownloadCalls, ListCalls, PublishCalls, IngestCalls, Labels
<1>8. QED
  BY <1>1, <1>2, <1>3, <1>4, <1>5, <1>6, <1>7

\* Who makes the calls that the properties are about.
LEMMA Callers ==
  ASSUME NEW op \in OpNames, NEW c \in DOMAIN Calls[op], c # "start"
  PROVE  /\ c \in {"blocked", "blacklist", "own"} => op \in {"upload", "claim"}
         /\ c \in {"acquire", "stream", "store", "release"} => op = "upload"
         /\ c = "has" => op = "claim"
         /\ c \in {"erase", "disown"} =>
              op \in {"hardDelete", "dashDelete", "blacklistAdd"}
         /\ c \in {"retract", "refs", "withhold"} => op = "retract"
         /\ c \in {"lock", "scan", "fill"} => op = "list"
         /\ c = "ban" => op = "blacklistAdd"
         /\ c \in {"save", "note"} => op \in {"publish", "ingest"}
<1>1. op \in {"upload", "claim", "hardDelete", "retract", "dashDelete",
              "blacklistAdd", "blacklistRemove", "quarantineRelease",
              "download", "list", "publish", "ingest"}
  BY DEF OpNames, Calls
<1>2. CASE op \in {"upload", "claim"}
  BY <1>2 DEF Calls, UploadCalls, ClaimCalls
<1>4. CASE op \in {"hardDelete", "dashDelete"}
  BY <1>4 DEF Calls, HardDeleteCalls, DashDeleteCalls
<1>5. CASE op = "retract"
  BY <1>5 DEF Calls, RetractCalls
<1>6. CASE op \in {"blacklistAdd", "blacklistRemove", "quarantineRelease"}
  BY <1>6 DEF Calls, BlacklistAddCalls, BlacklistRemoveCalls, ReleaseCalls
<1>7. CASE op \in {"download", "list", "publish", "ingest"}
  BY <1>7 DEF Calls, DownloadCalls, ListCalls, PublishCalls, IngestCalls
<1>8. QED
  BY <1>1, <1>2, <1>4, <1>5, <1>6, <1>7

\* The same, said of a request in a type-correct state.
LEMMA AtCall ==
  ASSUME TypeOK, NEW p \in Procs, req[p].pc # "idle"
  PROVE  /\ req[p] \in Requests
         /\ req[p].op \in OpNames
         /\ req[p].pc \in DOMAIN Calls[req[p].op]
         /\ req[p].pc # "start"
         /\ req[p].key \in Signers(req[p].op)
BY DEF TypeOK, Requests, Idle

\* What Proceed does: the request moves to its next call, or is over.
LEMMA ProceedStep ==
  ASSUME TypeOK, NEW p \in Procs, req[p].pc # "idle", Proceed(p),
         NEW n, n = Calls[req[p].op][req[p].pc]
  PROVE  /\ req' = [req EXCEPT ![p] = IF n = "idle" THEN Idle
                                      ELSE [req[p] EXCEPT !.pc = n]]
         /\ n \in Labels
         /\ n # "idle" => n \in DOMAIN Calls[req[p].op] /\ n # "start"
<1>1. req[p].op \in OpNames /\ req[p].pc \in DOMAIN Calls[req[p].op]
  BY AtCall
<1>2. req' = [req EXCEPT ![p] = IF n = "idle" THEN Idle
                                ELSE [req[p] EXCEPT !.pc = n]]
  BY DEF Proceed
<1>3. QED
  BY <1>1, <1>2, CallsClosed

\* The part of the type invariant that is about requests.
ReqOK ==
  /\ req \in [Procs -> Requests \union {Idle}]
  /\ \A p \in Procs : req[p] # Idle => /\ req[p].pc \in DOMAIN Calls[req[p].op]
                                       /\ req[p].pc # "start"
                                       /\ req[p].key \in Signers(req[p].op)

\* Moving one request along its chain, or ending it, keeps requests well formed.
LEMMA MoveReqOK ==
  ASSUME TypeOK, NEW p \in Procs, req[p].pc # "idle",
         NEW n \in Labels \ {"idle"}, NEW s \in SUBSET Hashes,
         n \in DOMAIN Calls[req[p].op], n # "start",
         \/ req' = [req EXCEPT ![p] = Idle]
         \/ req' = [req EXCEPT ![p] = [req[p] EXCEPT !.pc = n]]
         \/ req' = [req EXCEPT ![p].seen = s, ![p].pc = n]
  PROVE  ReqOK'
<1>1. /\ req[p] \in Requests
      /\ req[p].key \in Signers(req[p].op)
  BY AtCall
<1>2. /\ [req[p] EXCEPT !.pc = n] \in Requests
      /\ [req[p] EXCEPT !.seen = s, !.pc = n] \in Requests
  BY <1>1 DEF Requests
<1>3. req \in [Procs -> Requests \union {Idle}]
  BY DEF TypeOK
<1>4. req' \in [Procs -> Requests \union {Idle}]
  BY <1>2, <1>3
<1>5. /\ \A q \in Procs : q # p => req'[q] = req[q]
      /\ req'[p] # Idle => /\ req'[p].op = req[p].op
                           /\ req'[p].key = req[p].key
                           /\ req'[p].pc = n
  BY <1>1, <1>3 DEF Requests
<1>6. QED
  BY <1>1, <1>4, <1>5 DEF ReqOK, TypeOK

-----------------------------------------------------------------------------
\* Upload slots are bound to the requests that hold them.  Types depend on it:
\* an early return goes to "release" exactly when a slot is held.
SlotOf(r) == IF /\ r.op = "upload"
                /\ r.pc \in {"stream", "store", "own", "revive", "release"}
             THEN r.key ELSE None

SlotInv == TypeOK /\ SlotsMatchUploads

LEMMA SlotDef == SlotsMatchUploads <=> \A p \in Procs : uploading[p] = SlotOf(req[p])
  BY DEF SlotsMatchUploads, SlotOf

LEMMA KeyNotNone ==
  ASSUME TypeOK, NEW p \in Procs, req[p].op = "upload"
  PROVE  req[p].pc # "idle" /\ req[p].key \in Pubkeys /\ req[p].key # None
BY BlobAssumption, AtCall DEF TypeOK, Idle, Signers, Requests

\* An early return keeps the request well formed and its slot where it was.
LEMMA QuitStep ==
  ASSUME SlotInv, NEW p \in Procs, req[p].pc # "idle", Quit(p)
  PROVE  /\ ReqOK'
         /\ \A q \in Procs : q # p => req'[q] = req[q]
         /\ SlotOf(req'[p]) = SlotOf(req[p])
         /\ \/ req'[p] = Idle
            \/ req'[p] = [req[p] EXCEPT !.pc = "release"] /\ req[p].op = "upload"
<1>0. req[p] \in Requests /\ req \in [Procs -> Requests \union {Idle}]
  BY AtCall DEF SlotInv, TypeOK
<1>1. CASE HoldsSlot(p)
  <2>1. SlotOf(req[p]) # None
    BY <1>1, SlotDef DEF SlotInv, HoldsSlot
  <2>2. req[p].op = "upload" /\ SlotOf(req[p]) = req[p].key
    BY <2>1 DEF SlotOf
  <2>3. req' = [req EXCEPT ![p] = [req[p] EXCEPT !.pc = "release"]]
    BY <1>1 DEF Quit
  <2>4. "release" \in DOMAIN Calls[req[p].op] /\ "release" \in Labels \ {"idle"}
    BY <2>2 DEF Calls, UploadCalls, Labels
  <2>5. ReqOK'
    BY <2>3, <2>4, MoveReqOK DEF SlotInv
  <2>6. /\ req'[p] = [req[p] EXCEPT !.pc = "release"]
        /\ \A q \in Procs : q # p => req'[q] = req[q]
    BY <1>0, <2>3
  <2>7. SlotOf(req'[p]) = req[p].key
    BY <1>0, <2>2, <2>6 DEF SlotOf, Requests
  <2>8. QED
    BY <2>2, <2>5, <2>6, <2>7
<1>2. CASE ~HoldsSlot(p)
  <2>1. req' = [req EXCEPT ![p] = Idle]
    BY <1>2 DEF Quit
  <2>2. req'[p] = Idle /\ \A q \in Procs : q # p => req'[q] = req[q]
    BY <1>0, <2>1
  <2>3. SlotOf(req[p]) = None /\ SlotOf(Idle) = None
    BY <1>2, SlotDef DEF SlotInv, HoldsSlot, SlotOf, Idle
  <2>4. PICK n \in Labels \ {"idle"} : n \in DOMAIN Calls[req[p].op] /\ n # "start"
    BY AtCall DEF SlotInv, Requests
  <2>5. ReqOK'
    BY <2>1, <2>4, MoveReqOK DEF SlotInv
  <2>6. QED
    BY <2>2, <2>3, <2>5
<1>3. QED
  BY <1>1, <1>2

\* The next call of an upload.
LEMMA UploadNext ==
  \A c \in DOMAIN UploadCalls :
    /\ c = "acquire" => UploadCalls[c] = "stream"
    /\ c = "release" => UploadCalls[c] = "idle"
    /\ c \in {"stream", "store", "own", "revive"} =>
         UploadCalls[c] \in {"store", "own", "revive", "release"}
    /\ c \in {"blocked", "blacklist"} => UploadCalls[c] \in {"blacklist", "acquire"}
  BY DEF UploadCalls

\* A step along the chain keeps the request well formed; only acquire and
\* release change who holds a slot.
LEMMA ProceedOK ==
  ASSUME TypeOK, NEW p \in Procs, req[p].pc # "idle", Proceed(p)
  PROVE  /\ ReqOK'
         /\ \A q \in Procs : q # p => req'[q] = req[q]
         /\ \/ req'[p] = Idle
            \/ /\ req'[p] \in Requests
               /\ req'[p].op = req[p].op
               /\ req'[p].hash = req[p].hash
               /\ req'[p].key = req[p].key
               /\ req'[p].seen = req[p].seen
               /\ req'[p].pc = Calls[req[p].op][req[p].pc]
         /\ req'[p].pc = Calls[req[p].op][req[p].pc]
         /\ req[p].pc \notin {"acquire", "release"} => SlotOf(req'[p]) = SlotOf(req[p])
         /\ req[p].pc = "acquire" => SlotOf(req'[p]) = req[p].key
         /\ req[p].pc = "release" => SlotOf(req'[p]) = None
<1> DEFINE n == Calls[req[p].op][req[p].pc]
<1>0. /\ req[p] \in Requests /\ req \in [Procs -> Requests \union {Idle}]
      /\ req[p].op \in OpNames /\ req[p].pc \in DOMAIN Calls[req[p].op]
      /\ req[p].pc # "start"
  BY AtCall DEF TypeOK
<1>1. /\ req' = [req EXCEPT ![p] = IF n = "idle" THEN Idle
                                   ELSE [req[p] EXCEPT !.pc = n]]
      /\ n \in Labels
      /\ n # "idle" => n \in DOMAIN Calls[req[p].op] /\ n # "start"
  BY ProceedStep
<1>2. \A q \in Procs : q # p => req'[q] = req[q]
  BY <1>0, <1>1
<1>3. CASE n = "idle"
  <2>1. req'[p] = Idle /\ req' = [req EXCEPT ![p] = Idle]
    BY <1>0, <1>1, <1>3
  <2>2. PICK m \in Labels \ {"idle"} : m \in DOMAIN Calls[req[p].op] /\ m # "start"
    BY <1>0 DEF Requests
  <2>3. ReqOK'
    BY <2>1, <2>2, MoveReqOK
  <2>4. SlotOf(Idle) = None
    BY DEF SlotOf, Idle
  <2>5. req[p].op = "upload" => req[p].pc = "release"
    BY <1>0, <1>3, UploadNext DEF Calls, UploadCalls
  <2>6. req[p].pc # "release" => SlotOf(req[p]) = None
    BY <2>5 DEF SlotOf
  <2>7. req[p].pc # "acquire"
    BY <1>0, <2>5, Callers
  <2>8. Idle.pc = n
    BY <1>3 DEF Idle
  <2>9. QED
    BY <1>2, <2>1, <2>3, <2>4, <2>6, <2>7, <2>8
<1>4. CASE n # "idle"
  <2>1. /\ req' = [req EXCEPT ![p] = [req[p] EXCEPT !.pc = n]]
        /\ req'[p] = [req[p] EXCEPT !.pc = n]
    BY <1>0, <1>1, <1>4
  <2>2. /\ req'[p] \in Requests
        /\ req'[p].op = req[p].op
        /\ req'[p].hash = req[p].hash
        /\ req'[p].key = req[p].key
        /\ req'[p].seen = req[p].seen
        /\ req'[p].pc = n
    BY <1>0, <1>1, <1>4, <2>1 DEF Requests
  <2>3. ReqOK'
    BY <1>1, <1>4, <2>1, MoveReqOK
  <2>4. CASE req[p].op = "upload"
    <3>1. n = UploadCalls[req[p].pc] /\ req[p].pc \in DOMAIN UploadCalls
      BY <1>0, <2>4 DEF Calls
    <3>2. DOMAIN UploadCalls \ {"start"} =
            {"blocked", "blacklist", "acquire", "stream", "store", "own",
             "revive", "release"}
      BY DEF UploadCalls
    <3>3. QED
      BY <1>0, <1>2, <1>4, <2>2, <2>3, <2>4, <3>1, <3>2, UploadNext DEF SlotOf
  <2>5. CASE req[p].op # "upload"
    <3>1. req[p].pc \notin {"acquire", "release"}
      BY <1>0, <2>5, Callers
    <3>2. SlotOf(req'[p]) = None /\ SlotOf(req[p]) = None
      BY <2>2, <2>5 DEF SlotOf
    <3>3. QED
      BY <1>2, <2>2, <2>3, <3>1, <3>2
  <2>6. QED
    BY <2>4, <2>5
<1>5. QED
  BY <1>3, <1>4

-----------------------------------------------------------------------------
\* A step that moves one request and leaves the slots alone.
LEMMA SlotsKept ==
  ASSUME SlotInv, NEW p \in Procs, req[p].pc # "idle",
         \/ Proceed(p) /\ req[p].pc \notin {"acquire", "release"}
         \/ Quit(p),
         UNCHANGED uploading
  PROVE  ReqOK' /\ SlotsMatchUploads'
<1>1. /\ ReqOK'
      /\ \A q \in Procs : q # p => req'[q] = req[q]
      /\ SlotOf(req'[p]) = SlotOf(req[p])
  BY QuitStep, ProceedOK DEF SlotInv
<1>2. \A q \in Procs : uploading'[q] = SlotOf(req'[q])
  BY <1>1, SlotDef DEF SlotInv
<1>3. SlotsMatchUploads'
  BY <1>2 DEF SlotsMatchUploads, SlotOf
<1>4. QED
  BY <1>1, <1>3

\* The two calls that jump: a finished scan, and a retraction that skips the
\* quarantine.
LEMMA JumpKept ==
  ASSUME SlotInv, NEW p \in Procs, req[p].pc \in {"scan", "retract", "refs"},
         \/ req[p].pc = "scan" /\ req' = [req EXCEPT ![p].seen = stored, ![p].pc = "fill"]
         \/ req[p].pc # "scan" /\ req' = [req EXCEPT ![p].pc = "invalidate"],
         UNCHANGED uploading
  PROVE  ReqOK' /\ SlotsMatchUploads'
<1>0. /\ req[p] \in Requests /\ req \in [Procs -> Requests \union {Idle}]
      /\ req[p].op \in OpNames /\ req[p].pc \in DOMAIN Calls[req[p].op]
      /\ req[p].pc # "start" /\ req[p].pc # "idle"
      /\ stored \in SUBSET Hashes
  BY AtCall DEF SlotInv, TypeOK
<1>1. req[p].op = IF req[p].pc = "scan" THEN "list" ELSE "retract"
  BY <1>0, Callers
<1> DEFINE n == IF req[p].pc = "scan" THEN "fill" ELSE "invalidate"
<1>2. n \in DOMAIN Calls[req[p].op] /\ n # "start" /\ n \in Labels \ {"idle"}
  BY <1>1 DEF Calls, ListCalls, RetractCalls, Labels
<1>3. ReqOK'
  <2>1. CASE req[p].pc = "scan"
    BY <1>0, <1>2, <2>1, MoveReqOK DEF SlotInv
  <2>2. CASE req[p].pc # "scan"
    <3>1. req' = [req EXCEPT ![p] = [req[p] EXCEPT !.pc = n]]
      BY <1>0, <2>2
    <3>2. QED
      BY <1>0, <1>2, <3>1, MoveReqOK DEF SlotInv
  <2>3. QED
    BY <2>1, <2>2
<1>4. /\ \A q \in Procs : q # p => req'[q] = req[q]
      /\ req'[p].op = req[p].op
  BY <1>0 DEF Requests
<1>5. SlotOf(req'[p]) = None /\ SlotOf(req[p]) = None
  BY <1>1, <1>4 DEF SlotOf
<1>6. \A q \in Procs : uploading'[q] = SlotOf(req'[q])
  BY <1>4, <1>5, SlotDef DEF SlotInv
<1>7. SlotsMatchUploads'
  BY <1>6 DEF SlotsMatchUploads, SlotOf
<1>8. QED
  BY <1>3, <1>7

\* The part of the type invariant that is not about requests.
SharedOK ==
  /\ stored \subseteq Hashes
  /\ orphans \subseteq Hashes
  /\ owners \in [Hashes -> SUBSET Pubkeys]
  /\ quarantine \subseteq Hashes
  /\ blacklist \subseteq Hashes
  /\ blacklistFile \subseteq Hashes
  /\ blocked \subseteq Pubkeys
  /\ mods \subseteq Hashes
  /\ refs \subseteq Hashes
  /\ cache \in SUBSET SUBSET Hashes
  /\ cacheLock \in Procs \union {Free}
  /\ uploading \in [Procs -> Pubkeys \union {None}]

LEMMA TypeSplit == TypeOK <=> SharedOK /\ ReqOK
  BY DEF TypeOK, SharedOK, ReqOK

\* Types of the shared state, one call at a time.
LEMMA SharedStep ==
  ASSUME SlotInv, NEW p \in Procs, Step(p)
  PROVE  SharedOK'
<1>0. SharedOK
  BY TypeSplit DEF SlotInv
<1>1. req[p].pc # "idle"
  BY DEF Step, At, CheckBlocked, CheckBlacklist, Acquire, Stream, Store, Own,
         Revive, Release, Has, Erase, Disown, Retract, CheckRefs, Withhold, Ban,
         Unban, GateBlacklist, GateQuarantine, Load, Lock, Scan, Fill,
         Invalidate, SaveEvent, Note
<1>2. /\ req[p].hash \in Hashes
      /\ req[p].seen \in SUBSET Hashes
      /\ req[p].op \in {"upload", "claim"} => req[p].key \in Pubkeys
      /\ req[p].op \in OpNames /\ req[p].pc \in DOMAIN Calls[req[p].op]
      /\ req[p].pc # "start"
  BY <1>1, AtCall DEF SlotInv, Requests, Signers
<1> USE <1>0, <1>2 DEF SharedOK, library, policy, events, listing
<1>3. CASE CheckBlocked(p) \/ CheckBlacklist(p) \/ Stream(p) \/ Has(p)
           \/ CheckRefs(p) \/ GateBlacklist(p) \/ GateQuarantine(p) \/ Load(p)
  BY <1>3 DEF CheckBlocked, CheckBlacklist, Stream, Has, CheckRefs,
              GateBlacklist, GateQuarantine, Load
<1>4. CASE Acquire(p)
  <2>1. req[p].key \in Pubkeys
    BY <1>4, Callers DEF Acquire, At
  <2>2. QED
    BY <1>4, <2>1 DEF Acquire, Slots!Admit
<1>5. CASE Release(p)
  BY <1>5 DEF Release, Slots!Finish
<1>6. CASE Store(p) \/ Erase(p)
  BY <1>6 DEF Store, Stores, Erase, Erases
<1>7. CASE Own(p)
  <2>1. req[p].key \in Pubkeys
    BY <1>7, Callers DEF Own, At
  <2>2. owners[req[p].hash] \union {req[p].key} \in SUBSET Pubkeys
    BY <2>1
  <2>3. QED
    BY <1>7, <2>2 DEF Own
<1>8. CASE Disown(p)
  BY <1>8 DEF Disown
<1>9. CASE Retract(p)
  <2>1. owners[req[p].hash] \ {req[p].key} \in SUBSET Pubkeys
    OBVIOUS
  <2>2. QED
    BY <1>9, <2>1 DEF Retract
<1>10. CASE Revive(p) \/ Withhold(p)
  BY <1>10 DEF Revive, Withhold
<1>11. CASE Ban(p) \/ Unban(p)
  BY <1>11 DEF Ban, Unban, BlacklistUnsaved
<1>12. CASE Lock(p) \/ Scan(p) \/ Fill(p) \/ Invalidate(p)
  BY <1>12 DEF Lock, Scan, Fill, Invalidate
<1>13. CASE SaveEvent(p) \/ Note(p)
  BY <1>13 DEF SaveEvent, Note
<1>14. QED
  BY <1>3, <1>4, <1>5, <1>6, <1>7, <1>8, <1>9, <1>10, <1>11, <1>12, <1>13 DEF Step

\* Acquiring a slot and giving it back.
LEMMA AcquireKept ==
  ASSUME SlotInv, NEW p \in Procs, Acquire(p)
  PROVE  ReqOK' /\ SlotsMatchUploads'
<1>0. req[p].pc = "acquire" /\ uploading \in [Procs -> Pubkeys \union {None}]
  BY DEF Acquire, At, SlotInv, TypeOK
<1>1. CASE Slots!Admit(p, req[p].key) /\ Proceed(p)
  <2>1. uploading' = [uploading EXCEPT ![p] = req[p].key]
    BY <1>1 DEF Slots!Admit
  <2>2. /\ ReqOK'
        /\ \A q \in Procs : q # p => req'[q] = req[q]
        /\ SlotOf(req'[p]) = req[p].key
    BY <1>0, <1>1, ProceedOK DEF SlotInv
  <2>3. \A q \in Procs : uploading'[q] = SlotOf(req'[q])
    BY <1>0, <2>1, <2>2, SlotDef DEF SlotInv
  <2>4. QED
    BY <2>2, <2>3 DEF SlotsMatchUploads, SlotOf
<1>2. CASE Quit(p) /\ UNCHANGED uploading
  BY <1>0, <1>2, SlotsKept
<1>3. QED
  BY <1>1, <1>2 DEF Acquire

LEMMA ReleaseKept ==
  ASSUME SlotInv, NEW p \in Procs, Release(p)
  PROVE  ReqOK' /\ SlotsMatchUploads'
<1>0. req[p].pc = "release" /\ uploading \in [Procs -> Pubkeys \union {None}]
  BY DEF Release, At, SlotInv, TypeOK
<1>1. uploading' = [uploading EXCEPT ![p] = None] /\ Proceed(p)
  BY DEF Release, Slots!Finish
<1>2. /\ ReqOK'
      /\ \A q \in Procs : q # p => req'[q] = req[q]
      /\ SlotOf(req'[p]) = None
  BY <1>0, <1>1, ProceedOK DEF SlotInv
<1>3. \A q \in Procs : uploading'[q] = SlotOf(req'[q])
  BY <1>0, <1>1, <1>2, SlotDef DEF SlotInv
<1>4. QED
  BY <1>2, <1>3 DEF SlotsMatchUploads, SlotOf

\* Every call of every request keeps the invariant.
LEMMA StepKept ==
  ASSUME SlotInv, NEW p \in Procs, Step(p)
  PROVE  SlotInv'
<1>1. SharedOK'
  BY SharedStep
<1>2. ReqOK' /\ SlotsMatchUploads'
  <2>1. CASE Acquire(p)
    BY <2>1, AcquireKept
  <2>2. CASE Release(p)
    BY <2>2, ReleaseKept
  <2>3. CASE CheckBlocked(p) \/ CheckBlacklist(p) \/ Stream(p) \/ Store(p)
             \/ Own(p) \/ Revive(p) \/ Has(p) \/ Disown(p) \/ Withhold(p)
             \/ Ban(p) \/ Unban(p) \/ GateBlacklist(p) \/ GateQuarantine(p)
             \/ Load(p) \/ Lock(p) \/ Fill(p) \/ Invalidate(p)
             \/ SaveEvent(p) \/ Note(p) \/ Erase(p)
    <3>1. /\ req[p].pc \notin {"idle", "acquire", "release"}
          /\ Proceed(p) \/ Quit(p)
          /\ UNCHANGED uploading
      BY <2>3 DEF At, CheckBlocked, CheckBlacklist, Stream, Store, Own, Revive,
             Has, Erase, EraseFailed, Disown, Withhold, Ban, Unban,
             GateBlacklist, GateQuarantine, Load, Lock, Fill, Invalidate,
             SaveEvent, Note
    <3>2. QED
      BY <3>1, SlotsKept
  <2>4. CASE Retract(p)
    <3>1. req[p].pc = "retract" /\ UNCHANGED uploading
      BY <2>4 DEF Retract, At
    <3>2. Proceed(p) \/ Quit(p) \/ req' = [req EXCEPT ![p].pc = "invalidate"]
      BY <2>4 DEF Retract
    <3>3. QED
      BY <3>1, <3>2, SlotsKept, JumpKept
  <2>5. CASE CheckRefs(p)
    <3>1. req[p].pc = "refs" /\ UNCHANGED uploading
      BY <2>5 DEF CheckRefs, At
    <3>2. Proceed(p) \/ req' = [req EXCEPT ![p].pc = "invalidate"]
      BY <2>5 DEF CheckRefs
    <3>3. QED
      BY <3>1, <3>2, SlotsKept, JumpKept
  <2>6. CASE Scan(p)
    <3>1. req[p].pc = "scan" /\ UNCHANGED uploading
      BY <2>6 DEF Scan, At
    <3>2. Quit(p) \/ req' = [req EXCEPT ![p].seen = stored, ![p].pc = "fill"]
      BY <2>6 DEF Scan
    <3>3. QED
      BY <3>1, <3>2, SlotsKept, JumpKept
  <2>7. QED
    BY <2>1, <2>2, <2>3, <2>4, <2>5, <2>6 DEF Step
<1>3. TypeOK'
  BY <1>1, <1>2 DEF TypeOK, SharedOK, ReqOK
<1>4. QED
  BY <1>2, <1>3 DEF SlotInv

\* A new request starts at the first call of its handler.
LEMMA BeginKept ==
  ASSUME SlotInv, NEW p \in Procs, NEW op \in OpNames, NEW h \in Hashes,
         NEW k \in Pubkeys \union {None}, Begin(p, op, h, k)
  PROVE  SlotInv' /\ Calls[op].start \in DOMAIN Calls[op] \ {"start"}
<1>1. /\ Calls[op].start \in Labels \ {"idle", "stream", "store", "own",
                                        "release"}
      /\ op = "upload" => Calls[op].start = "blocked"
      /\ Calls[op].start \in DOMAIN Calls[op] \ {"start"}
  BY DEF OpNames, Calls, UploadCalls, ClaimCalls, HardDeleteCalls, RetractCalls,
         DashDeleteCalls, BlacklistAddCalls, BlacklistRemoveCalls, ReleaseCalls,
         DownloadCalls, ListCalls, PublishCalls, IngestCalls, Labels
<1> DEFINE r == [op |-> op, hash |-> h, key |-> k,
                 pc |-> Calls[op].start, seen |-> {}]
<1>2. r \in Requests
  BY <1>1 DEF Requests
<1>3. SharedOK /\ ReqOK
  BY TypeSplit DEF SlotInv
<1>4. req' = [req EXCEPT ![p] = r] /\ k \in Signers(op) /\ At(p, "idle")
  BY DEF Begin
<1>5. req'[p] = r /\ \A q \in Procs : q # p => req'[q] = req[q]
  BY <1>3, <1>4 DEF ReqOK
<1>6. ReqOK'
  BY <1>1, <1>2, <1>3, <1>4, <1>5 DEF ReqOK
<1>7. SharedOK' /\ UNCHANGED uploading
  BY <1>3 DEF Begin, SharedOK, library, policy, events, listing
<1>8. SlotOf(r) = None /\ SlotOf(req[p]) = None
  BY <1>1, <1>4, IdleLabel DEF SlotOf, At, Idle, SlotInv
<1>9. \A q \in Procs : uploading'[q] = SlotOf(req'[q])
  BY <1>5, <1>7, <1>8, SlotDef DEF SlotInv
<1>10. QED
  BY <1>1, <1>6, <1>7, <1>9 DEF SlotInv, TypeOK, SharedOK, ReqOK, SlotsMatchUploads, SlotOf

LEMMA InitSlotInv == Init => SlotInv
<1> SUFFICES ASSUME Init PROVE SlotInv
  OBVIOUS
<1>1. TypeOK
  BY DEF Init, TypeOK
<1>2. SlotsMatchUploads
  BY DEF Init, SlotsMatchUploads, Idle
<1>3. QED
  BY <1>1, <1>2 DEF SlotInv

LEMMA RestartKept == SlotInv /\ Restart => SlotInv'
<1> SUFFICES ASSUME SlotInv, Restart PROVE SlotInv'
  OBVIOUS
<1>0. /\ blacklistFile' \in {blacklistFile, {}} /\ blacklist' = blacklistFile'
      /\ orphans' \subseteq orphans \union Hashes
      /\ refs' \subseteq mods
  BY DEF Restart
<1>1. TypeOK'
  BY <1>0 DEF SlotInv, TypeOK, Restart
<1>2. SlotsMatchUploads'
  BY DEF Restart, SlotsMatchUploads, Idle
<1>3. QED
  BY <1>1, <1>2 DEF SlotInv

\* Steps that move no request.
LEMMA IdleStepKept ==
  ASSUME SlotInv,
         \/ \E h \in Hashes : Unlink(h)
         \/ \E k \in Pubkeys : BlockPubkey(k) \/ AllowPubkey(k)
         \/ Expire
         \/ UNCHANGED vars
  PROVE  SlotInv' /\ UNCHANGED <<req, uploading>>
<1>1. UNCHANGED <<req, uploading>>
  BY DEF Unlink, BlockPubkey, AllowPubkey, Expire, vars
<1>2. SharedOK'
  BY DEF SlotInv, TypeOK, SharedOK, Unlink, BlockPubkey, AllowPubkey, Expire,
         vars, library, policy, events, listing
<1>3. QED
  BY <1>1, <1>2 DEF SlotInv, TypeOK, SharedOK, SlotsMatchUploads

LEMMA SlotsInductive == SafeSpec => []SlotInv
<1>1. SlotInv /\ [Next]_vars => SlotInv'
  <2> SUFFICES ASSUME SlotInv, [Next]_vars PROVE SlotInv'
    OBVIOUS
  <2>1. ASSUME NEW p \in Procs, NEW op \in Ops \intersect OpNames,
               NEW h \in Hashes, NEW k \in Pubkeys \union {None},
               Begin(p, op, h, k)
        PROVE  SlotInv'
    BY <2>1, BeginKept
  <2>2. ASSUME NEW p \in Procs, Step(p) PROVE SlotInv'
    BY <2>2, StepKept
  <2>3. QED
    BY <2>1, <2>2, IdleStepKept, RestartKept DEF Next
<1>2. QED
  BY <1>1, InitSlotInv, PTL DEF SafeSpec

\* Every variable keeps its type, and a request only ever waits at a call of
\* its own handler, signed by a key its operation admits.
THEOREM TypeCorrect == SafeSpec => []TypeOK
  BY SlotsInductive, PTL DEF SlotInv

\* Through every early return, failure and restart, an upload slot is held
\* exactly by an upload between limiter.acquire and its deferred release.
THEOREM SlotsMatch == SafeSpec => []SlotsMatchUploads
  BY SlotsInductive, PTL DEF SlotInv

-----------------------------------------------------------------------------
\* What a call does to the requests: one moves along or ends, the others stay.
LEMMA StepFrame ==
  ASSUME SlotInv, NEW p \in Procs, Step(p)
  PROVE  /\ req[p].pc # "idle"
         /\ req[p] \in Requests
         /\ req[p].op \in OpNames
         /\ req[p].pc \in DOMAIN Calls[req[p].op]
         /\ req[p].pc # "start"
         /\ req[p].key \in Signers(req[p].op)
         /\ \A q \in Procs : q # p => req'[q] = req[q]
         /\ \/ req'[p] = Idle
            \/ /\ req'[p].op = req[p].op
               /\ req'[p].hash = req[p].hash
               /\ req'[p].key = req[p].key
<1>1. req[p].pc # "idle"
  BY DEF Step, At, CheckBlocked, CheckBlacklist, Acquire, Stream, Store, Own,
         Revive, Release, Has, Erase, Disown, Retract, CheckRefs, Withhold, Ban,
         Unban, GateBlacklist, GateQuarantine, Load, Lock, Scan, Fill,
         Invalidate, SaveEvent, Note
<1>2. \/ Proceed(p) \/ Quit(p)
      \/ req' = [req EXCEPT ![p].pc = "invalidate"]
      \/ req' = [req EXCEPT ![p].seen = stored, ![p].pc = "fill"]
  BY DEF Step, At, CheckBlocked, CheckBlacklist, Acquire, Stream, Store, Own,
         Revive, Release, Has, Erase, EraseFailed, Disown, Retract, CheckRefs,
         Withhold, Ban, Unban, GateBlacklist, GateQuarantine, Load, Lock, Scan,
         Fill, Invalidate, SaveEvent, Note
<1>3. req[p] \in Requests /\ req \in [Procs -> Requests \union {Idle}]
  BY <1>1, AtCall DEF SlotInv, TypeOK
<1>4. CASE Proceed(p)
  BY <1>1, <1>3, <1>4, AtCall, ProceedOK DEF SlotInv
<1>5. CASE Quit(p)
  <2>1. [req[p] EXCEPT !.pc = "release"].op = req[p].op
        /\ [req[p] EXCEPT !.pc = "release"].hash = req[p].hash
        /\ [req[p] EXCEPT !.pc = "release"].key = req[p].key
    BY <1>3 DEF Requests
  <2>2. QED
    BY <1>1, <1>3, <1>5, <2>1, AtCall, QuitStep DEF SlotInv
<1>6. CASE \/ req' = [req EXCEPT ![p].pc = "invalidate"]
           \/ req' = [req EXCEPT ![p].seen = stored, ![p].pc = "fill"]
  <2>1. /\ \A q \in Procs : q # p => req'[q] = req[q]
        /\ req'[p].op = req[p].op
        /\ req'[p].hash = req[p].hash
        /\ req'[p].key = req[p].key
    BY <1>3, <1>6 DEF Requests
  <2>2. QED
    BY <1>1, <1>3, <2>1, AtCall DEF SlotInv
<1>7. QED
  BY <1>2, <1>4, <1>5, <1>6

\* Bytes appear only by a store, owners only by an upload or a claim.
LEMMA StepAdds ==
  ASSUME SlotInv, NEW p \in Procs, Step(p), NEW h \in Hashes
  PROVE  /\ h \in stored' \ stored =>
              /\ req[p].op = "upload"
              /\ req[p].pc = "store"
              /\ req[p].hash = h
         /\ \A k \in owners'[h] \ owners[h] :
              /\ req[p].op \in {"upload", "claim"}
              /\ req[p].pc = "own"
              /\ req[p].hash = h
              /\ req[p].key = k
<1>0. /\ req[p].hash \in Hashes /\ owners \in [Hashes -> SUBSET Pubkeys]
      /\ req[p].op \in OpNames /\ req[p].pc \in DOMAIN Calls[req[p].op]
      /\ req[p].pc # "start"
  BY StepFrame DEF SlotInv, TypeOK, Requests
<1>1. h \in stored' \ stored => req[p].pc = "store" /\ req[p].hash = h
  BY DEF Step, At, CheckBlocked, CheckBlacklist, Acquire, Stream, Store, Stores,
         Own, Revive, Release, Has, Erase, Erases, Disown, Retract, CheckRefs,
         Withhold, Ban, Unban, GateBlacklist, GateQuarantine, Load, Lock, Scan,
         Fill, Invalidate, SaveEvent, Note, library
<1>2. \A k \in owners'[h] \ owners[h] :
        req[p].pc = "own" /\ req[p].hash = h /\ req[p].key = k
  <2>1. CASE Own(p)
    BY <1>0, <2>1 DEF Own, At
  <2>2. CASE Disown(p) \/ Retract(p)
    BY <1>0, <2>2 DEF Disown, Retract
  <2>3. CASE owners' = owners
    BY <2>3
  <2>4. QED
    BY <2>1, <2>2, <2>3
       DEF Step, CheckBlocked, CheckBlacklist, Acquire, Stream, Store, Revive,
           Release, Has, Erase, CheckRefs, Withhold, Ban, Unban, GateBlacklist,
           GateQuarantine, Load, Lock, Scan, Fill, Invalidate, SaveEvent, Note,
           library
<1>3. QED
  BY <1>0, <1>1, <1>2, Callers

\* A refused check ends the request, for it holds no slot yet.
LEMMA RefusedEnds ==
  ASSUME SlotInv, NEW p \in Procs, req[p].pc \in {"blocked", "blacklist"}, Quit(p)
  PROVE  req'[p] = Idle
<1>1. uploading[p] = None
  BY SlotDef DEF SlotInv, SlotOf
<1>2. req' = [req EXCEPT ![p] = Idle]
  BY <1>1 DEF Quit, HoldsSlot
<1>3. QED
  BY <1>2 DEF SlotInv, TypeOK

\* An upload or claim at its first or second check moves to the next one or ends.
LEMMA ChecksStep ==
  ASSUME SlotInv, NEW p \in Procs, Step(p), req[p].op \in {"upload", "claim"},
         req[p].pc \in {"blocked", "blacklist"}
  PROVE  /\ UNCHANGED <<library, policy>>
         /\ req[p].pc = "blocked" =>
              IF req[p].key \in blocked THEN req'[p] = Idle
                                        ELSE req'[p].pc = "blacklist"
         /\ req[p].pc = "blacklist" /\ req[p].hash \in blacklist => req'[p] = Idle
<1>1. CheckBlocked(p) \/ CheckBlacklist(p)
  BY DEF Step, At, CheckBlocked, CheckBlacklist, Acquire, Stream, Store, Own,
         Revive, Release, Has, Erase, Disown, Retract, CheckRefs, Withhold, Ban,
         Unban, GateBlacklist, GateQuarantine, Load, Lock, Scan, Fill,
         Invalidate, SaveEvent, Note
<1>2. UNCHANGED <<library, policy>>
  BY <1>1 DEF CheckBlocked, CheckBlacklist
<1>3. CASE req[p].pc = "blocked"
  <2>1. CheckBlocked(p)
    BY <1>1, <1>3 DEF CheckBlacklist, At
  <2>2. CASE req[p].key \in blocked
    BY <1>2, <1>3, <2>1, <2>2, RefusedEnds DEF CheckBlocked
  <2>3. CASE req[p].key \notin blocked
    <3>1. Proceed(p)
      BY <2>1, <2>3 DEF CheckBlocked
    <3>2. req'[p].pc = Calls[req[p].op]["blocked"]
      BY <1>3, <3>1, ProceedOK DEF SlotInv
    <3>3. Calls[req[p].op]["blocked"] = "blacklist"
      BY DEF Calls, UploadCalls, ClaimCalls
    <3>4. QED
      BY <1>2, <1>3, <2>3, <3>2, <3>3
  <2>4. QED
    BY <2>2, <2>3
<1>4. CASE req[p].pc = "blacklist"
  <2>1. CheckBlacklist(p)
    BY <1>1, <1>4 DEF CheckBlocked, At
  <2>2. req[p].hash \in blacklist => Quit(p)
    BY <2>1 DEF CheckBlacklist
  <2>3. QED
    BY <1>2, <1>4, <2>2, RefusedEnds
<1>5. QED
  BY <1>3, <1>4

-----------------------------------------------------------------------------
LEMMA BanStep ==
  ASSUME SlotInv, [Next]_vars, NEW h \in Hashes, Purged(h)
  PROVE  \/ BanEnds(h)
         \/ Purged(h)' /\ owners'[h] \subseteq owners[h]
<1>1. CASE \E p \in Procs : Step(p)
  <2>1. PICK p \in Procs : Step(p)
    BY <1>1
  <2>2. h \in blacklist' \/ BanEnds(h)
    <3>1. CASE Unban(p)
      BY <3>1 DEF Unban, BanEnds, Purged
    <3>2. CASE Ban(p)
      BY <3>2 DEF Ban, Purged
    <3>3. CASE blacklist' = blacklist
      BY <3>3 DEF Purged
    <3>4. QED
      BY <2>1, <3>1, <3>2, <3>3
         DEF Step, CheckBlocked, CheckBlacklist, Acquire, Stream, Store, Own,
             Revive, Release, Has, Erase, Disown, Retract, CheckRefs, Withhold,
             GateBlacklist, GateQuarantine, Load, Lock, Scan, Fill, Invalidate,
             SaveEvent, Note, policy
  <2>3. h \notin stored' /\ owners'[h] \subseteq owners[h]
    BY <2>1, StepAdds DEF Purged, Doing
  <2>4. CASE Doing(p, {"upload", "claim"}, h)
    <3>1. req[p].pc \in {"blocked", "blacklist"} /\ req[p].op \in {"upload", "claim"}
          /\ req[p].hash \in blacklist
      BY <2>4 DEF Purged, Doing
    <3>2. req'[p] = Idle \/ req'[p].pc = "blacklist"
      BY <2>1, <3>1, ChecksStep
    <3>3. QED
      BY <2>1, <2>2, <2>3, <3>2, StepFrame DEF Purged, Doing, Idle
  <2>5. CASE ~Doing(p, {"upload", "claim"}, h)
    <3>1. ~Doing(p, {"upload", "claim"}, h)'
      BY <2>1, <2>5, StepFrame DEF Doing, Idle
    <3>2. QED
      BY <2>1, <2>2, <2>3, <3>1, StepFrame DEF Purged, Doing
  <2>6. QED
    BY <2>4, <2>5
<1>2. ASSUME NEW p \in Procs, NEW op \in Ops \intersect OpNames, NEW g \in Hashes,
             NEW k \in Pubkeys \union {None}, Begin(p, op, g, k)
      PROVE  Purged(h)' /\ owners'[h] \subseteq owners[h]
  <2>1. UNCHANGED <<library, policy>>
    BY <1>2 DEF Begin
  <2>2. /\ \A q \in Procs : q # p => req'[q] = req[q]
        /\ req'[p].op = op /\ req'[p].pc = Calls[op].start
    BY <1>2 DEF Begin, SlotInv, TypeOK
  <2>3. op \in {"upload", "claim"} => Calls[op].start = "blocked"
    BY DEF Calls, UploadCalls, ClaimCalls
  <2>4. QED
    BY <2>1, <2>2, <2>3 DEF Purged, Doing, library, policy
<1>3. CASE Restart
  <2>1. CASE h \notin blacklistFile \/ SavingBlacklist
    BY <1>3, <2>1 DEF BanEnds
  <2>2. CASE h \in blacklistFile /\ ~SavingBlacklist
    BY <1>3, <2>2 DEF Restart, Purged, Doing, Idle
  <2>3. QED
    BY <2>1, <2>2
<1>4. CASE \/ \E g \in Hashes : Unlink(g)
           \/ \E k \in Pubkeys : BlockPubkey(k) \/ AllowPubkey(k)
           \/ Expire
           \/ UNCHANGED vars
  <2>1. UNCHANGED <<stored, owners, blacklist, req>>
    BY <1>4 DEF Unlink, BlockPubkey, AllowPubkey, Expire, vars, library, policy
  <2>2. QED
    BY <2>1 DEF Purged, Doing
<1>5. QED
  BY <1>1, <1>2, <1>3, <1>4 DEF Next

\* A banned blob, once purged together with the uploads and claims of its time,
\* is neither stored nor owned again until the ban is lifted or the process is
\* killed without the ban in blacklist.json, whatever requests overlap, storage
\* calls fail or other saves go wrong.
THEOREM BansStick == SafeSpec => BanSticks
<1>1. SlotInv /\ [Next]_vars =>
        [\A h \in Hashes : Purged(h) => \/ BanEnds(h)
                                        \/ Purged(h)' /\ owners'[h] \subseteq owners[h]]_vars
  BY BanStep
<1>2. QED
  BY <1>1, SlotsInductive, PTL DEF SafeSpec, BanSticks

-----------------------------------------------------------------------------
LEMMA BlockStep ==
  ASSUME SlotInv, [Next]_vars, NEW b \in Pubkeys, ShutOut(b)
  PROVE  \/ b \notin blocked'
         \/ /\ ShutOut(b)'
            /\ \A h \in Hashes : b \in owners'[h] => b \in owners[h]
<1>1. CASE \E p \in Procs : Step(p)
  <2>1. PICK p \in Procs : Step(p)
    BY <1>1
  <2>2. \A h \in Hashes : b \in owners'[h] => b \in owners[h]
    <3>1. ASSUME NEW h \in Hashes, b \in owners'[h] \ owners[h] PROVE FALSE
      <4>1. req[p].op \in {"upload", "claim"} /\ req[p].pc = "own" /\ req[p].key = b
        BY <2>1, <3>1, StepAdds
      <4>2. QED
        BY <4>1 DEF ShutOut
    <3>2. QED
      BY <3>1
  <2>3. CASE req[p].op \in {"upload", "claim"} /\ req[p].key = b
    <3>1. req[p].pc = "blocked" /\ req[p].key \in blocked
      BY <2>3 DEF ShutOut
    <3>2. req'[p] = Idle /\ blocked' = blocked
      BY <2>1, <2>3, <3>1, ChecksStep DEF policy
    <3>3. QED
      BY <2>1, <2>2, <3>2, StepFrame DEF ShutOut, Idle
  <2>4. CASE ~(req[p].op \in {"upload", "claim"} /\ req[p].key = b)
    <3>1. ~(req'[p].op \in {"upload", "claim"} /\ req'[p].key = b)
      BY <2>1, <2>4, StepFrame DEF Idle
    <3>2. QED
      BY <2>1, <2>2, <3>1, StepFrame DEF ShutOut
  <2>5. QED
    BY <2>3, <2>4
<1>2. ASSUME NEW p \in Procs, NEW op \in Ops \intersect OpNames, NEW g \in Hashes,
             NEW k \in Pubkeys \union {None}, Begin(p, op, g, k)
      PROVE  ShutOut(b)' /\ \A h \in Hashes : b \in owners'[h] => b \in owners[h]
  <2>1. UNCHANGED <<library, policy>>
    BY <1>2 DEF Begin
  <2>2. /\ \A q \in Procs : q # p => req'[q] = req[q]
        /\ req'[p].op = op /\ req'[p].pc = Calls[op].start
    BY <1>2 DEF Begin, SlotInv, TypeOK
  <2>3. op \in {"upload", "claim"} => Calls[op].start = "blocked"
    BY DEF Calls, UploadCalls, ClaimCalls
  <2>4. QED
    BY <2>1, <2>2, <2>3 DEF ShutOut, library, policy
<1>3. CASE Restart
  BY <1>3 DEF Restart, ShutOut, Idle
<1>4. CASE \/ \E g \in Hashes : Unlink(g)
           \/ \E k \in Pubkeys : BlockPubkey(k) \/ AllowPubkey(k)
           \/ Expire
           \/ UNCHANGED vars
  <2>1. UNCHANGED <<owners, req>>
    BY <1>4 DEF Unlink, BlockPubkey, AllowPubkey, Expire, vars, library, policy
  <2>2. QED
    BY <2>1 DEF ShutOut
<1>5. QED
  BY <1>1, <1>2, <1>3, <1>4 DEF Next

\* A banned pubkey with nothing in flight past the check becomes the uploader
\* of nothing more for as long as the ban stands.
THEOREM BlockHolds == SafeSpec => BlockedNeverOwns
<1>1. SlotInv /\ [Next]_vars =>
        [\A k \in Pubkeys :
           ShutOut(k) => \/ k \notin blocked'
                         \/ /\ ShutOut(k)'
                            /\ \A h \in Hashes : k \in owners'[h] => k \in owners[h]]_vars
  BY BlockStep
<1>2. QED
  BY <1>1, SlotsInductive, PTL DEF SafeSpec, BlockedNeverOwns

-----------------------------------------------------------------------------
\* An early return leads to the release or to the end, nowhere else.
LEMMA NotQuit ==
  ASSUME SlotInv, NEW p \in Procs, Step(p), req'[p].pc \notin {"idle", "release"}
  PROVE  ~Quit(p)
<1>1. SUFFICES ASSUME Quit(p) PROVE FALSE
  OBVIOUS
<1>2. req[p].pc # "idle" /\ req[p] \in Requests
  BY StepFrame
<1>3. req'[p] = Idle \/ req'[p] = [req[p] EXCEPT !.pc = "release"]
  BY <1>1, <1>2, QuitStep
<1>4. QED
  BY <1>2, <1>3 DEF Idle, Requests

\* How a request comes to a call in the middle of its handler: from the call
\* before it.
LEMMA Arrived ==
  ASSUME SlotInv, NEW p \in Procs, Step(p),
         req'[p].pc \notin {"idle", "release", "invalidate", "fill"}
  PROVE  /\ Proceed(p)
         /\ Calls[req[p].op][req[p].pc] = req'[p].pc
         /\ req'[p].op = req[p].op
         /\ req'[p].hash = req[p].hash
<1>1. /\ req[p].pc # "idle" /\ req[p] \in Requests
      /\ req \in [Procs -> Requests \union {Idle}]
  BY StepFrame DEF SlotInv, TypeOK
<1>2. ~Quit(p)
  BY NotQuit
<1>3. /\ req' # [req EXCEPT ![p].pc = "invalidate"]
      /\ req' # [req EXCEPT ![p].seen = stored, ![p].pc = "fill"]
  BY <1>1 DEF Requests
<1>4. Proceed(p)
  BY <1>2, <1>3
     DEF Step, CheckBlocked, CheckBlacklist, Acquire, Stream, Store, Own,
         Revive, Release, Has, Erase, EraseFailed, Disown, Retract, CheckRefs,
         Withhold, Ban, Unban, GateBlacklist, GateQuarantine, Load, Lock, Scan,
         Fill, Invalidate, SaveEvent, Note
<1>5. QED
  BY <1>1, <1>4, ProceedOK DEF SlotInv, Idle

\* Which calls come before those that owners and the quarantine depend on.
LEMMA Before ==
  ASSUME NEW op \in OpNames, NEW c \in DOMAIN Calls[op]
  PROVE  /\ Calls[op][c] = "own" => c \in {"store", "has"}
         /\ Calls[op][c] = "refs" => c = "retract"
         /\ Calls[op][c] = "withhold" => c = "refs"
<1>1. op \in {"upload", "claim", "hardDelete", "retract", "dashDelete",
              "blacklistAdd", "blacklistRemove", "quarantineRelease",
              "download", "list", "publish", "ingest"}
  BY DEF OpNames, Calls
<1>2. CASE op \in {"upload", "claim"}
  BY <1>2 DEF Calls, UploadCalls, ClaimCalls
<1>3. CASE op \in {"hardDelete", "dashDelete"}
  BY <1>3 DEF Calls, HardDeleteCalls, DashDeleteCalls
<1>4. CASE op = "retract"
  BY <1>4 DEF Calls, RetractCalls
<1>5. CASE op \in {"blacklistAdd", "blacklistRemove", "quarantineRelease"}
  BY <1>5 DEF Calls, BlacklistAddCalls, BlacklistRemoveCalls, ReleaseCalls
<1>6. CASE op \in {"download", "list", "publish", "ingest"}
  BY <1>6 DEF Calls, DownloadCalls, ListCalls, PublishCalls, IngestCalls
<1>7. QED
  BY <1>1, <1>2, <1>3, <1>4, <1>5, <1>6

\* An upload comes to owners.add when it has stored the bytes, and a claim when
\* it has just found them, or on the disk a part of them.
LEMMA IntoOwn ==
  ASSUME SlotInv, NEW p \in Procs, Step(p), req'[p].pc = "own"
  PROVE  /\ req'[p].hash = req[p].hash
         /\ \/ req[p].hash \in stored'
            \/ req[p].pc = "has" /\ Partial(req[p].hash)
<1>1. /\ Proceed(p) /\ Calls[req[p].op][req[p].pc] = "own"
      /\ req'[p].hash = req[p].hash
  BY Arrived
<1>2. req[p].pc \in {"store", "has"}
  BY <1>1, StepFrame, Before
<1>3. Store(p) \/ Has(p)
  BY <1>2 DEF Step, At, CheckBlocked, CheckBlacklist, Acquire, Stream, Own,
         Revive, Release, Erase, Disown, Retract, CheckRefs, Withhold, Ban,
         Unban, GateBlacklist, GateQuarantine, Load, Lock, Scan, Fill,
         Invalidate, SaveEvent, Note
<1>4. ~Quit(p)
  BY NotQuit
<1>5. QED
  BY <1>1, <1>3, <1>4 DEF Store, Stores, Has, At, library

LEMMA AbsentStep ==
  ASSUME SlotInv, [Next]_vars, NEW h \in Hashes, Absent(h),
         h \notin stored', ~Partial(h)'
  PROVE  Absent(h)'
<1>1. CASE \E p \in Procs : Step(p)
  <2>1. PICK p \in Procs : Step(p)
    BY <1>1
  <2>2. owners'[h] = {}
    <3>1. ASSUME NEW k \in owners'[h] PROVE FALSE
      <4>1. req[p].op \in {"upload", "claim"} /\ req[p].pc = "own" /\ req[p].hash = h
        BY <2>1, <3>1, StepAdds DEF Absent
      <4>2. QED
        BY <4>1 DEF Absent, Doing, At
    <3>2. QED
      BY <3>1
  <2>3. ASSUME NEW q \in Procs, Doing(q, {"upload", "claim"}, h)', req'[q].pc = "own"
        PROVE  FALSE
    <3>1. CASE q = p
      BY <2>1, <2>3, <3>1, IntoOwn DEF Doing, Absent
    <3>2. CASE q # p
      BY <2>1, <2>3, <3>2, StepFrame DEF Absent, Doing, At
    <3>3. QED
      BY <3>1, <3>2
  <2>4. QED
    BY <2>2, <2>3 DEF Absent, At
<1>2. ASSUME NEW p \in Procs, NEW op \in Ops \intersect OpNames, NEW g \in Hashes,
             NEW k \in Pubkeys \union {None}, Begin(p, op, g, k)
      PROVE  Absent(h)'
  <2>1. UNCHANGED library
    BY <1>2 DEF Begin
  <2>2. /\ \A q \in Procs : q # p => req'[q] = req[q]
        /\ req'[p].pc = Calls[op].start /\ req'[p].op = op
    BY <1>2 DEF Begin, SlotInv, TypeOK
  <2>3. op \in {"upload", "claim"} => Calls[op].start # "own"
    BY DEF Calls, UploadCalls, ClaimCalls
  <2>4. QED
    BY <2>1, <2>2, <2>3 DEF Absent, Doing, At, library
<1>3. CASE Restart
  BY <1>3 DEF Restart, Absent, Doing, At, Idle
<1>4. CASE \/ \E g \in Hashes : Unlink(g)
           \/ \E k \in Pubkeys : BlockPubkey(k) \/ AllowPubkey(k)
           \/ Expire
           \/ UNCHANGED vars
  <2>1. UNCHANGED <<owners, req>>
    BY <1>4 DEF Unlink, BlockPubkey, AllowPubkey, Expire, vars, library
  <2>2. QED
    BY <2>1 DEF Absent, Doing, At
<1>5. QED
  BY <1>1, <1>2, <1>3, <1>4 DEF Next

\* A blob of which nothing is there becomes somebody's only after it is stored
\* or, on the disk, after a store of it has begun: nothing but a claim left over
\* from before a deletion, or one that met a store's temporary file, makes a
\* phantom owner, whatever fails, crashes or overlaps.
THEOREM NoPhantoms == SafeSpec => NoPhantomOwner
<1>1. SlotInv /\ [Next]_vars =>
        [\A h \in Hashes : Absent(h) => Absent(h)' \/ h \in stored' \/ Partial(h)']_vars
  BY AbsentStep
<1>2. QED
  BY <1>1, SlotsInductive, PTL DEF SafeSpec, NoPhantomOwner

-----------------------------------------------------------------------------
\* Bytes go only by an erasure, owners by a disowning or their own retraction.
LEMMA StepRemoves ==
  ASSUME SlotInv, NEW p \in Procs, Step(p), NEW h \in Hashes
  PROVE  /\ h \in stored \ stored' => req[p].pc = "erase" /\ req[p].hash = h
         /\ \A k \in owners[h] \ owners'[h] :
              \/ req[p].pc = "disown"
              \/ req[p].pc = "retract" /\ req[p].key = k
<1>0. req[p].hash \in Hashes /\ owners \in [Hashes -> SUBSET Pubkeys]
  BY StepFrame DEF SlotInv, TypeOK, Requests
<1>1. h \in stored \ stored' => req[p].pc = "erase" /\ req[p].hash = h
  BY DEF Step, At, CheckBlocked, CheckBlacklist, Acquire, Stream, Store, Stores,
         Own, Revive, Release, Has, Erase, Erases, Disown, Retract, CheckRefs,
         Withhold, Ban, Unban, GateBlacklist, GateQuarantine, Load, Lock, Scan,
         Fill, Invalidate, SaveEvent, Note, library
<1>2. \A k \in owners[h] \ owners'[h] :
        req[p].pc = "disown" \/ (req[p].pc = "retract" /\ req[p].key = k)
  <2>1. CASE Own(p)
    BY <1>0, <2>1 DEF Own, At
  <2>2. CASE Disown(p) \/ Retract(p)
    BY <1>0, <2>2 DEF Disown, Retract, At
  <2>3. CASE owners' = owners
    BY <2>3
  <2>4. QED
    BY <2>1, <2>2, <2>3
       DEF Step, CheckBlocked, CheckBlacklist, Acquire, Stream, Store, Revive,
           Release, Has, Erase, CheckRefs, Withhold, Ban, Unban, GateBlacklist,
           GateQuarantine, Load, Lock, Scan, Fill, Invalidate, SaveEvent, Note,
           library
<1>3. QED
  BY <1>1, <1>2

LEMMA RetractOnly ==
  ASSUME SlotInv, NEW p \in Procs, Step(p), req[p].key # Admin
  PROVE  /\ stored \subseteq stored'
         /\ \A h \in Hashes : owners[h] \ owners'[h] \subseteq {req[p].key}
<1>1. req[p].pc \notin {"erase", "disown"}
  <2>1. SUFFICES ASSUME req[p].pc \in {"erase", "disown"} PROVE FALSE
    OBVIOUS
  <2>2. req[p].op \in {"hardDelete", "dashDelete", "blacklistAdd"}
    BY <2>1, StepFrame, Callers
  <2>3. req[p].key \in {Admin}
    BY <2>2, StepFrame DEF Signers, Moderation
  <2>4. QED
    BY <2>3
<1>2. stored \subseteq Hashes
  BY DEF SlotInv, TypeOK
<1>3. QED
  BY <1>1, <1>2, StepRemoves

\* A request that the admin did not sign never removes bytes from the store,
\* and of the owners of any blob it removes at most its own signer.
THEOREM RetractsItself == SafeSpec => NonAdminOnlyRetractsItself
<1>1. SlotInv /\ [Next]_vars =>
        [\A p \in Procs :
           Step(p) /\ req[p].key # Admin =>
             /\ stored \subseteq stored'
             /\ \A h \in Hashes : owners[h] \ owners'[h] \subseteq {req[p].key}]_vars
  BY RetractOnly
<1>2. QED
  BY <1>1, SlotsInductive, PTL DEF SafeSpec, NonAdminOnlyRetractsItself

-----------------------------------------------------------------------------
\* The listing.  The inductive invariant says whose the mutex is, and that what
\* a scan has seen is still stored or about to be invalidated, which is what
\* makes it safe to cache.
Guarded(h) == h \in stored \/ RefreshPending(h)

LockHeld == \A p \in Procs : req[p].pc \in {"scan", "fill"} => cacheLock = p

SeenGuarded == \A p \in Procs : req[p].pc = "fill" => \A h \in req[p].seen : Guarded(h)

CacheGuarded == \A list \in cache, h \in Hashes : h \in list => Guarded(h)

ListingInv == SlotInv /\ LockHeld /\ SeenGuarded /\ CacheGuarded

\* Which step moves a request to the calls of the listing.
LEMMA IntoListing ==
  ASSUME SlotInv, NEW p \in Procs, Step(p), req'[p].pc \in {"scan", "fill"}
  PROVE  \/ Lock(p) /\ cacheLock' = p /\ req'[p].pc = "scan"
         \/ /\ Scan(p) /\ req'[p].pc = "fill" /\ req'[p].seen = stored
            /\ UNCHANGED cacheLock
<1>1. req[p].pc # "idle" /\ req[p] \in Requests /\ req[p].op \in OpNames
      /\ req[p].pc \in DOMAIN Calls[req[p].op] /\ req[p].pc # "start"
      /\ req \in [Procs -> Requests \union {Idle}]
  BY StepFrame DEF SlotInv, TypeOK
<1>2. ~Quit(p)
  BY NotQuit
<1>3. req' # [req EXCEPT ![p].pc = "invalidate"]
  BY <1>1 DEF Requests
<1>4. CASE Proceed(p)
  <2>1. Calls[req[p].op][req[p].pc] \in {"scan", "fill"}
    BY <1>1, <1>4, ProceedOK DEF SlotInv
  <2>2. req[p].op \in {"upload", "claim", "hardDelete", "retract", "dashDelete",
              "blacklistAdd", "blacklistRemove", "quarantineRelease",
              "download", "list", "publish", "ingest"}
    BY <1>1 DEF OpNames, Calls
  <2>3. req[p].op = "list" /\ req[p].pc \in {"lock", "scan"}
    BY <1>1, <2>1, <2>2
       DEF Calls, UploadCalls, ClaimCalls, HardDeleteCalls, RetractCalls,
           DashDeleteCalls, BlacklistAddCalls, BlacklistRemoveCalls, ReleaseCalls,
           DownloadCalls, ListCalls, PublishCalls, IngestCalls
  <2>4. Lock(p) \/ Scan(p)
    BY <2>3 DEF Step, At, CheckBlocked, CheckBlacklist, Acquire, Stream, Store,
           Own, Revive, Release, Has, Erase, Disown, Retract, CheckRefs,
           Withhold, Ban, Unban, GateBlacklist, GateQuarantine, Load, Fill,
           Invalidate, SaveEvent, Note
  <2>5. CASE Lock(p)
    <3>1. req[p].pc = "lock" /\ cacheLock' = p
      BY <1>2, <2>5 DEF Lock, At
    <3>2. Calls["list"]["lock"] = "scan"
      BY DEF Calls, ListCalls
    <3>3. req'[p].pc = "scan"
      BY <1>1, <1>4, <2>3, <3>1, <3>2, ProceedOK DEF SlotInv
    <3>4. QED
      BY <2>5, <3>1, <3>3
  <2>6. CASE Scan(p)
    <3>1. req' = [req EXCEPT ![p].seen = stored, ![p].pc = "fill"] /\ UNCHANGED cacheLock
      BY <1>2, <2>6 DEF Scan
    <3>2. QED
      BY <1>1, <2>6, <3>1 DEF Requests
  <2>7. QED
    BY <2>4, <2>5, <2>6
<1>5. CASE Scan(p)
  <2>1. req' = [req EXCEPT ![p].seen = stored, ![p].pc = "fill"] /\ UNCHANGED cacheLock
    BY <1>2, <1>5 DEF Scan
  <2>2. QED
    BY <1>1, <1>5, <2>1 DEF Requests
<1>6. QED
  BY <1>2, <1>3, <1>4, <1>5
     DEF Step, CheckBlocked, CheckBlacklist, Acquire, Stream, Store, Own,
         Revive, Release, Has, Erase, EraseFailed, Disown, Retract, CheckRefs,
         Withhold, Ban, Unban, GateBlacklist, GateQuarantine, Load, Lock, Fill,
         Invalidate, SaveEvent, Note

\* Only an invalidation may end the protection of a blob that is gone.
LEMMA GuardedKept ==
  ASSUME SlotInv, "unacked" \notin Failures, NEW p \in Procs, Step(p),
         ~Invalidate(p), NEW h \in Hashes, Guarded(h)
  PROVE  Guarded(h)'
<1> DEFINE erasers == {"hardDelete", "dashDelete", "blacklistAdd"}
<1>1. /\ req[p].pc # "idle" /\ req[p].op \in OpNames
      /\ req[p].pc \in DOMAIN Calls[req[p].op] /\ req[p].pc # "start"
  BY StepFrame
<1>2. CASE h \in stored \ stored'
  <2>1. req[p].pc = "erase" /\ req[p].hash = h /\ req[p].op \in erasers
    BY <1>1, <1>2, StepRemoves, Callers
  <2>2. Erase(p)
    BY <2>1 DEF Step, At, CheckBlocked, CheckBlacklist, Acquire, Stream, Store,
           Own, Revive, Release, Has, Disown, Retract, CheckRefs, Withhold, Ban,
           Unban, GateBlacklist, GateQuarantine, Load, Lock, Scan, Fill,
           Invalidate, SaveEvent, Note
  <2>3. Proceed(p)
    BY <1>2, <2>2 DEF Erase
  <2>4. Calls[req[p].op]["erase"] = "disown"
    BY <2>1 DEF Calls, HardDeleteCalls, DashDeleteCalls, BlacklistAddCalls
  <2>5. req'[p].pc = "disown" /\ req'[p].hash = h /\ req'[p].op \in erasers
    BY <1>1, <2>1, <2>3, <2>4, ProceedOK DEF SlotInv, Idle
  <2>6. QED
    BY <2>5 DEF Guarded, RefreshPending, Doing
<1>3. ASSUME NEW q \in Procs, Doing(q, erasers, h),
             req[q].pc \in {"disown", "revive", "invalidate"}
      PROVE  RefreshPending(h)'
  <2>1. CASE q # p
    BY <1>3, <2>1, StepFrame DEF RefreshPending, Doing
  <2>2. CASE q = p
    <3>1. Disown(p) \/ Revive(p)
      BY <1>3, <2>2 DEF Step, At, CheckBlocked, CheckBlacklist, Acquire, Stream,
             Store, Own, Release, Has, Erase, Retract, CheckRefs, Withhold, Ban,
             Unban, GateBlacklist, GateQuarantine, Load, Lock, Scan, Fill,
             Invalidate, SaveEvent, Note
    <3>2. Proceed(p) /\ req[p].pc \in {"disown", "revive"}
      BY <3>1 DEF Disown, Revive, At
    <3>3. Calls[req[p].op][req[p].pc] \in {"revive", "invalidate"}
      BY <1>1, <1>3, <2>2, <3>2
         DEF Doing, Calls, HardDeleteCalls, DashDeleteCalls, BlacklistAddCalls
    <3>4. /\ req'[p].pc \in {"revive", "invalidate"}
          /\ req'[p].op = req[p].op /\ req'[p].hash = req[p].hash
      BY <1>1, <3>2, <3>3, ProceedOK DEF SlotInv, Idle
    <3>5. QED
      BY <1>3, <2>2, <3>4 DEF RefreshPending, Doing
  <2>3. QED
    BY <2>1, <2>2
<1>4. QED
  BY <1>2, <1>3 DEF Guarded, RefreshPending

LEMMA InvalidateListing ==
  ASSUME ListingInv, NEW p \in Procs, Invalidate(p), SlotInv'
  PROVE  ListingInv'
<1>1. /\ req[p].pc = "invalidate" /\ cacheLock = Free /\ cache' = {}
      /\ Proceed(p) /\ UNCHANGED cacheLock
  BY DEF Invalidate, At, CacheUnlocked
<1>2. req[p].pc # "idle" /\ Step(p)
  BY <1>1 DEF Step
<1>3. \A q \in Procs : req'[q].pc \notin {"scan", "fill"}
  <2>1. \A q \in Procs : req[q].pc \notin {"scan", "fill"}
    BY <1>1, BlobAssumption DEF ListingInv, LockHeld
  <2>2. req'[p].pc \notin {"scan", "fill"}
    BY <1>1, <1>2, IntoListing DEF ListingInv, Lock, Scan, At
  <2>3. QED
    BY <1>2, <2>1, <2>2, StepFrame DEF ListingInv
<1>4. QED
  BY <1>1, <1>3 DEF ListingInv, LockHeld, SeenGuarded, CacheGuarded

LEMMA StepListing ==
  ASSUME ListingInv, "unacked" \notin Failures, NEW p \in Procs, Step(p),
         ~Invalidate(p)
  PROVE  ListingInv'
<1>0. SlotInv /\ SlotInv'
  BY StepKept DEF ListingInv
<1>1. \A h \in Hashes : Guarded(h) => Guarded(h)'
  BY <1>0, GuardedKept
<1>2. \A q \in Procs : q # p => req'[q] = req[q]
  BY <1>0, StepFrame
<1>3. /\ stored \subseteq Hashes
      /\ \A q \in Procs : req[q].pc = "fill" => req[q].seen \subseteq Hashes
  BY <1>0 DEF SlotInv, TypeOK, Requests, Idle
<1>4. \/ UNCHANGED cacheLock
      \/ Lock(p) /\ cacheLock = Free
      \/ (Scan(p) \/ Fill(p)) /\ req[p].pc \in {"scan", "fill"}
  BY DEF Step, At, CheckBlocked, CheckBlacklist, Acquire, Stream, Store, Own,
         Revive, Release, Has, Erase, Disown, Retract, CheckRefs, Withhold, Ban,
         Unban, GateBlacklist, GateQuarantine, Load, Lock, Scan, Fill,
         SaveEvent, Note, listing
<1>5. LockHeld'
  <2>1. ASSUME NEW q \in Procs, q # p, req'[q].pc \in {"scan", "fill"}
        PROVE  cacheLock' = q
    <3>1. cacheLock = q
      BY <1>2, <2>1 DEF ListingInv, LockHeld
    <3>2. UNCHANGED cacheLock
      BY <1>4, <2>1, <3>1, BlobAssumption DEF ListingInv, LockHeld
    <3>3. QED
      BY <3>1, <3>2
  <2>2. ASSUME req'[p].pc \in {"scan", "fill"} PROVE cacheLock' = p
    <3>1. CASE Lock(p) /\ cacheLock' = p
      BY <3>1
    <3>2. CASE Scan(p) /\ UNCHANGED cacheLock
      BY <3>2 DEF Scan, At, ListingInv, LockHeld
    <3>3. QED
      BY <1>0, <2>2, <3>1, <3>2, IntoListing
  <2>3. QED
    BY <2>1, <2>2 DEF LockHeld
<1>6. SeenGuarded'
  <2>1. ASSUME NEW q \in Procs, q # p, req'[q].pc = "fill", NEW h \in req'[q].seen
        PROVE  Guarded(h)'
    BY <1>1, <1>2, <1>3, <2>1 DEF ListingInv, SeenGuarded
  <2>2. ASSUME req'[p].pc = "fill", NEW h \in req'[p].seen PROVE Guarded(h)'
    <3>1. req'[p].seen = stored
      BY <1>0, <2>2, IntoListing
    <3>2. QED
      BY <1>1, <1>3, <2>2, <3>1 DEF Guarded
  <2>3. QED
    BY <2>1, <2>2 DEF SeenGuarded
<1>7. CacheGuarded'
  <2>1. CASE Fill(p)
    <3>1. cache' = {req[p].seen} /\ req[p].pc = "fill"
      BY <2>1 DEF Fill, At
    <3>2. QED
      BY <1>1, <3>1 DEF ListingInv, SeenGuarded, CacheGuarded
  <2>2. CASE UNCHANGED cache
    BY <1>1, <2>2 DEF ListingInv, CacheGuarded
  <2>3. QED
    BY <2>1, <2>2
       DEF Step, CheckBlocked, CheckBlacklist, Acquire, Stream, Store, Own,
           Revive, Release, Has, Erase, Disown, Retract, CheckRefs, Withhold,
           Ban, Unban, GateBlacklist, GateQuarantine, Load, Lock, Scan,
           SaveEvent, Note, listing
<1>8. QED
  BY <1>0, <1>5, <1>6, <1>7 DEF ListingInv

LEMMA BeginListing ==
  ASSUME ListingInv, NEW p \in Procs, NEW op \in OpNames, NEW h \in Hashes,
         NEW k \in Pubkeys \union {None}, Begin(p, op, h, k)
  PROVE  ListingInv'
<1>0. SlotInv' /\ SlotInv
  BY BeginKept DEF ListingInv
<1>1. /\ \A q \in Procs : q # p => req'[q] = req[q]
      /\ req'[p].pc = Calls[op].start
      /\ req[p].pc = "idle"
      /\ UNCHANGED <<stored, cache, cacheLock>>
  BY <1>0 DEF Begin, SlotInv, TypeOK, library, listing, At
<1>2. Calls[op].start \notin {"scan", "fill"}
  BY DEF OpNames, Calls, UploadCalls, ClaimCalls, HardDeleteCalls, RetractCalls,
         DashDeleteCalls, BlacklistAddCalls, BlacklistRemoveCalls, ReleaseCalls,
         DownloadCalls, ListCalls, PublishCalls, IngestCalls
<1>3. \A g : Guarded(g) => Guarded(g)'
  BY <1>1 DEF Guarded, RefreshPending, Doing
<1>4. QED
  BY <1>0, <1>1, <1>2, <1>3 DEF ListingInv, LockHeld, SeenGuarded, CacheGuarded

\* While no deletion takes effect and reports a failure, the cached listing
\* shows a deleted blob only until the handler that deleted it refreshes the
\* cache: however scans, deletes, failures and restarts overlap.
THEOREM ListingFresh ==
  ASSUME "unacked" \notin Failures
  PROVE  SafeSpec => []ListingNeverOutlivesDelete
<1>1. Init => ListingInv
  BY InitSlotInv DEF Init, Idle, ListingInv, LockHeld, SeenGuarded, CacheGuarded
<1>2. ListingInv /\ [Next]_vars => ListingInv'
  <2> SUFFICES ASSUME ListingInv, [Next]_vars PROVE ListingInv'
    OBVIOUS
  <2>1. ASSUME NEW p \in Procs, NEW op \in Ops \intersect OpNames,
               NEW h \in Hashes, NEW k \in Pubkeys \union {None},
               Begin(p, op, h, k)
        PROVE  ListingInv'
    BY <2>1, BeginListing
  <2>2. ASSUME NEW p \in Procs, Step(p) PROVE ListingInv'
    BY <2>2, StepKept, StepListing, InvalidateListing DEF ListingInv
  <2>3. CASE Restart
    BY <2>3, RestartKept DEF ListingInv, Restart, Idle, LockHeld, SeenGuarded, CacheGuarded
  <2>4. CASE \/ \E h \in Hashes : Unlink(h)
             \/ \E k \in Pubkeys : BlockPubkey(k) \/ AllowPubkey(k)
             \/ Expire
             \/ UNCHANGED vars
    <3>1. SlotInv'
      BY <2>4, IdleStepKept DEF ListingInv
    <3>2. /\ UNCHANGED <<req, cacheLock, stored>>
          /\ cache' \in {cache, {}}
      BY <2>4 DEF Unlink, BlockPubkey, AllowPubkey, Expire, vars, library, listing
    <3>3. QED
      BY <3>1, <3>2 DEF ListingInv, LockHeld, SeenGuarded, CacheGuarded, Guarded,
                        RefreshPending, Doing
  <2>5. QED
    BY <2>1, <2>2, <2>3, <2>4 DEF Next
<1>3. ListingInv => ListingNeverOutlivesDelete
  BY DEF ListingInv, CacheGuarded, Guarded, ListingNeverOutlivesDelete
<1>4. QED
  BY <1>1, <1>2, <1>3, PTL DEF SafeSpec

-----------------------------------------------------------------------------
\* References.  A publication is indexed by the call that follows its storing.
IndexPending(h) == \E p \in Procs : Doing(p, {"publish"}, h) /\ At(p, "note")

LEMMA StepIndexed ==
  ASSUME SlotInv, NEW p \in Procs, Step(p), NEW h \in Hashes, Indexed(h),
         ~(SaveEvent(p) /\ req[p].op = "ingest")
  PROVE  Indexed(h)'
<1>1. req[p].op \in OpNames /\ req[p].pc \in DOMAIN Calls[req[p].op]
      /\ req[p].pc # "start" /\ req[p].pc # "idle" /\ req[p].hash \in Hashes
  BY StepFrame DEF Requests
<1>2. h \in mods => h \in refs \/ IndexPending(h)
  BY DEF Indexed, IndexPending
<1>3. req[p].pc # "note" /\ IndexPending(h) => IndexPending(h)'
  <2>1. SUFFICES ASSUME req[p].pc # "note", IndexPending(h) PROVE IndexPending(h)'
    OBVIOUS
  <2>2. PICK q \in Procs : Doing(q, {"publish"}, h) /\ req[q].pc = "note"
    BY <2>1 DEF IndexPending, At
  <2>3. q # p
    BY <2>1, <2>2
  <2>4. QED
    BY <2>2, <2>3, StepFrame DEF IndexPending, Doing, At
<1>4. CASE SaveEvent(p)
  <2>1. req[p].pc = "save" /\ Proceed(p) /\ mods' = mods \union {req[p].hash}
        /\ UNCHANGED refs
    BY <1>4 DEF SaveEvent, At
  <2>2. req[p].op = "publish"
    BY <1>1, <1>4, <2>1, Callers
  <2>3. Calls["publish"]["save"] = "note"
    BY DEF Calls, PublishCalls
  <2>4. req'[p].pc = "note" /\ req'[p].op = "publish" /\ req'[p].hash = req[p].hash
    BY <1>1, <2>1, <2>2, <2>3, ProceedOK DEF SlotInv, Idle
  <2>5. h = req[p].hash => IndexPending(h)'
    BY <2>4 DEF IndexPending, Doing, At
  <2>6. QED
    BY <1>2, <1>3, <2>1, <2>5 DEF Indexed, IndexPending
<1>5. CASE Note(p)
  <2>1. req[p].pc = "note" /\ refs' = refs \union {req[p].hash} /\ UNCHANGED mods
    BY <1>5 DEF Note, At
  <2>2. ASSUME NEW q \in Procs, Doing(q, {"publish"}, h), At(q, "note")
        PROVE  h \in refs' \/ IndexPending(h)'
    <3>1. CASE q = p
      BY <2>1, <2>2, <3>1 DEF Doing
    <3>2. CASE q # p
      <4>1. req'[q] = req[q]
        BY <3>2, StepFrame
      <4>2. IndexPending(h)'
        BY <2>2, <4>1 DEF IndexPending, Doing, At
      <4>3. QED
        BY <4>2
    <3>3. QED
      BY <3>1, <3>2
  <2>3. QED
    BY <1>2, <2>1, <2>2 DEF Indexed, IndexPending
<1>6. CASE ~SaveEvent(p) /\ ~Note(p)
  <2>1. UNCHANGED events
    BY <1>6 DEF Step, CheckBlocked, CheckBlacklist, Acquire, Stream, Store, Own,
           Revive, Release, Has, Erase, Disown, Retract, CheckRefs, Withhold,
           Ban, Unban, GateBlacklist, GateQuarantine, Load, Lock, Scan, Fill,
           Invalidate
  <2>2. req[p].pc # "note"
    BY <1>6 DEF Step, At, CheckBlocked, CheckBlacklist, Acquire, Stream, Store,
           Own, Revive, Release, Has, Erase, Disown, Retract, CheckRefs,
           Withhold, Ban, Unban, GateBlacklist, GateQuarantine, Load, Lock, Scan,
           Fill, Invalidate
  <2>3. QED
    BY <1>2, <1>3, <2>1, <2>2 DEF Indexed, IndexPending, events
<1>7. QED
  BY <1>4, <1>5, <1>6

\* The reference index falls behind the stored events in two ways only: the
\* ingest loop stores an event, or a restart rebuilds the index in part.  What
\* it knows in between, no publication, erasure or overlap of them takes away.
THEOREM IndexDrifts == SafeSpec => IndexKeepsUp
<1>1. ASSUME SlotInv, [Next]_vars, NEW h \in Hashes, Indexed(h)
      PROVE  \/ Indexed(h)'
             \/ \E p \in Procs : SaveEvent(p) /\ req[p].op = "ingest"
             \/ Restart
  <2>1. ASSUME NEW p \in Procs, NEW op \in Ops \intersect OpNames,
               NEW g \in Hashes, NEW k \in Pubkeys \union {None},
               Begin(p, op, g, k)
        PROVE  Indexed(h)'
    <3>1. /\ \A q \in Procs : q # p => req'[q] = req[q]
          /\ req[p].pc = "idle"
          /\ UNCHANGED <<mods, refs>>
      BY <1>1, <2>1 DEF Begin, SlotInv, TypeOK, events, At
    <3>2. QED
      BY <1>1, <3>1 DEF Indexed, Doing, At
  <2>2. ASSUME NEW p \in Procs, Step(p)
        PROVE  Indexed(h)' \/ (SaveEvent(p) /\ req[p].op = "ingest")
    BY <1>1, <2>2, StepIndexed
  <2>3. CASE \/ \E g \in Hashes : Unlink(g)
             \/ \E k \in Pubkeys : BlockPubkey(k) \/ AllowPubkey(k)
             \/ Expire
             \/ UNCHANGED vars
    <3>1. UNCHANGED <<req, refs>> /\ mods' \subseteq mods
      BY <2>3 DEF Unlink, BlockPubkey, AllowPubkey, Expire, vars, events
    <3>2. QED
      BY <1>1, <3>1 DEF Indexed, Doing, At
  <2>4. QED
    BY <1>1, <2>1, <2>2, <2>3 DEF Next
<1>2. SlotInv /\ [Next]_vars =>
        [\A h \in Hashes :
           Indexed(h) => \/ Indexed(h)'
                         \/ \E p \in Procs : SaveEvent(p) /\ req[p].op = "ingest"
                         \/ Restart]_vars
  BY <1>1
<1>3. QED
  BY <1>2, SlotsInductive, PTL DEF SafeSpec, IndexKeepsUp

-----------------------------------------------------------------------------
LEMMA StepSlots ==
  ASSUME SlotInv, NEW p \in Procs, Step(p)
  PROVE  \/ \E k \in Pubkeys : Slots!Admit(p, k)
         \/ Slots!Finish(p)
         \/ UNCHANGED uploading
<1>1. CASE Acquire(p)
  <2>1. req[p].key \in Pubkeys
    <3>1. req[p].op = "upload"
      BY <1>1, StepFrame, Callers DEF Acquire, At
    <3>2. QED
      BY <3>1, KeyNotNone DEF SlotInv
  <2>2. QED
    BY <1>1, <2>1 DEF Acquire
<1>2. CASE Release(p)
  BY <1>2 DEF Release
<1>3. CASE ~Acquire(p) /\ ~Release(p)
  BY <1>3 DEF Step, CheckBlocked, CheckBlacklist, Stream, Store, Own, Revive, Has,
         Erase, Disown, Retract, CheckRefs, Withhold, Ban, Unban, GateBlacklist,
         GateQuarantine, Load, Lock, Scan, Fill, Invalidate, SaveEvent, Note
<1>4. QED
  BY <1>1, <1>2, <1>3

\* The handlers use the limiter as UploadSlots allows: each step of any handler
\* admits one upload that may be admitted, ends one, or leaves the slots alone.
THEOREM HandlersObeySlots == SafeSpec => ImplementsSlots
<1>1. Init => Slots!Init
  BY BlobAssumption DEF Init, Slots!Init
<1>2. SlotInv /\ [Next]_vars => [Slots!Next]_(Slots!vars)
  <2> SUFFICES ASSUME SlotInv, [Next]_vars PROVE Slots!Next \/ UNCHANGED uploading
    BY DEF Slots!vars
  <2>1. ASSUME NEW p \in Procs, Step(p) PROVE Slots!Next \/ UNCHANGED uploading
    BY <2>1, StepSlots DEF Slots!Next
  <2>2. ASSUME Restart PROVE Slots!Next
    BY <2>2, BlobAssumption DEF Restart, Slots!Next, Slots!Restart
  <2>3. CASE \/ \E p \in Procs, op \in Ops \intersect OpNames, h \in Hashes,
                  k \in Pubkeys \union {None} : Begin(p, op, h, k)
             \/ \E h \in Hashes : Unlink(h)
             \/ \E k \in Pubkeys : BlockPubkey(k) \/ AllowPubkey(k)
             \/ Expire
             \/ UNCHANGED vars
    BY <2>3 DEF Begin, Unlink, BlockPubkey, AllowPubkey, Expire, vars
  <2>4. QED
    BY <2>1, <2>2, <2>3 DEF Next
<1>3. QED
  BY <1>1, <1>2, SlotsInductive, PTL DEF SafeSpec, ImplementsSlots, Slots!SafeSpec
-----------------------------------------------------------------------------
\* One request at a time.  The two ways in which the handlers' comments fail,
\* an owner whose blob is withheld and an owner whose blob is gone, both need
\* another request between two calls of one handler.
OneAtATime == \A p, q \in Procs : p = q

Reviving(h) == \E p \in Procs : Doing(p, {"upload", "claim"}, h) /\ At(p, "revive")

\* A withheld blob has no owner, but for one whose upload or claim is about to
\* revive it; and a retraction that will withhold has left no owner.
SerialInv ==
  /\ SlotInv
  /\ \A h \in quarantine : owners[h] = {} \/ Reviving(h)
  /\ \A p \in Procs : req[p].pc \in {"refs", "withhold"} => owners[req[p].hash] = {}

LEMMA SerialStep ==
  ASSUME SerialInv, OneAtATime, NEW p \in Procs, Step(p)
  PROVE  SerialInv'
<1>0. /\ SlotInv /\ SlotInv'
      /\ req[p].hash \in Hashes /\ quarantine \subseteq Hashes
      /\ owners \in [Hashes -> SUBSET Pubkeys]
      /\ \A q \in Procs : q = p
  BY StepKept, StepFrame DEF SerialInv, SlotInv, TypeOK, Requests, OneAtATime
<1>1. req[p].pc # "revive" => \A h \in quarantine : owners[h] = {}
  BY <1>0 DEF SerialInv, Reviving, Doing, At
<1>2. ASSUME NEW h \in quarantine' PROVE owners'[h] = {} \/ Reviving(h)'
  <2>1. CASE Own(p)
    <3>1. /\ req[p].pc = "own" /\ Proceed(p) /\ h \in quarantine
          /\ h # req[p].hash => owners'[h] = owners[h]
      BY <1>0, <1>2, <2>1 DEF Own, At
    <3>2. req[p].op \in {"upload", "claim"} /\ Calls[req[p].op]["own"] = "revive"
      BY <1>0, <3>1, StepFrame, Callers DEF Calls, UploadCalls, ClaimCalls
    <3>3. /\ req'[p].pc = "revive" /\ req'[p].op = req[p].op
          /\ req'[p].hash = req[p].hash
      BY <1>0, <3>1, <3>2, StepFrame, ProceedOK DEF SlotInv, Idle
    <3>4. QED
      BY <1>1, <3>1, <3>2, <3>3 DEF Reviving, Doing, At
  <2>2. CASE Revive(p)
    <3>1. h \in quarantine /\ h # req[p].hash /\ UNCHANGED owners
      BY <1>2, <2>2 DEF Revive
    <3>2. ~Reviving(h)
      BY <1>0, <3>1 DEF Reviving, Doing
    <3>3. QED
      BY <3>1, <3>2 DEF SerialInv
  <2>3. CASE Withhold(p)
    <3>1. req[p].pc = "withhold" /\ h \in quarantine \union {req[p].hash}
          /\ UNCHANGED owners
      BY <1>2, <2>3 DEF Withhold, At
    <3>2. QED
      BY <1>0, <1>1, <3>1 DEF SerialInv
  <2>4. CASE Disown(p) \/ Retract(p)
    <3>1. /\ req[p].pc # "revive" /\ h \in quarantine
          /\ owners'[h] \subseteq owners[h]
      BY <1>0, <1>2, <2>4 DEF Disown, Retract, At
    <3>2. QED
      BY <1>1, <3>1
  <2>5. CASE UNCHANGED <<owners, quarantine>> /\ req[p].pc # "revive"
    BY <1>1, <1>2, <2>5
  <2>6. QED
    BY <2>1, <2>2, <2>3, <2>4, <2>5
       DEF Step, At, CheckBlocked, CheckBlacklist, Acquire, Stream, Store,
           Release, Has, Erase, CheckRefs, Ban, Unban, GateBlacklist,
           GateQuarantine, Load, Lock, Scan, Fill, Invalidate, SaveEvent, Note,
           library
<1>3. ASSUME req'[p].pc \in {"refs", "withhold"} PROVE owners'[req'[p].hash] = {}
  <2>1. /\ req'[p].hash = req[p].hash /\ Proceed(p)
        /\ req[p].pc \in {"retract", "refs"}
    BY <1>0, <1>3, Arrived, Before, StepFrame
  <2>2. Retract(p) \/ CheckRefs(p)
    BY <2>1 DEF Step, At, CheckBlocked, CheckBlacklist, Acquire, Stream, Store,
           Own, Revive, Release, Has, Erase, Disown, Withhold, Ban, Unban,
           GateBlacklist, GateQuarantine, Load, Lock, Scan, Fill, Invalidate,
           SaveEvent, Note
  <2>3. CASE Retract(p)
    <3>1. ~Quit(p) /\ req' # [req EXCEPT ![p].pc = "invalidate"]
      <4>1. ~Quit(p)
        BY <1>0, <1>3, NotQuit
      <4>2. QED
        BY <1>0, <1>3, <4>1 DEF SlotInv, TypeOK, Requests, Idle
    <3>2. owners' = [owners EXCEPT ![req[p].hash] = {}]
      BY <2>3, <3>1 DEF Retract
    <3>3. QED
      BY <1>0, <2>1, <3>2
  <2>4. CASE CheckRefs(p)
    BY <2>1, <2>4 DEF CheckRefs, At, SerialInv, library
  <2>5. QED
    BY <2>2, <2>3, <2>4
<1>4. QED
  BY <1>0, <1>2, <1>3 DEF SerialInv, Reviving, Doing, At

\* An arrival touches nothing but its own request, and starts no handler in
\* the middle.
LEMMA BeginFrame ==
  ASSUME SlotInv, NEW p \in Procs, NEW op \in OpNames, NEW h \in Hashes,
         NEW k \in Pubkeys \union {None}, Begin(p, op, h, k)
  PROVE  /\ SlotInv'
         /\ UNCHANGED <<library, policy, events, listing>>
         /\ req[p] = Idle
         /\ \A q \in Procs : q # p => req'[q] = req[q]
         /\ req'[p].pc \notin {"idle", "own", "refs", "withhold", "disown",
                               "scan", "fill"}
         /\ req'[p].op = op
         /\ op \in {"upload", "claim"} => req'[p].pc = "blocked"
<1>1. SlotInv' /\ UNCHANGED <<library, policy, events, listing>>
  BY BeginKept DEF Begin
<1>2. /\ req[p] = Idle
      /\ \A q \in Procs : q # p => req'[q] = req[q]
      /\ req'[p].pc = Calls[op].start /\ req'[p].op = op
  BY IdleLabel DEF Begin, SlotInv, TypeOK
<1>3. /\ Calls[op].start \notin {"idle", "own", "refs", "withhold", "disown",
                                 "scan", "fill"}
      /\ op \in {"upload", "claim"} => Calls[op].start = "blocked"
  BY DEF OpNames, Calls, UploadCalls, ClaimCalls, HardDeleteCalls, RetractCalls,
         DashDeleteCalls, BlacklistAddCalls, BlacklistRemoveCalls, ReleaseCalls,
         DownloadCalls, ListCalls, PublishCalls, IngestCalls
<1>4. QED
  BY <1>1, <1>2, <1>3

\* Steps that move no request leave the library alone too.
LEMMA IdleFrame ==
  ASSUME SlotInv,
         \/ \E h \in Hashes : Unlink(h)
         \/ \E k \in Pubkeys : BlockPubkey(k) \/ AllowPubkey(k)
         \/ Expire
         \/ UNCHANGED vars
  PROVE  SlotInv' /\ UNCHANGED <<req, library>>
<1>1. SlotInv'
  BY IdleStepKept
<1>2. UNCHANGED <<req, library>>
  BY DEF Unlink, BlockPubkey, AllowPubkey, Expire, vars
<1>3. QED
  BY <1>1, <1>2

\* A node that serves one request at a time and is not killed never withholds a
\* blob that somebody owns, whatever fails: the finding is about overlap alone.
THEOREM SerialNeverWithholds ==
  ASSUME OneAtATime, ~Crashes
  PROVE  SafeSpec => []WithheldOnlyUnowned
<1>1. Init => SerialInv
  BY InitSlotInv DEF Init, Idle, SerialInv
<1>2. SerialInv /\ [Next]_vars => SerialInv'
  <2> SUFFICES ASSUME SerialInv, [Next]_vars PROVE SerialInv'
    OBVIOUS
  <2>1. ASSUME NEW p \in Procs, NEW op \in Ops \intersect OpNames,
               NEW h \in Hashes, NEW k \in Pubkeys \union {None},
               Begin(p, op, h, k)
        PROVE  SerialInv'
    <3>1. /\ SlotInv' /\ UNCHANGED <<owners, quarantine>>
          /\ req[p] = Idle
          /\ \A q \in Procs : q # p => req'[q] = req[q]
          /\ req'[p].pc \notin {"refs", "withhold"}
      BY <2>1, BeginFrame DEF SerialInv, library
    <3>2. \A g : Reviving(g) => Reviving(g)'
      BY <3>1 DEF Reviving, Doing, At, Idle
    <3>3. QED
      BY <3>1, <3>2 DEF SerialInv
  <2>2. ASSUME NEW p \in Procs, Step(p) PROVE SerialInv'
    BY <2>2, SerialStep
  <2>3. CASE \/ \E h \in Hashes : Unlink(h)
             \/ \E k \in Pubkeys : BlockPubkey(k) \/ AllowPubkey(k)
             \/ Expire
             \/ UNCHANGED vars
    <3>1. SlotInv' /\ UNCHANGED <<req, owners, quarantine>>
      BY <2>3, IdleFrame DEF SerialInv, library
    <3>2. QED
      BY <3>1 DEF SerialInv, Reviving, Doing, At
  <2>4. QED
    BY <2>1, <2>2, <2>3 DEF Next, Restart
<1>3. SerialInv => WithheldOnlyUnowned
  BY DEF SerialInv, Reviving, WithheldOnlyUnowned, Quiet, At
<1>4. QED
  BY <1>1, <1>2, <1>3, PTL DEF SafeSpec

\* A deletion of h is about to clear its owners.
Disowning(h) ==
  \E p \in Procs : /\ Doing(p, {"hardDelete", "dashDelete", "blacklistAdd"}, h)
                   /\ At(p, "disown")

\* "no phantom ownership" (claim.go:52) of a node at rest.
OwnersHaveBytes == Quiet => \A h \in Hashes : owners[h] # {} => h \in stored

StoredInv ==
  /\ SlotInv
  /\ \A h \in Hashes : owners[h] # {} => h \in stored \/ Disowning(h)
  /\ \A p \in Procs : req[p].pc = "own" => req[p].hash \in stored
  /\ orphans = {}

\* Only a restart leaves temporary files behind.
LEMMA StepOrphans ==
  ASSUME NEW p \in Procs, Step(p)
  PROVE  orphans' \subseteq orphans
BY DEF Step, CheckBlocked, CheckBlacklist, Acquire, Stream, Store, Stores, Own,
       Revive, Release, Has, Erase, Erases, Disown, Retract, CheckRefs, Withhold,
       Ban, Unban, GateBlacklist, GateQuarantine, Load, Lock, Scan, Fill,
       Invalidate, SaveEvent, Note, library

LEMMA StoredStep ==
  ASSUME StoredInv, OneAtATime, "unacked" \notin Failures,
         NEW p \in Procs, Step(p)
  PROVE  StoredInv'
<1>0. /\ SlotInv /\ SlotInv'
      /\ req[p].hash \in Hashes /\ req[p].op \in OpNames
      /\ req[p].pc \in DOMAIN Calls[req[p].op] /\ req[p].pc # "start"
      /\ owners \in [Hashes -> SUBSET Pubkeys]
      /\ \A q \in Procs : q = p
  BY StepKept, StepFrame DEF StoredInv, SlotInv, TypeOK, Requests, OneAtATime
<1>1. ASSUME NEW h \in Hashes, owners'[h] # {} PROVE h \in stored' \/ Disowning(h)'
  <2>1. CASE owners[h] = {}
    <3>1. PICK k \in owners'[h] : k \notin owners[h]
      BY <1>1, <2>1
    <3>2. req[p].pc = "own" /\ req[p].hash = h
      BY <1>0, <3>1, StepAdds
    <3>3. h \in stored
      BY <3>2 DEF StoredInv
    <3>4. h \in stored'
      BY <1>0, <3>2, <3>3, StepRemoves
    <3>5. QED
      BY <3>4
  <2>2. CASE Disowning(h)
    <3>1. req[p].pc = "disown" /\ req[p].hash = h
      BY <1>0, <2>2 DEF Disowning, Doing, At
    <3>2. Disown(p)
      BY <3>1 DEF Step, At, CheckBlocked, CheckBlacklist, Acquire, Stream, Store,
             Own, Revive, Release, Has, Erase, Retract, CheckRefs, Withhold, Ban,
             Unban, GateBlacklist, GateQuarantine, Load, Lock, Scan, Fill,
             Invalidate, SaveEvent, Note
    <3>3. owners'[h] = {}
      BY <1>0, <3>1, <3>2 DEF Disown
    <3>4. QED
      BY <1>1, <3>3
  <2>3. CASE h \in stored /\ h \notin stored'
    <3>1. req[p].pc = "erase" /\ req[p].hash = h
      BY <1>0, <2>3, StepRemoves
    <3>2. req[p].op \in {"hardDelete", "dashDelete", "blacklistAdd"}
      BY <1>0, <3>1, Callers
    <3>3. Erase(p)
      BY <3>1 DEF Step, At, CheckBlocked, CheckBlacklist, Acquire, Stream, Store,
             Own, Revive, Release, Has, Disown, Retract, CheckRefs, Withhold, Ban,
             Unban, GateBlacklist, GateQuarantine, Load, Lock, Scan, Fill,
             Invalidate, SaveEvent, Note
    <3>4. Proceed(p)
      BY <2>3, <3>3 DEF Erase
    <3>5. Calls[req[p].op]["erase"] = "disown"
      BY <3>2 DEF Calls, HardDeleteCalls, DashDeleteCalls, BlacklistAddCalls
    <3>6. /\ req'[p].pc = "disown" /\ req'[p].hash = h
          /\ req'[p].op = req[p].op
      BY <1>0, <3>1, <3>4, <3>5, ProceedOK DEF SlotInv, Idle
    <3>7. QED
      BY <3>2, <3>6 DEF Disowning, Doing, At
  <2>4. QED
    BY <2>1, <2>2, <2>3 DEF StoredInv
<1>2. ASSUME req'[p].pc = "own" PROVE req'[p].hash \in stored'
  <2>1. req[p].pc = "has" => ~Partial(req[p].hash)
    BY <1>0 DEF StoredInv, Partial, Writing, At
  <2>2. QED
    BY <1>0, <1>2, <2>1, IntoOwn
<1>3. orphans' = {}
  BY StepOrphans DEF StoredInv
<1>4. QED
  BY <1>0, <1>1, <1>2, <1>3 DEF StoredInv

\* Of such a node, and as long as no storage call takes effect and reports a
\* failure, every owner on record owns bytes that are there.
THEOREM SerialNeverPhantom ==
  ASSUME OneAtATime, ~Crashes, "unacked" \notin Failures
  PROVE  SafeSpec => []OwnersHaveBytes
<1>1. Init => StoredInv
  BY InitSlotInv DEF Init, Idle, StoredInv
<1>2. StoredInv /\ [Next]_vars => StoredInv'
  <2> SUFFICES ASSUME StoredInv, [Next]_vars PROVE StoredInv'
    OBVIOUS
  <2>1. ASSUME NEW p \in Procs, NEW op \in Ops \intersect OpNames,
               NEW h \in Hashes, NEW k \in Pubkeys \union {None},
               Begin(p, op, h, k)
        PROVE  StoredInv'
    <3>1. /\ SlotInv' /\ UNCHANGED <<owners, stored, orphans>>
          /\ req[p] = Idle
          /\ \A q \in Procs : q # p => req'[q] = req[q]
          /\ req'[p].pc # "own"
      BY <2>1, BeginFrame DEF StoredInv, library
    <3>2. \A g : Disowning(g) => Disowning(g)'
      BY <3>1 DEF Disowning, Doing, At, Idle
    <3>3. QED
      BY <3>1, <3>2 DEF StoredInv
  <2>2. ASSUME NEW p \in Procs, Step(p) PROVE StoredInv'
    BY <2>2, StoredStep
  <2>3. CASE \/ \E h \in Hashes : Unlink(h)
             \/ \E k \in Pubkeys : BlockPubkey(k) \/ AllowPubkey(k)
             \/ Expire
             \/ UNCHANGED vars
    <3>1. SlotInv' /\ UNCHANGED <<req, owners, stored, orphans>>
      BY <2>3, IdleFrame DEF StoredInv, library
    <3>2. QED
      BY <3>1 DEF StoredInv, Disowning, Doing, At
  <2>4. QED
    BY <2>1, <2>2, <2>3 DEF Next, Restart
<1>3. StoredInv => OwnersHaveBytes
  BY DEF StoredInv, Disowning, OwnersHaveBytes, Quiet, At
<1>4. QED
  BY <1>1, <1>2, <1>3, PTL DEF SafeSpec

-----------------------------------------------------------------------------
\* Why every request returns.  Fairness lets each request make its next call
\* when it can, so two safety facts are left: a handler runs out of calls, and
\* the mutex, the only thing a call waits for, is in the hands of a listing that
\* does not wait.
LockUsed ==
  cacheLock # Free => cacheLock \in Procs /\ req[cacheLock].pc \in {"scan", "fill"}

MutexInv == SlotInv /\ LockHeld /\ LockUsed

LEMMA StepMutex ==
  ASSUME MutexInv, NEW p \in Procs, Step(p)
  PROVE  MutexInv'
<1>0. /\ SlotInv /\ SlotInv' /\ Free \notin Procs
      /\ \A q \in Procs : q # p => req'[q] = req[q]
      /\ req[p].pc # "idle"
  BY StepKept, StepFrame, BlobAssumption DEF MutexInv
<1>1. CASE req'[p].pc \in {"scan", "fill"}
  <2>1. cacheLock' = p
    <3>1. CASE Lock(p) /\ cacheLock' = p
      BY <3>1
    <3>2. CASE Scan(p) /\ UNCHANGED cacheLock
      BY <3>2 DEF Scan, At, MutexInv, LockHeld
    <3>3. QED
      BY <1>0, <1>1, <3>1, <3>2, IntoListing
  <2>2. cacheLock \in {Free, p}
    <3>1. CASE Lock(p)
      BY <3>1 DEF Lock
    <3>2. CASE Scan(p)
      BY <3>2 DEF Scan, At, MutexInv, LockHeld
    <3>3. QED
      BY <1>0, <1>1, <3>1, <3>2, IntoListing
  <2>3. \A q \in Procs : q # p => req[q].pc \notin {"scan", "fill"}
    BY <1>0, <2>2 DEF MutexInv, LockHeld
  <2>4. QED
    BY <1>0, <1>1, <2>1, <2>3 DEF MutexInv, LockHeld, LockUsed
<1>2. CASE req'[p].pc \notin {"scan", "fill"}
  <2>1. CASE req[p].pc \in {"scan", "fill"}
    <3>1. cacheLock = p
      BY <2>1 DEF MutexInv, LockHeld
    <3>2. Scan(p) \/ Fill(p)
      BY <2>1 DEF Step, At, CheckBlocked, CheckBlacklist, Acquire, Stream, Store,
             Own, Revive, Release, Has, Erase, Disown, Retract, CheckRefs,
             Withhold, Ban, Unban, GateBlacklist, GateQuarantine, Load, Lock,
             Invalidate, SaveEvent, Note
    <3>3. cacheLock' = Free
      <4>1. req' # [req EXCEPT ![p].seen = stored, ![p].pc = "fill"]
        BY <1>0, <1>2, StepFrame DEF SlotInv, TypeOK, Requests
      <4>2. QED
        BY <3>2, <4>1 DEF Scan, Fill
    <3>4. \A q \in Procs : q # p => req[q].pc \notin {"scan", "fill"}
      BY <3>1 DEF MutexInv, LockHeld
    <3>5. QED
      BY <1>0, <1>2, <3>3, <3>4 DEF MutexInv, LockHeld, LockUsed
  <2>2. CASE req[p].pc \notin {"scan", "fill"}
    <3>1. UNCHANGED cacheLock
      <4>1. CASE Lock(p)
        <5>1. CASE cache # {}
          BY <4>1, <5>1 DEF Lock
        <5>2. CASE cache = {}
          <6>1. req[p].pc = "lock" /\ Proceed(p)
            BY <4>1, <5>2 DEF Lock, At
          <6>2. req[p].op = "list" /\ Calls["list"]["lock"] = "scan"
            BY <1>0, <6>1, StepFrame, Callers DEF Calls, ListCalls
          <6>3. req'[p].pc = "scan"
            BY <1>0, <6>1, <6>2, ProceedOK DEF SlotInv
          <6>4. QED
            BY <1>2, <6>3
        <5>3. QED
          BY <5>1, <5>2
      <4>2. CASE ~Lock(p)
        BY <2>2, <4>2
           DEF Step, At, CheckBlocked, CheckBlacklist, Acquire, Stream, Store,
               Own, Revive, Release, Has, Erase, Disown, Retract, CheckRefs,
               Withhold, Ban, Unban, GateBlacklist, GateQuarantine, Load, Scan,
               Fill, Invalidate, SaveEvent, Note, listing
      <4>3. QED
        BY <4>1, <4>2
    <3>2. cacheLock # p
      BY <1>0, <2>2 DEF MutexInv, LockUsed
    <3>3. QED
      BY <1>0, <1>2, <3>1, <3>2 DEF MutexInv, LockHeld, LockUsed
  <2>3. QED
    BY <2>1, <2>2
<1>3. QED
  BY <1>1, <1>2

\* The mutex of the listing is held exactly while a listing scans the store and
\* fills the cache: no early return, storage error or restart leaves it locked
\* (admin.go:64-83), so no delete waits for a listing that is gone.
THEOREM MutexNeverLeaks ==
  SafeSpec => [](/\ LockUsed
                 /\ \A p \in Procs : req[p].pc \in {"scan", "fill"} => cacheLock = p)
<1>1. Init => MutexInv
  BY InitSlotInv, BlobAssumption DEF Init, Idle, MutexInv, LockHeld, LockUsed
<1>2. MutexInv /\ [Next]_vars => MutexInv'
  <2> SUFFICES ASSUME MutexInv, [Next]_vars PROVE MutexInv'
    OBVIOUS
  <2>1. ASSUME NEW p \in Procs, NEW op \in Ops \intersect OpNames,
               NEW h \in Hashes, NEW k \in Pubkeys \union {None},
               Begin(p, op, h, k)
        PROVE  MutexInv'
    <3>1. /\ SlotInv' /\ UNCHANGED cacheLock
          /\ req[p].pc = "idle"
          /\ \A q \in Procs : q # p => req'[q] = req[q]
          /\ req'[p].pc \notin {"scan", "fill"}
      BY <2>1, BeginFrame DEF MutexInv, listing, Idle
    <3>2. QED
      BY <3>1 DEF MutexInv, LockHeld, LockUsed
  <2>2. ASSUME NEW p \in Procs, Step(p) PROVE MutexInv'
    BY <2>2, StepMutex
  <2>3. CASE Restart
    BY <2>3, RestartKept DEF MutexInv, Restart, Idle, LockHeld, LockUsed
  <2>4. CASE \/ \E h \in Hashes : Unlink(h)
             \/ \E k \in Pubkeys : BlockPubkey(k) \/ AllowPubkey(k)
             \/ Expire
             \/ UNCHANGED vars
    <3>1. SlotInv' /\ UNCHANGED <<req, cacheLock>>
      BY <2>4, IdleFrame
         DEF MutexInv, Unlink, BlockPubkey, AllowPubkey, Expire, vars, listing
    <3>2. QED
      BY <3>1 DEF MutexInv, LockHeld, LockUsed
  <2>5. QED
    BY <2>1, <2>2, <2>3, <2>4 DEF Next
<1>3. MutexInv => /\ LockUsed
                  /\ \A p \in Procs : req[p].pc \in {"scan", "fill"} => cacheLock = p
  BY DEF MutexInv, LockHeld
<1>4. QED
  BY <1>1, <1>2, <1>3, PTL DEF SafeSpec

\* How many calls a request may still make, one bound for all handlers: they
\* make the calls they share in the same order.
Remaining ==
  [blocked |-> 8, blacklist |-> 7, acquire |-> 6, stream |-> 5, store |-> 4,
   has |-> 4, ban |-> 5, erase |-> 4, disown |-> 3, own |-> 3, retract |-> 4,
   refs |-> 3, withhold |-> 2, revive |-> 2, invalidate |-> 1, release |-> 1,
   unban |-> 1, gateBlacklist |-> 3, gateQuarantine |-> 2, load |-> 1,
   lock |-> 3, scan |-> 2, fill |-> 1, save |-> 2, note |-> 1, idle |-> 0]

\* Along every chain the calls left become fewer.
LEMMA ChainFalls ==
  ASSUME NEW op \in OpNames, NEW c \in DOMAIN Calls[op], c # "start"
  PROVE  Remaining[Calls[op][c]] < Remaining[c]
<1>1. op \in {"upload", "claim", "hardDelete", "retract", "dashDelete",
              "blacklistAdd", "blacklistRemove", "quarantineRelease",
              "download", "list", "publish", "ingest"}
  BY DEF OpNames, Calls
<1>2. CASE op = "upload"
  BY <1>2 DEF Calls, UploadCalls, Remaining
<1>3. CASE op = "claim"
  BY <1>3 DEF Calls, ClaimCalls, Remaining
<1>4. CASE op \in {"hardDelete", "dashDelete"}
  BY <1>4 DEF Calls, HardDeleteCalls, DashDeleteCalls, Remaining
<1>5. CASE op = "retract"
  BY <1>5 DEF Calls, RetractCalls, Remaining
<1>6. CASE op \in {"blacklistAdd", "blacklistRemove", "quarantineRelease"}
  BY <1>6 DEF Calls, BlacklistAddCalls, BlacklistRemoveCalls, ReleaseCalls, Remaining
<1>7. CASE op \in {"download", "list", "publish", "ingest"}
  BY <1>7 DEF Calls, DownloadCalls, ListCalls, PublishCalls, IngestCalls, Remaining
<1>8. QED
  BY <1>1, <1>2, <1>3, <1>4, <1>5, <1>6, <1>7

LEMMA CallSpent ==
  ASSUME SlotInv, NEW p \in Procs, Step(p)
  PROVE  Remaining[req'[p].pc] < Remaining[req[p].pc]
<1>1. /\ req[p] \in Requests /\ req[p].op \in OpNames
      /\ req[p].pc \in DOMAIN Calls[req[p].op]
      /\ req[p].pc # "start" /\ req[p].pc # "idle"
      /\ req \in [Procs -> Requests \union {Idle}]
  BY StepFrame DEF SlotInv, TypeOK
<1>2. CASE Proceed(p)
  BY <1>1, <1>2, ProceedOK, ChainFalls DEF SlotInv
<1>3. CASE Quit(p) /\ ~Proceed(p)
  <2>1. req[p].pc \in {"blocked", "blacklist", "acquire", "stream", "store",
                       "has", "erase", "retract", "refs", "ban", "gateBlacklist",
                       "gateQuarantine", "lock", "scan"}
    BY <1>1, <1>3
       DEF Step, At, CheckBlocked, CheckBlacklist, Acquire, Stream, Store, Own,
           Revive, Release, Has, Erase, EraseFailed, Disown, Retract, CheckRefs,
           Withhold, Ban, Unban, GateBlacklist, GateQuarantine, Load, Lock, Scan,
           Fill, Invalidate, SaveEvent, Note, Requests
  <2>2. req'[p] = Idle \/ req'[p] = [req[p] EXCEPT !.pc = "release"]
    BY <1>1, <1>3, QuitStep
  <2>3. req'[p].pc \in {"idle", "release"}
    BY <1>1, <2>2 DEF Idle, Requests
  <2>4. QED
    BY <2>1, <2>3 DEF Remaining
<1>4. CASE ~Proceed(p) /\ ~Quit(p)
  <2>1. \/ /\ req[p].pc \in {"retract", "refs"}
           /\ req' = [req EXCEPT ![p].pc = "invalidate"]
        \/ /\ req[p].pc = "scan"
           /\ req' = [req EXCEPT ![p].seen = stored, ![p].pc = "fill"]
    BY <1>4
       DEF Step, At, CheckBlocked, CheckBlacklist, Acquire, Stream, Store, Own,
           Revive, Release, Has, Erase, EraseFailed, Disown, Retract, CheckRefs,
           Withhold, Ban, Unban, GateBlacklist, GateQuarantine, Load, Lock, Scan,
           Fill, Invalidate, SaveEvent, Note
  <2>2. \/ req[p].pc \in {"retract", "refs"} /\ req'[p].pc = "invalidate"
        \/ req[p].pc = "scan" /\ req'[p].pc = "fill"
    BY <1>1, <2>1 DEF Requests
  <2>3. QED
    BY <2>2 DEF Remaining
<1>5. QED
  BY <1>2, <1>3, <1>4

\* Every call a handler makes, on its path or returning early, leaves it fewer
\* calls to make and disturbs no other request: a request is over after at most
\* eight calls, so it can only fail to return by waiting for the mutex.
THEOREM HandlersRunOut ==
  SafeSpec => [][\A p \in Procs : Step(p) =>
                   /\ Remaining[req'[p].pc] < Remaining[req[p].pc]
                   /\ \A q \in Procs : q # p => req'[q] = req[q]]_vars
<1>1. SlotInv /\ [Next]_vars =>
        [\A p \in Procs : Step(p) =>
           /\ Remaining[req'[p].pc] < Remaining[req[p].pc]
           /\ \A q \in Procs : q # p => req'[q] = req[q]]_vars
  BY CallSpent, StepFrame
<1>2. QED
  BY <1>1, SlotsInductive, PTL DEF SafeSpec

=============================================================================
