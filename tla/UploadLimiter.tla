--------------------------- MODULE UploadLimiter ---------------------------
(***************************************************************************)
(* uploadLimiter (internal/server/limits.go): a buffered channel whose     *)
(* entries are the global slots, and a mutex-guarded map of the pubkeys    *)
(* with an upload in flight.  acquire looks at the map, drops the lock,    *)
(* takes a global slot, and looks at the map again before it commits; the  *)
(* release function frees the pubkey first and the slot second.  Every     *)
(* critical section and every channel operation is one atomic step.        *)
(***************************************************************************)
EXTENDS Integers, FiniteSets

CONSTANTS Requests,       \* concurrent PUT /upload requests
          Pubkeys,        \* authenticated uploaders
          NoPubkey,       \* a request that runs no upload
          Configs         \* what max_concurrent_uploads may be set to: integers

ASSUME RequestsAssumption == IsFiniteSet(Requests)
ASSUME PubkeysAssumption == NoPubkey \notin Pubkeys
ASSUME ConfigsAssumption == Configs \subseteq Int

VARIABLES pc,        \* where each request is inside acquire / release
          pubkey,    \* the pubkey acquire was called with
          global,    \* len(l.global): slots taken
          inflight,  \* the keys of l.inflight
          maxConcurrent  \* max_concurrent_uploads as this process read it

limiter == <<global, inflight, maxConcurrent>>
vars == <<pc, pubkey, limiter>>

CapacityAsConfigured == maxConcurrent   \* mutant of Capacity

\* newUploadLimiter refuses to build a limiter nobody can pass.
Capacity == IF maxConcurrent < 1 THEN 1 ELSE maxConcurrent

Labels == {"idle", "check", "token", "recheck", "giveBack", "holding", "drain"}

\* The requests that own one entry of the channel.
TokenHolders ==
  {u \in Requests : pc[u] \in {"recheck", "giveBack", "holding", "drain"}}

\* The requests whose acquire succeeded and whose release has not begun.
Admitted == {u \in Requests : pc[u] = "holding"}

Init == /\ pc = [u \in Requests |-> "idle"]
        /\ pubkey = [u \in Requests |-> NoPubkey]
        /\ global = 0
        /\ inflight = {}
        /\ maxConcurrent \in Configs

GoTo(u, label) == pc' = [pc EXCEPT ![u] = label]

\* A request leaves acquire or release; its arguments go with it.
Return(u) == /\ GoTo(u, "idle")
             /\ pubkey' = [pubkey EXCEPT ![u] = NoPubkey]

CallAnonymous(u, k) ==   \* mutant of Call
  /\ pc[u] = "idle"
  /\ GoTo(u, "check")
  /\ UNCHANGED <<pubkey, limiter>>

\* acquire(k) is called for an authenticated upload.
Call(u, k) ==
  /\ pc[u] = "idle"
  /\ GoTo(u, "check")
  /\ pubkey' = [pubkey EXCEPT ![u] = k]
  /\ UNCHANGED limiter

\* The first look at the map: a busy pubkey is refused without taking a slot.
Check(u) ==
  /\ pc[u] = "check"
  /\ IF pubkey[u] \in inflight
     THEN Return(u)
     ELSE GoTo(u, "token") /\ UNCHANGED pubkey
  /\ UNCHANGED limiter

SlotFree == global < Capacity

\* select { case l.global <- struct{}{}: default: return errBusy }
TakeToken(u) ==
  /\ pc[u] = "token"
  /\ IF SlotFree
     THEN GoTo(u, "recheck") /\ global' = global + 1 /\ UNCHANGED pubkey
     ELSE Return(u) /\ UNCHANGED global
  /\ UNCHANGED <<inflight, maxConcurrent>>

NoRecheck(u) == TRUE   \* mutant of PubkeyFree

PubkeyFree(u) == pubkey[u] \notin inflight

\* The second look, and the commit under the same lock.
Recheck(u) ==
  /\ pc[u] = "recheck"
  /\ IF PubkeyFree(u)
     THEN GoTo(u, "holding") /\ inflight' = inflight \union {pubkey[u]}
     ELSE GoTo(u, "giveBack") /\ UNCHANGED inflight
  /\ UNCHANGED <<pubkey, global, maxConcurrent>>

DrainNothing == global > 0 /\ UNCHANGED global   \* mutant of Drain

\* <-l.global: a receive, so it needs an entry.
Drain == global > 0 /\ global' = global - 1

KeepToken(u) ==   \* mutant of GiveBack
  pc[u] = "giveBack" /\ Return(u) /\ UNCHANGED limiter

\* The loser of the race puts its slot back.
GiveBack(u) ==
  /\ pc[u] = "giveBack"
  /\ Drain
  /\ Return(u)
  /\ UNCHANGED <<inflight, maxConcurrent>>

\* delete(l.inflight, pubkey)
FreeKey(u) == inflight' = inflight \ {pubkey[u]}

\* The release function, first half.
ReleaseKey(u) ==
  /\ pc[u] = "holding"
  /\ GoTo(u, "drain")
  /\ FreeKey(u)
  /\ UNCHANGED <<pubkey, global, maxConcurrent>>

ReleaseTokenAndKey(u) ==   \* mutant of ReleaseToken
  /\ pc[u] = "drain"
  /\ Drain
  /\ Return(u)
  /\ FreeKey(u)
  /\ UNCHANGED maxConcurrent

\* The release function, second half.
ReleaseToken(u) ==
  /\ pc[u] = "drain"
  /\ Drain
  /\ Return(u)
  /\ UNCHANGED <<inflight, maxConcurrent>>

\* The limiter lives in memory: a restart forgets it with its requests, and
\* reads the configuration, which may have been edited.
Restart == /\ pc' = [u \in Requests |-> "idle"]
           /\ pubkey' = [u \in Requests |-> NoPubkey]
           /\ global' = 0
           /\ inflight' = {}
           /\ maxConcurrent' \in Configs

Step(u) == \/ Check(u) \/ TakeToken(u) \/ Recheck(u)
           \/ GiveBack(u) \/ ReleaseKey(u) \/ ReleaseToken(u)

Next == \/ \E u \in Requests, k \in Pubkeys : Call(u, k)
        \/ \E u \in Requests : Step(u)
        \/ Restart

SafeSpec == Init /\ [][Next]_vars

\* A goroutine inside acquire or release is always scheduled again, and the
\* upload between them is bounded by the idle and total limits of streamBody.
Spec == SafeSpec /\ \A u \in Requests : WF_vars(Step(u))
-----------------------------------------------------------------------------
TypeOK ==
  /\ pc \in [Requests -> Labels]
  /\ pubkey \in [Requests -> Pubkeys \union {NoPubkey}]
  /\ \A u \in Requests : pc[u] # "idle" => pubkey[u] \in Pubkeys
  /\ global \in Nat
  /\ inflight \subseteq Pubkeys
  /\ maxConcurrent \in Configs

\* "one in-flight upload per npub" (limits.go:13): however two acquire calls
\* for one pubkey interleave around the unlocked gap, one of them is refused.
OneUploadPerPubkey ==
  \A u, v \in Admitted : pubkey[u] = pubkey[v] => u = v

\* "a global concurrency cap" (limits.go:13): never more admitted uploads than
\* the configured cap, and one when the configuration asks for none.
CapacityRespected == Cardinality(Admitted) <= Capacity

\* No slot is leaked or freed twice on any path, the loser's included: the
\* channel holds exactly one entry per request that took one and has not put
\* it back.  The receives in GiveBack and ReleaseToken thus never block.
TokensAccounted == /\ global = Cardinality(TokenHolders)
                   /\ global <= Capacity

\* The map holds exactly the pubkeys of admitted uploads: a release, which frees
\* the pubkey before the slot (limits.go:59), never frees the key of an upload of
\* the same pubkey that came in between, and never leaves one locked out.
KeysAccounted == inflight = {pubkey[u] : u \in Admitted}

\* Slots come back: the server is never full for good, whatever callers do.
CapacityComesBack == []<>(global < Capacity)

\* A limiter with no slot taken never answers "too busy", whatever cap was
\* configured, none or less than none included (the clamp of limits.go:22), and
\* whatever races went before.
EmptyLimiterAdmits ==
  [][\A u \in Requests :
       TakeToken(u) /\ TokenHolders = {} => u \in TokenHolders']_vars

\* The two halves of acquire together are an atomic admission.
Uploading == [u \in Requests |-> IF pc[u] = "holding" THEN pubkey[u]
                                                     ELSE NoPubkey]

Slots == INSTANCE UploadSlots WITH uploading <- Uploading, capacity <- Capacity

ImplementsSlots == Slots!Spec
=============================================================================
