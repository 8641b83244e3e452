---------------------------- MODULE UploadSlots ----------------------------
(***************************************************************************)
(* What the upload limiter promises its callers, with no tokens, no lock   *)
(* and no check-then-act: at any moment at most capacity uploads run, and   *)
(* no two of them belong to the same pubkey.  The capacity is one at least  *)
(* and only a restart changes it.  The limiter of                          *)
(* internal/server/limits.go is shown to implement this specification in   *)
(* UploadLimiter, and the blob handlers of BlobLifecycle use it as their   *)
(* admission step.                                                         *)
(***************************************************************************)
EXTENDS Naturals, FiniteSets

CONSTANTS Requests,   \* concurrent PUT /upload requests
          Pubkeys,    \* authenticated uploaders
          NoPubkey    \* "this request runs no upload"

VARIABLES uploading,  \* the pubkey each request uploads for, or NoPubkey
          capacity    \* how many uploads may run at once

vars == <<uploading, capacity>>

Running == {u \in Requests : uploading[u] # NoPubkey}

Init == /\ uploading = [u \in Requests |-> NoPubkey]
        /\ capacity \in Nat \ {0}

Admissible(u, k) ==
  /\ uploading[u] = NoPubkey
  /\ \A v \in Requests : uploading[v] # k
  /\ Cardinality(Running) < capacity

Admit(u, k) ==
  /\ Admissible(u, k)
  /\ uploading' = [uploading EXCEPT ![u] = k]
  /\ capacity' = capacity

Finish(u) ==
  /\ uploading[u] # NoPubkey
  /\ uploading' = [uploading EXCEPT ![u] = NoPubkey]
  /\ capacity' = capacity

\* The process stops and comes back with no upload running.
Restart == /\ uploading' = [u \in Requests |-> NoPubkey]
           /\ capacity' \in Nat \ {0}

Next == \/ \E u \in Requests, k \in Pubkeys : Admit(u, k)
        \/ \E u \in Requests : Finish(u)
        \/ Restart

SafeSpec == Init /\ [][Next]_vars

\* Every admitted upload ends: streaming a body has an idle limit and a
\* deadline, and the release function is deferred.
Spec == SafeSpec /\ \A u \in Requests : WF_vars(Finish(u))
=============================================================================
