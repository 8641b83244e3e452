------------------------------ MODULE Takedown ------------------------------
(***************************************************************************)
(* What the relay promises of the versions of addressable events that it   *)
(* holds, with no requests, no registries and no files: an address is a    *)
(* register that holds one version and moves to newer ones, a version that *)
(* its author deleted never comes back, and an address that a moderator    *)
(* took down stays empty until the ban is lifted.  Only a crash may forget  *)
(* deletions or bans, and then only of a kind that is in doubt.             *)
(* RelayEvents implements it: there a deletion or a ban counts once it is   *)
(* recorded and carried out and nothing that was let in before it is still  *)
(* on its way, and its kind is in doubt while the file is written or after  *)
(* a write that went wrong.                                                 *)
(***************************************************************************)
EXTENDS Naturals

CONSTANTS Coordinates,  \* addresses
          Times         \* created_at of a version

VARIABLES held,   \* the versions in the event store
          gone,   \* versions deleted for good
          down,   \* addresses taken down
          doubt   \* of "bans" and "deletions", what a crash may forget

vars == <<held, gone, down, doubt>>

Versions == [coord : Coordinates, at : Times]

Barred(e) == e \in gone \/ e.coord \in down

\* Nothing the node holds is barred.
Clean == \A e \in held : ~Barred(e)

Init == held = {} /\ gone = {} /\ down = {} /\ doubt = {}

\* What is deleted is deleted for good.
Final == gone \subseteq gone'

Others(c) == {old \in held : old.coord # c}

\* The address moves to a newer version; the one it had may be gone for good
\* with that.
Put(e) ==
  /\ \A old \in held : old.coord = e.coord => old.at < e.at
  /\ held' = Others(e.coord) \union {e}
  /\ ~Barred(e)
  /\ down' = down
  /\ Final /\ Clean'

\* The address is emptied, by its author's deletion or a moderator's ban.
Withdraw(c) ==
  /\ held' = Others(c)
  /\ down \subseteq down'
  /\ Final /\ Clean'

\* Deletions and takedowns come into force where nothing is held.
Settle ==
  /\ held' = held
  /\ down \subseteq down'
  /\ Final /\ Clean'

\* The moderator lifts a ban.
Lift(c) ==
  /\ held' = held
  /\ c \notin down'
  /\ down \ {c} \subseteq down'
  /\ Final /\ Clean'

\* A crash; what is forgotten may come back afterwards.
Crash ==
  /\ held' = held
  /\ "bans" \in doubt \/ down \subseteq down'
  /\ "deletions" \in doubt \/ gone \subseteq gone'
  /\ doubt' = {}
  /\ Clean'

Next == \/ Settle \/ Crash
        \/ \E e \in Versions : Put(e)
        \/ \E c \in Coordinates : Withdraw(c) \/ Lift(c)

Spec == Init /\ [][Next]_vars
=============================================================================
