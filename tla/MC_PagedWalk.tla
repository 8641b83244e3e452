----------------------------- MODULE MC_PagedWalk -----------------------------
(* Pages of three events: one second may fill a page, two events of a second  *)
(* may be divided between two pages.                                          *)
EXTENDS PagedWalk
Slots == ({"a", "b"} \X (1..3)) \union {<<"c", 2>>}
Matches == {Slots, {e \in Slots : e[1] = "a"}, {}}
SecondOf == [e \in Slots |-> e[2]]
=============================================================================
