------------------------------ MODULE PagedWalk ------------------------------
(***************************************************************************)
(* Walking a store of events backward in pages, newest first, because one   *)
(* query returns no more than Page of them.  Three loops do so:              *)
(*   "browse"   queryEventsPaged (events.go): the admin's search, which      *)
(*              stops at a limit of matches or a ceiling of events;          *)
(*   "rebuild"  backfillRefs (blob_refs.go): the reference index at startup; *)
(*   "backfill" backfillRelay (ingest.go): the history of another relay.     *)
(* The first two ask again for the oldest second they have seen, the third   *)
(* for what is older.  While a loop runs, events are stored and removed; a   *)
(* single query sees one state of the store.                                 *)
(***************************************************************************)
EXTENDS Naturals, FiniteSets

CONSTANTS Events,      \* what may be stored
          CreatedAt,   \* the second of each
          Page,        \* how many a query returns: the store's cap, the window
          Limit,       \* matches the admin asked for
          Ceiling,     \* events examined before "browse" gives up
          Walks,       \* a subset of {"browse", "rebuild", "backfill"}
          Searches,    \* sets of events that some search matches
          MaxChurn     \* bound: changes of the store during a walk

ASSUME PagedWalkAssumption ==
  /\ IsFiniteSet(Events)
  /\ CreatedAt \in [Events -> Nat \ {0}]
  /\ Page \in Nat \ {0}
  /\ Limit \in Nat \ {0}
  /\ Ceiling \in Nat \ {0}
  /\ Walks \subseteq {"browse", "rebuild", "backfill"}
  /\ Searches \subseteq SUBSET Events
  /\ MaxChurn \in Nat

VARIABLES
  walk,      \* which loop
  stored,    \* the events in the store
  matching,  \* the events that match the search
  until,     \* the cursor
  visited,   \* the events examined, indexed or offered to the policy
  outcome,   \* "running", "complete", "truncated" or "failed"
  churn,     \* bound: changes of the store so far
  steady,    \* history: what has been in the store since the walk began
  crowded,   \* history: did a query meet a second with Page events or more?
  cut        \* history: the seconds in which a page ended

vars == <<walk, stored, matching, until, visited, outcome, churn, steady, crowded, cut>>

Init ==
  /\ walk \in Walks
  /\ stored \in SUBSET Events
  /\ matching \in IF walk = "browse" THEN Searches ELSE {Events}
  /\ until \in {CreatedAt[e] : e \in Events}
  /\ visited = {} /\ outcome = "running" /\ churn = 0
  /\ steady = {e \in stored : CreatedAt[e] <= until}
  /\ crowded = FALSE /\ cut = {}
-----------------------------------------------------------------------------
Newer(e, f) == CreatedAt[e] >= CreatedAt[f]

\* until is inclusive.
InRange == {e \in stored : CreatedAt[e] <= until}

\* A query returns the newest events in its range, those of one second in any
\* order, and all of them unless there are more than a page.
IsPage(ps) ==
  /\ \A e \in ps, f \in InRange \ ps : Newer(e, f)
  /\ Cardinality(ps) <= Page
  /\ ps = InRange \/ Cardinality(ps) = Page

Full(ps) == Cardinality(ps) = Page

\* The second of the oldest event of es, or the cursor when there is none.
Oldest(es, s) ==
  /\ \A e \in es : s <= CreatedAt[e]
  /\ s <= until
  /\ s = until \/ \E e \in es : CreatedAt[e] = s

Crowd(s) == Cardinality({e \in stored : CreatedAt[e] = s}) >= Page

Remember ==
  /\ crowded' = (crowded \/ \E e \in stored : Crowd(CreatedAt[e]))
  /\ UNCHANGED <<walk, stored, matching, churn, steady>>

Hits(es) == Cardinality(es \intersect matching)

\* "browse" stops in the middle of a page, at the match that reaches the limit.
ReachLimit ==
  /\ walk = "browse" /\ outcome = "running"
  /\ \E ps \in SUBSET InRange :
       /\ IsPage(ps)
       /\ \E qs \in SUBSET ps :
            /\ \A e \in qs, f \in ps \ qs : Newer(e, f)
            /\ \E last \in (qs \ visited) \intersect matching :
                 \A e \in qs : Newer(e, last)
            /\ Hits(visited \union qs) = Limit
            /\ visited' = visited \union qs
  /\ outcome' = "truncated"
  /\ UNCHANGED <<until, cut>>
  /\ Remember

EndsWhenShort(ps, s) ==   \* mutant of Ends
  IF walk = "backfill" THEN ps = {} ELSE ~Full(ps)

\* Nothing older is left, or the cursor would not move.  backfillRelay has no
\* page size to compare with: a relay may return fewer than it was asked for.
Ends(ps, s) ==
  \/ walk \in {"browse", "rebuild"} /\ ~Full(ps)
  \/ walk = "backfill" /\ ps = {}
  \/ s >= until

ResumeBelow(s) == s - 1   \* mutant of Resume

\* Where the next page begins.
Resume(s) == IF walk = "backfill" THEN s - 1 ELSE s

\* The oldest second of a page is taken over all of it, or by backfillRefs over
\* what it had not seen yet.
Counted(ps) == IF walk = "rebuild" THEN ps \ visited ELSE ps

NextPage ==
  /\ outcome = "running"
  /\ \E ps \in SUBSET InRange, s \in 0..until :
       /\ IsPage(ps)
       /\ walk = "browse" => Hits(visited \union ps) < Limit
       /\ Oldest(Counted(ps), s)
       /\ visited' = visited \union ps
       /\ outcome' = CASE Ends(ps, s) -> "complete"
                       [] ~Ends(ps, s) /\ walk = "browse"
                            /\ Cardinality(visited') >= Ceiling -> "truncated"
                       [] OTHER -> "running"
       /\ until' = IF outcome' = "running" THEN Resume(s) ELSE until
       /\ cut' = cut \union (IF outcome' = "running" THEN {s} ELSE {})
  /\ Remember

\* QueryEvents returns an error: the admin gets what there is, the index stays
\* as it is.  A relay that cannot be reached returns an empty page.
QueryFails ==
  /\ outcome = "running" /\ walk # "backfill"
  /\ outcome' = "failed"
  /\ UNCHANGED <<until, visited, cut>>
  /\ Remember

\* Events are published, replaced and taken down meanwhile.
Change ==
  /\ outcome = "running" /\ churn < MaxChurn
  /\ \E e \in Events :
       \/ stored' = stored \union {e}
       \/ stored' = stored \ {e}
  /\ stored' # stored
  /\ steady' = steady \intersect stored'
  /\ churn' = churn + 1
  /\ UNCHANGED <<walk, matching, until, visited, outcome, crowded, cut>>

\* The loop has returned.
Done == outcome # "running" /\ UNCHANGED vars

Next == ReachLimit \/ NextPage \/ QueryFails \/ Change \/ Done

\* The loop runs on: each query answers.
Spec == Init /\ [][Next]_vars /\ WF_vars(ReachLimit \/ NextPage)
-----------------------------------------------------------------------------
TypeOK ==
  /\ walk \in Walks
  /\ stored \subseteq Events
  /\ matching \subseteq Events
  /\ until \in Nat
  /\ visited \subseteq Events
  /\ outcome \in {"running", "complete", "truncated", "failed"}
  /\ churn \in 0..MaxChurn
  /\ steady \subseteq stored
  /\ crowded \in BOOLEAN
  /\ cut \subseteq Nat

\* An event may be skipped when a second holds as many events as a page, or,
\* by backfillRelay, when a page ended within its second.
Excused(e) == crowded \/ (walk = "backfill" /\ CreatedAt[e] \in cut)

\* However the store changes under the walk: what was in it all the time has
\* been visited once the cursor has passed it, and all of it when the loop says
\* that it reached the end (truncated = false, events.go:125; "reached the end",
\* blob_refs.go:189; "until exhausted", ingest.go:69).  It says so too after a
\* query that fails (events.go:104), which ends the walk where it is: of that
\* the property speaks only up to the cursor.
NothingSkipped ==
  \A e \in steady :
    outcome = "complete" \/ CreatedAt[e] > until => e \in visited \/ Excused(e)

\* Every walk ends ("stop rather than loop forever", blob_refs.go:190).
WalkEnds == <>(outcome # "running")
=============================================================================
