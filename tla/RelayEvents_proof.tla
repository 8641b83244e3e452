------------------------- MODULE RelayEvents_proof -------------------------
(***************************************************************************)
(* Proofs about publication, deletion and bans, for any number of           *)
(* processes, authors, coordinates and points in time, either kind policy,  *)
(* with or without crashes and failing saves.                               *)
(***************************************************************************)
EXTENDS RelayEvents, TLAPS

Requests == Publishing \union Deleting \union Offering \union Moderating \union {Idle}

Registries == {"bans", "deletions"}

\* What a process is in the middle of, by the call it makes next.
LEMMA AtCall ==
  ASSUME NEW r \in Requests
  PROVE  /\ r.pc = "save" => r \in Publishing
         /\ r.pc = "outcome" => r \in Deleting
         /\ r.pc = "query" => r \in Moderating
         /\ r.pc \in {"open", "write", "erase"} => r \in Deleting \union Moderating
         /\ r.pc \in {"admit", "retain"} => r \in Offering
         /\ r \in Deleting <=> r.op = "delete"
         /\ r \in Moderating <=> r.op \in {"ban", "unban"}
BY DEF Requests, Publishing, Deleting, Offering, Moderating, Idle

LEMMA EmptyType ==
  /\ Empty.bans = {} /\ Empty.deletions \in Marks
  /\ Empty \in [bans : SUBSET Coordinates, deletions : Marks]
BY RelayAssumption DEF Empty, Marks

\* Setting one of the two registries leaves the other.
LEMMA SetOne ==
  ASSUME NEW m \in [bans : SUBSET Coordinates, deletions : Marks],
         NEW g \in Registries, NEW set,
         set \in IF g = "bans" THEN SUBSET Coordinates ELSE Marks
  PROVE  /\ [m EXCEPT ![g] = set] \in [bans : SUBSET Coordinates, deletions : Marks]
         /\ [m EXCEPT ![g] = set][g] = set
         /\ \A h \in Registries \ {g} : [m EXCEPT ![g] = set][h] = m[h]
BY DEF Registries

\* Where p's request is when its save has ended.
Ended(p) ==
  \/ req'[p] = Idle
  \/ /\ req[p] \in Deleting /\ req'[p] \in Deleting
     /\ req'[p] = [req[p] EXCEPT !.pc = "erase", !.snap = Empty.deletions]
     /\ req'[p].pc = "erase"
  \/ /\ req[p] \in Moderating /\ req'[p] \in Moderating
     /\ req[p].op = "ban"
     /\ req'[p] = [req[p] EXCEPT !.pc = "query", !.snap = Empty.bans]
     /\ req'[p].pc = "query"

LEMMA SaveEndsAt ==
  ASSUME req \in [Procs -> Requests], NEW p \in Procs, NEW saved \in BOOLEAN,
         At(p, "open") \/ At(p, "write"), SaveEnds(p, saved)
  PROVE  req' = [req EXCEPT ![p] = req'[p]] /\ Ended(p)
<1>1. req[p] \in Deleting \union Moderating
  BY AtCall DEF At
<1>2. CASE req[p] \in Deleting
  <2>1. /\ [req[p] EXCEPT !.pc = "erase", !.snap = Empty.deletions] \in Deleting
        /\ [req[p] EXCEPT !.pc = "erase", !.snap = Empty.deletions].pc = "erase"
    BY <1>2, EmptyType DEF Deleting
  <2>2. req[p].op = "delete"
    BY <1>2 DEF Deleting
  <2>3. QED
    BY <1>2, <2>1, <2>2 DEF SaveEnds, Ended
<1>3. CASE req[p] \in Moderating
  <2>1. /\ [req[p] EXCEPT !.pc = "query", !.snap = Empty.bans] \in Moderating
        /\ [req[p] EXCEPT !.pc = "query", !.snap = Empty.bans].pc = "query"
    BY <1>3, EmptyType DEF Moderating
  <2>2. req[p].op # "delete"
    BY <1>3 DEF Moderating
  <2>3. QED
    BY <1>3, <2>1, <2>2 DEF SaveEnds, Ended
<1>4. QED
  BY <1>1, <1>2, <1>3
-----------------------------------------------------------------------------
\* p opens the file of g, or its save ends, well or not.
Saves(p, g) ==
  \/ /\ Open(p) /\ file'[g] = Empty[g]
     /\ req'[p] = [req[p] EXCEPT !.snap = memory[g], !.pc = "write"]
     /\ req'[p].snap = memory[g] /\ req'[p].pc = "write"
     /\ RegistryOf(req'[p]) = g /\ UNCHANGED spoilt
  \/ /\ \/ g \in spoilt'
        \/ Write(p) /\ file'[g] = req[p].snap
        \/ Write(p) /\ file[g] # Empty[g]
     /\ Ended(p)

\* What a step of the save of a registry does to its file and to the request.
LEMMA SaveStep ==
  ASSUME TypeOK, NEW p \in Procs, Open(p) \/ Write(p)
  PROVE  LET g == RegistryOf(req[p])
         IN  /\ g \in Registries /\ Saving(p, g)
             /\ UNCHANGED <<store, retained, memory, blocked>>
             /\ file' \in [bans : SUBSET Coordinates, deletions : Marks]
             /\ \A h \in Registries \ {g} : file'[h] = file[h]
             /\ spoilt' \in {spoilt, spoilt \union {g}}
             /\ req' = [req EXCEPT ![p] = req'[p]] /\ req'[p] \in Requests
             /\ Saves(p, g)
<1> DEFINE g == RegistryOf(req[p])
<1>1. req \in [Procs -> Requests]
  BY DEF TypeOK, Requests
<1>2. req[p] \in Deleting \union Moderating
  BY <1>1, AtCall DEF Open, Write, At
<1>3. /\ g \in Registries /\ Saving(p, g)
      /\ (g = "deletions" <=> req[p] \in Deleting) /\ (g = "bans" <=> req[p] \in Moderating)
  BY <1>2 DEF RegistryOf, Saving, Open, Write, At, Registries, Deleting, Moderating
<1>4. UNCHANGED <<store, retained, memory, blocked>>
  BY DEF Open, Write
<1>5. /\ Empty[g] \in IF g = "bans" THEN SUBSET Coordinates ELSE Marks
      /\ memory[g] \in IF g = "bans" THEN SUBSET Coordinates ELSE Marks
      /\ req[p].snap \in IF g = "bans" THEN SUBSET Coordinates ELSE Marks
  BY <1>2, <1>3, EmptyType DEF Registries, Deleting, Moderating, TypeOK
<1>6. /\ file' \in {file, [file EXCEPT ![g] = Empty[g]], [file EXCEPT ![g] = req[p].snap]}
      /\ spoilt' \in {spoilt, spoilt \union {g}}
  BY DEF Open, Write, SaveBreaks
<1> HIDE DEF g
<1>7. /\ file' \in [bans : SUBSET Coordinates, deletions : Marks]
      /\ \A h \in Registries \ {g} : file'[h] = file[h]
  BY <1>3, <1>5, <1>6, SetOne DEF TypeOK
<1>8. CASE /\ Open(p) /\ file' = [file EXCEPT ![g] = Empty[g]]
           /\ req' = [req EXCEPT ![p].snap = memory[g], ![p].pc = "write"]
           /\ UNCHANGED spoilt
  <2>1. file'[g] = Empty[g]
    BY <1>3, <1>5, <1>8, SetOne DEF TypeOK
  <2>2. /\ req'[p] = [req[p] EXCEPT !.snap = memory[g], !.pc = "write"]
        /\ req' = [req EXCEPT ![p] = req'[p]]
    BY <1>1, <1>8
  <2>3. /\ req'[p] \in Requests /\ req'[p].snap = memory[g] /\ req'[p].pc = "write"
        /\ RegistryOf(req'[p]) = g
    <3>1. CASE req[p] \in Deleting
      BY <1>3, <1>5, <2>2, <3>1 DEF Requests, Deleting, RegistryOf
    <3>2. CASE req[p] \in Moderating
      BY <1>3, <1>5, <2>2, <3>2 DEF Requests, Moderating, RegistryOf
    <3>3. QED
      BY <1>2, <3>1, <3>2
  <2>4. QED
    BY <1>3, <1>4, <1>7, <1>8, <2>1, <2>2, <2>3 DEF g, Saves
<1>9. CASE SaveBreaks(p, g)
  <2>1. SaveEnds(p, FALSE) /\ g \in spoilt'
    BY <1>9 DEF SaveBreaks
  <2>2. At(p, "open") \/ At(p, "write")
    BY DEF Open, Write
  <2>3. req' = [req EXCEPT ![p] = req'[p]] /\ Ended(p)
    BY <1>1, <2>1, <2>2, SaveEndsAt
  <2>4. req'[p] \in Requests
    BY <2>3 DEF Ended, Requests
  <2>5. QED
    BY <1>3, <1>4, <1>6, <1>7, <2>1, <2>3, <2>4 DEF g, Saves
<1>10. CASE /\ Write(p) /\ SaveEnds(p, TRUE)
            /\ \/ file' = [file EXCEPT ![g] = req[p].snap]
               \/ file[g] # Empty[g]
  <2>1. At(p, "open") \/ At(p, "write")
    BY DEF Open, Write
  <2>2. file'[g] = req[p].snap \/ file[g] # Empty[g]
    BY <1>3, <1>5, <1>10, SetOne DEF TypeOK
  <2>3. req' = [req EXCEPT ![p] = req'[p]] /\ Ended(p)
    BY <1>1, <1>10, <2>1, SaveEndsAt
  <2>4. req'[p] \in Requests
    BY <2>3 DEF Ended, Requests
  <2>5. QED
    BY <1>3, <1>4, <1>6, <1>7, <1>10, <2>2, <2>3, <2>4 DEF g, Saves
<1>11. QED
  BY <1>8, <1>9, <1>10 DEF Open, Write, g
-----------------------------------------------------------------------------
\* An edit sets the one registry, and leaves it in doubt if another save of it is
\* under way.
LEMMA EditSets ==
  ASSUME TypeOK, NEW p \in Procs, NEW g \in Registries, NEW set,
         set \in IF g = "bans" THEN SUBSET Coordinates ELSE Marks,
         Edit(p, g, set)
  PROVE  /\ memory' \in [bans : SUBSET Coordinates, deletions : Marks]
         /\ memory'[g] = set
         /\ \A h \in Registries \ {g} : memory'[h] = memory[h] /\ (h \in spoilt' <=> h \in spoilt)
         /\ spoilt' \subseteq Registries
         /\ g \notin spoilt' => \A q \in Procs \ {p} : ~Saving(q, g)
BY SetOne DEF TypeOK, Edit, Registries

\* An arrival changes the process's own request, and the bans when it is the
\* moderator's.
LEMMA Arrival ==
  ASSUME TypeOK, NEW p \in Procs, Arrive(p)
  PROVE  /\ UNCHANGED <<store, retained, file, blocked>>
         /\ At(p, "idle")
         /\ \E r \in Requests :
              /\ req' = [req EXCEPT ![p] = r]
              /\ \/ /\ \/ r \in Publishing /\ ~Rejected(r.event)
                       \/ r \in Offering /\ r.pc = "admit"
                       \/ /\ r \in Deleting /\ r.pc = "outcome"
                          /\ \A e \in r.target : Names(r, e)
                    /\ UNCHANGED <<memory, spoilt>>
                 \/ /\ r \in Moderating /\ r.pc = "open" /\ r.target = {}
                    /\ \E set \in SUBSET Coordinates : Edit(p, "bans", set)
<1> DEFINE Shape(r) ==
             /\ req' = [req EXCEPT ![p] = r]
             /\ \/ /\ \/ r \in Publishing /\ ~Rejected(r.event)
                      \/ r \in Offering /\ r.pc = "admit"
                      \/ /\ r \in Deleting /\ r.pc = "outcome"
                         /\ \A e \in r.target : Names(r, e)
                   /\ UNCHANGED <<memory, spoilt>>
                \/ /\ r \in Moderating /\ r.pc = "open" /\ r.target = {}
                   /\ \E set \in SUBSET Coordinates : Edit(p, "bans", set)
<1>1. ASSUME NEW e \in Events, Publish(p, e)
      PROVE  /\ UNCHANGED <<store, retained, file, blocked>> /\ At(p, "idle")
             /\ \E r \in Requests : Shape(r)
  <2> DEFINE r == [op |-> "publish", pc |-> "save", event |-> e]
  <2>1. r \in Publishing /\ r.event = e
    BY DEF Publishing
  <2>2. Shape(r)
    BY <1>1, <2>1 DEF Publish, Start, registries
  <2>3. QED
    BY <1>1, <2>1, <2>2 DEF Publish, Start, registries, Requests
<1>2. ASSUME NEW c \in Coordinates, NEW named \in Times \union {NoName},
             NEW k \in Authors, NEW t \in Times, Delete(p, c, named, k, t)
      PROVE  /\ UNCHANGED <<store, retained, file, blocked>> /\ At(p, "idle")
             /\ \E r \in Requests : Shape(r)
  <2> DEFINE ask == [op |-> "delete", pc |-> "outcome", coord |-> c, named |-> named,
                     by |-> k, at |-> t, target |-> {}, snap |-> Empty.deletions]
             found == {e \in store : Names(ask, e)}
             r == [op |-> "delete", pc |-> "outcome", coord |-> c, named |-> named,
                   by |-> k, at |-> t, target |-> found, snap |-> Empty.deletions]
  <2>1. /\ At(p, "idle") /\ UNCHANGED <<store, retained, memory, file, blocked, spoilt>>
        /\ req' = [req EXCEPT ![p] = IF found = {} THEN Offered(k)
                                     ELSE [ask EXCEPT !.target = found]]
    BY <1>2 DEF Delete, Start, registries
  <2>2. found \in SUBSET Events /\ \A e \in found : Names(ask, e)
    BY DEF TypeOK
  <2>3. r \in Deleting
    BY <2>2, EmptyType DEF Deleting
  <2>4. \A e \in found : Names(r, e)
    BY <2>2 DEF Names
  <2> HIDE DEF found
  <2>5. [ask EXCEPT !.target = found] = r
    OBVIOUS
  <2>6. CASE found = {}
    <3>1. Offered(k) \in Offering /\ Offered(k).pc = "admit"
      BY DEF Offered, Offering
    <3>2. Shape(Offered(k))
      BY <2>1, <2>6, <3>1
    <3>3. QED
      BY <2>1, <3>1, <3>2 DEF Requests
  <2>7. CASE found # {}
    <3>1. req' = [req EXCEPT ![p] = r]
      BY <2>1, <2>5, <2>7
    <3>2. r.target = found /\ r.pc = "outcome"
      OBVIOUS
    <3> HIDE DEF r, ask
    <3>3. Shape(r)
      BY <2>1, <2>3, <2>4, <3>1, <3>2
    <3>4. QED
      BY <2>1, <2>3, <3>3 DEF Requests
  <2>8. QED
    BY <2>6, <2>7
<1>3. ASSUME NEW c \in Coordinates, Ban(p, c) \/ Unban(p, c)
      PROVE  /\ UNCHANGED <<store, retained, file, blocked>> /\ At(p, "idle")
             /\ \E r \in Requests : Shape(r)
  <2>1. PICK op \in {"ban", "unban"}, set \in {banned \union {c}, banned \ {c}} :
          Start(p, Moderation(op, c)) /\ Edit(p, "bans", set)
    BY <1>3 DEF Ban, Unban
  <2> DEFINE r == Moderation(op, c)
  <2>2. r \in Moderating /\ r.pc = "open" /\ r.target = {}
    BY EmptyType DEF Moderation, Moderating
  <2>3. set \in SUBSET Coordinates
    BY DEF banned, TypeOK
  <2>4. Shape(r)
    BY <2>1, <2>2, <2>3 DEF Start
  <2>5. At(p, "idle") /\ UNCHANGED <<store, retained, file, blocked>>
    BY <1>3, <2>1 DEF Ban, Unban, Start
  <2>6. QED
    BY <2>2, <2>4, <2>5 DEF Requests
<1>4. QED
  BY <1>1, <1>2, <1>3 DEF Arrive
-----------------------------------------------------------------------------
\* How a registry in memory is edited, beside the bans of a moderator: by an
\* author's deletion.
LEMMA OutcomeMoves ==
  ASSUME TypeOK, NEW p \in Procs, Outcome(p)
  PROVE  /\ UNCHANGED <<store, retained, file, blocked>>
         /\ req[p] \in Deleting
         /\ req' = [req EXCEPT ![p] = req'[p]]
         /\ \/ /\ req'[p] = [req[p] EXCEPT !.pc = "open"] /\ req'[p] \in Deleting
               /\ MayDelete(req[p])
               /\ Edit(p, "deletions", Recorded(req[p].coord, req[p].at))
               /\ Recorded(req[p].coord, req[p].at) \in Marks
            \/ /\ req'[p] = [req[p] EXCEPT !.pc = "erase"] /\ req'[p] \in Deleting
               /\ MayDelete(req[p]) /\ ~AcceptedKind(req[p].coord.kind)
               /\ UNCHANGED <<memory, spoilt>>
            \/ req'[p] = Idle /\ UNCHANGED <<memory, spoilt>>
<1>1. req[p] \in Deleting /\ req \in [Procs -> Requests]
  BY AtCall DEF Outcome, At, TypeOK, Requests
<1>2. [req[p] EXCEPT !.pc = "open"] \in Deleting /\ [req[p] EXCEPT !.pc = "erase"] \in Deleting
  BY <1>1 DEF Deleting
<1>3. Recorded(req[p].coord, req[p].at) \in Marks
  <2>1. req[p].coord \in Coordinates /\ req[p].at \in Times
    BY <1>1 DEF Deleting
  <2>2. deleted \in Marks
    BY DEF TypeOK, deleted
  <2>3. QED
    BY <2>1, <2>2, RelayAssumption DEF Recorded, Marks, Times
<1>4. QED
  BY <1>1, <1>2, <1>3 DEF Outcome, GoTo, Done

\* The typing is kept by each call of a process...
LEMMA StepType ==
  ASSUME TypeOK, NEW p \in Procs, Step(p)
  PROVE  TypeOK'
<1>1. CASE Open(p) \/ Write(p)
  <2>1. /\ UNCHANGED <<store, retained, memory, blocked>>
        /\ file' \in [bans : SUBSET Coordinates, deletions : Marks]
        /\ RegistryOf(req[p]) \in Registries
        /\ spoilt' \in {spoilt, spoilt \union {RegistryOf(req[p])}}
        /\ req' = [req EXCEPT ![p] = req'[p]] /\ req'[p] \in Requests
    BY <1>1, SaveStep
  <2>2. req' \in [Procs -> Requests]
    BY <2>1 DEF TypeOK, Requests
  <2>3. spoilt' \subseteq Registries
    BY <2>1 DEF TypeOK, Registries
  <2>4. QED
    BY <2>1, <2>2, <2>3 DEF TypeOK, Requests, Registries
<1> USE DEF Requests
<1>2. req[p] \in Requests
  BY DEF TypeOK
<1>3. CASE Save(p)
  <2>1. req[p] \in Publishing
    BY <1>2, <1>3, AtCall DEF Save, At
  <2>2. req[p].event \in Events
    BY <2>1 DEF Publishing
  <2>3. /\ store' \subseteq Events
        /\ \A e, f \in store' : e.coord = f.coord => e = f
    BY <1>3, <2>2 DEF TypeOK, Save, ReplaceEvent
  <2>4. QED
    BY <1>3, <2>3 DEF TypeOK, Save, Done, registries
<1>4. CASE Query(p)
  <2> DEFINE found == {e \in store : Names(req[p], e)}
  <2>1. req[p] \in Moderating
    BY <1>2, <1>4, AtCall DEF Query, At
  <2>2. found \in SUBSET Events
    BY DEF TypeOK
  <2>3. req' = [req EXCEPT ![p] = [req[p] EXCEPT !.target = found, !.pc = "erase"]]
    BY <1>4 DEF Query, TypeOK
  <2> HIDE DEF found
  <2>4. [req[p] EXCEPT !.target = found, !.pc = "erase"] \in Moderating
    BY <2>1, <2>2 DEF Moderating
  <2>5. QED
    BY <1>4, <2>3, <2>4 DEF TypeOK, Query, registries
<1>5. CASE Outcome(p)
  <2>1. req' \in [Procs -> Requests]
    BY <1>5, OutcomeMoves DEF TypeOK
  <2>2. /\ memory' \in [bans : SUBSET Coordinates, deletions : Marks]
        /\ spoilt' \subseteq Registries
    <3>1. CASE UNCHANGED <<memory, spoilt>>
      BY <3>1 DEF TypeOK, Registries
    <3>2. CASE /\ Edit(p, "deletions", Recorded(req[p].coord, req[p].at))
               /\ Recorded(req[p].coord, req[p].at) \in Marks
      BY <3>2, EditSets DEF Registries
    <3>3. QED
      BY <1>5, <3>1, <3>2, OutcomeMoves
  <2>3. QED
    BY <1>5, <2>1, <2>2, OutcomeMoves DEF TypeOK, Registries
<1>6. CASE Erase(p)
  <2>1. req[p] \in Deleting \union Moderating
    BY <1>2, <1>6, AtCall DEF Erase, At
  <2>2. req[p].op = "delete" => Offered(req[p].by) \in Offering
    BY <1>2, AtCall DEF Deleting, Offering, Offered
  <2>3. QED
    BY <1>6, <2>2 DEF TypeOK, Erase, Done, registries
<1>7. CASE Admit(p)
  <2>1. req[p] \in Offering
    BY <1>2, <1>7, AtCall DEF Admit, At
  <2>2. [req[p] EXCEPT !.pc = "retain"] \in Offering
    BY <2>1 DEF Offering
  <2>3. QED
    BY <1>7, <2>2 DEF TypeOK, Admit, GoTo, Done, registries
<1>8. CASE Retain(p)
  <2>1. req[p] \in Offering
    BY <1>2, <1>8, AtCall DEF Retain, At
  <2>2. req[p].by \in Authors
    BY <2>1 DEF Offering
  <2>3. QED
    BY <1>8, <2>2 DEF TypeOK, Retain, Done, registries
<1>9. QED
  BY <1>1, <1>3, <1>4, <1>5, <1>6, <1>7, <1>8 DEF Step

\* ... and by everything else.
LEMMA TypeStep == TypeOK /\ [Next]_vars => TypeOK'
<1> SUFFICES ASSUME TypeOK, [Next]_vars PROVE TypeOK'
  OBVIOUS
<1>1. ASSUME NEW p \in Procs, Arrive(p) PROVE TypeOK'
  <2>1. UNCHANGED <<store, retained, file, blocked>> /\ req' \in [Procs -> Requests]
    BY <1>1, Arrival DEF TypeOK, Requests
  <2>2. CASE UNCHANGED <<memory, spoilt>>
    BY <2>1, <2>2 DEF TypeOK, Requests
  <2>3. CASE \E set \in SUBSET Coordinates : Edit(p, "bans", set)
    <3>1. /\ memory' \in [bans : SUBSET Coordinates, deletions : Marks]
          /\ spoilt' \subseteq Registries
      BY <2>3, EditSets DEF Registries
    <3>2. QED
      BY <2>1, <3>1 DEF TypeOK, Requests, Registries
  <2>4. QED
    BY <1>1, <2>2, <2>3, Arrival
<1>2. ASSUME NEW p \in Procs, Step(p) PROVE TypeOK'
  BY <1>2, StepType
<1>3. ASSUME NEW k \in Authors, BlockPubkey(k) \/ AllowPubkey(k) \/ Sweep(k)
      PROVE  TypeOK'
  BY <1>3 DEF TypeOK, BlockPubkey, AllowPubkey, Sweep, registries
<1>4. CASE Restart
  BY <1>4 DEF TypeOK, Restart
<1>5. CASE UNCHANGED vars
  BY <1>5 DEF TypeOK, vars, registries
<1>6. QED
  BY <1>1, <1>2, <1>3, <1>4, <1>5 DEF Next

\* Every variable keeps its type, and the store has at most one version of each
\* coordinate, in all reachable states.
THEOREM TypeCorrect == Spec => []TypeOK
<1>1. Init => TypeOK
  BY EmptyType DEF Init, TypeOK
<1>2. QED
  BY <1>1, TypeStep, PTL DEF Spec
-----------------------------------------------------------------------------
\* s is the same deletion or ban as r, further on.
Continues(r, s) ==
  /\ r \in Deleting \union Moderating /\ s \in Deleting \union Moderating
  /\ s.op = r.op /\ s.coord = r.coord /\ s.target = r.target
  /\ r.op = "delete" => s.named = r.named /\ s.by = r.by /\ s.at = r.at

\* How a process's request changes, from r to s...
Moves(q, r, s) ==
  \/ s = Idle
  \/ s \in Publishing /\ ~Rejected(s.event)
  \/ s \in Offering /\ s.pc = "admit"
  \/ s \in Deleting /\ s.pc = "outcome" /\ \A e \in s.target : Names(s, e)
  \/ s \in Moderating /\ s.pc = "open" /\ s.target = {} /\ r.pc = "idle"
  \/ /\ Outcome(q) /\ r \in Deleting /\ Continues(r, s) /\ MayDelete(r)
     /\ \/ s.pc = "open" /\ deleted' = Recorded(r.coord, r.at)
        \/ s.pc = "erase" /\ ~AcceptedKind(r.coord.kind)
  \/ /\ Open(q) \/ Write(q)
     /\ Continues(r, s) /\ r.pc \in {"open", "write"}
     /\ \/ r.pc = "open" /\ s.pc = "write"
        \/ r.op = "delete" /\ s.pc = "erase"
        \/ r.op = "ban" /\ s.pc = "query"
  \/ /\ r \in Moderating /\ r.pc = "query" /\ s \in Moderating /\ s.pc = "erase"
     /\ s.op = r.op /\ s.coord = r.coord /\ \A e \in s.target : Names(s, e)
  \/ Admit(q) /\ s \in Offering /\ s.pc = "retain" /\ s.by \notin blocked

\* ... by its own step or by an arrival at it, or by a restart.
LEMMA ReqMoves ==
  ASSUME TypeOK, [Next]_vars, NEW q \in Procs, req'[q] # req[q]
  PROVE  Moves(q, req[q], req'[q])
<1>1. req \in [Procs -> Requests] /\ req[q] \in Requests
  BY DEF TypeOK, Requests
<1>2. ASSUME NEW p \in Procs, Arrive(p) PROVE Moves(q, req[q], req'[q])
  <2>1. PICK r \in Requests :
          /\ req' = [req EXCEPT ![p] = r]
          /\ \/ r \in Publishing /\ ~Rejected(r.event)
             \/ r \in Offering /\ r.pc = "admit"
             \/ /\ r \in Deleting /\ r.pc = "outcome"
                /\ \A e \in r.target : Names(r, e)
             \/ r \in Moderating /\ r.pc = "open" /\ r.target = {}
    BY <1>2, Arrival
  <2>2. At(p, "idle")
    BY <1>2, Arrival
  <2>3. p = q /\ req'[q] = r
    BY <1>1, <2>1
  <2> HIDE DEF Moves
  <2>4. QED
    BY <2>1, <2>2, <2>3 DEF Moves, At
<1>3. ASSUME NEW p \in Procs, Open(p) \/ Write(p) PROVE Moves(q, req[q], req'[q])
  <2>1. /\ Saves(p, RegistryOf(req[p])) /\ Saving(p, RegistryOf(req[p]))
        /\ req' = [req EXCEPT ![p] = req'[p]]
    BY <1>3, SaveStep
  <2>2. p = q
    BY <1>1, <2>1
  <2>3. req[q] \in Deleting \union Moderating
    BY <1>1, <2>1, <2>2, AtCall DEF Saving
  <2>4. CASE Ended(q)
    <3>1. CASE req'[q] = Idle
      BY <3>1 DEF Moves
    <3>2. CASE /\ req[q] \in Deleting /\ req'[q] \in Deleting
               /\ req'[q] = [req[q] EXCEPT !.pc = "erase", !.snap = Empty.deletions]
      <4>1. req'[q].pc = "erase" /\ req[q].op = "delete" /\ Continues(req[q], req'[q])
        BY <3>2 DEF Deleting, Continues
      <4>2. QED
        BY <1>3, <2>1, <2>2, <4>1 DEF Moves, Saving
    <3>3. CASE /\ req[q] \in Moderating /\ req'[q] \in Moderating
               /\ req[q].op = "ban"
               /\ req'[q] = [req[q] EXCEPT !.pc = "query", !.snap = Empty.bans]
      <4>1. req'[q].pc = "query" /\ Continues(req[q], req'[q])
        BY <3>3 DEF Moderating, Continues
      <4>2. QED
        BY <1>3, <2>1, <2>2, <3>3, <4>1 DEF Moves, Saving
    <3>4. QED
      BY <2>4, <3>1, <3>2, <3>3 DEF Ended
  <2>5. CASE /\ Open(q) /\ req'[q].pc = "write"
             /\ req'[q] = [req[q] EXCEPT !.snap = memory[RegistryOf(req[q])], !.pc = "write"]
    <3>1. req'[q] \in Requests /\ req[q].pc = "open"
      BY <1>3, <2>2, <2>5, SaveStep DEF Open, At
    <3>2. Continues(req[q], req'[q])
      <4>1. req'[q] \in Deleting \union Moderating
        BY <2>5, <3>1, AtCall
      <4>2. CASE req[q] \in Deleting
        BY <2>5, <4>1, <4>2 DEF Deleting, Continues
      <4>3. CASE req[q] \in Moderating
        BY <2>5, <4>1, <4>3 DEF Moderating, Continues
      <4>4. QED
        BY <2>3, <4>2, <4>3
    <3>3. QED
      BY <2>5, <3>1, <3>2 DEF Moves
  <2>6. QED
    BY <2>1, <2>2, <2>4, <2>5 DEF Saves
<1>4. ASSUME NEW p \in Procs, Save(p) \/ Retain(p) PROVE Moves(q, req[q], req'[q])
  BY <1>1, <1>4 DEF Save, Retain, Done, Moves
<1>5. ASSUME NEW p \in Procs, Outcome(p) PROVE Moves(q, req[q], req'[q])
  <2>1. p = q /\ req[q] \in Deleting
    BY <1>1, <1>5, OutcomeMoves
  <2>2. CASE req'[q] = Idle
    BY <2>2 DEF Moves
  <2>3. CASE /\ req'[q] = [req[q] EXCEPT !.pc = "open"] /\ req'[q] \in Deleting
             /\ MayDelete(req[q])
             /\ Edit(q, "deletions", Recorded(req[q].coord, req[q].at))
             /\ Recorded(req[q].coord, req[q].at) \in Marks
    <3>1. req'[q].pc = "open" /\ Continues(req[q], req'[q])
      BY <1>5, <2>1, <2>3, OutcomeMoves DEF Deleting, Continues
    <3>2. deleted' = Recorded(req[q].coord, req[q].at)
      BY <2>3, EditSets DEF Registries, deleted
    <3>3. QED
      BY <1>5, <2>1, <2>3, <3>1, <3>2 DEF Moves
  <2>4. CASE /\ req'[q] = [req[q] EXCEPT !.pc = "erase"] /\ req'[q] \in Deleting
             /\ MayDelete(req[q]) /\ ~AcceptedKind(req[q].coord.kind)
    <3>1. req'[q].pc = "erase" /\ Continues(req[q], req'[q])
      BY <1>5, <2>1, <2>4, OutcomeMoves DEF Deleting, Continues
    <3>2. QED
      BY <1>5, <2>1, <2>4, <3>1 DEF Moves
  <2>5. QED
    BY <1>5, <2>1, <2>2, <2>3, <2>4, OutcomeMoves
<1>6. ASSUME NEW p \in Procs, Query(p) PROVE Moves(q, req[q], req'[q])
  <2> DEFINE found == {e \in store : Names(req[p], e)}
  <2>1. req[p] \in Moderating /\ req[p].pc = "query"
    BY <1>1, <1>6, AtCall DEF Query, At
  <2>2. /\ found \in SUBSET Events /\ \A e \in found : Names(req[p], e)
        /\ req' = [req EXCEPT ![p] = [req[p] EXCEPT !.target = found, !.pc = "erase"]]
    BY <1>1, <1>6 DEF TypeOK, Query
  <2> HIDE DEF found
  <2>3. p = q /\ req'[q] = [req[q] EXCEPT !.target = found, !.pc = "erase"]
    BY <1>1, <2>2
  <2>4. /\ req'[q] \in Moderating /\ req'[q].pc = "erase" /\ req'[q].target = found
        /\ req'[q].op = req[q].op /\ req'[q].coord = req[q].coord
        /\ req[q].op # "delete"
    <3> DEFINE s == [req[q] EXCEPT !.target = found, !.pc = "erase"]
    <3>1. req[q] \in Moderating /\ found \in SUBSET Events
      BY <2>1, <2>2, <2>3
    <3>2. /\ s \in Moderating /\ s.pc = "erase" /\ s.target = found
          /\ s.op = req[q].op /\ s.coord = req[q].coord /\ req[q].op # "delete"
      BY <3>1 DEF Moderating
    <3>3. req'[q] = s
      BY <2>3
    <3> HIDE DEF s
    <3>4. QED
      BY <3>2, <3>3
  <2>5. \A e \in req'[q].target : Names(req'[q], e)
    BY <2>2, <2>3, <2>4 DEF Names
  <2>6. QED
    BY <2>1, <2>3, <2>4, <2>5 DEF Moves
<1>7. ASSUME NEW p \in Procs, Erase(p) PROVE Moves(q, req[q], req'[q])
  <2>1. p = q
    BY <1>1, <1>7 DEF Erase, Done
  <2>2. req[q].op = "delete" =>
          Offered(req[q].by) \in Offering /\ Offered(req[q].by).pc = "admit"
    BY <1>1, AtCall DEF Deleting, Offering, Offered
  <2>3. \/ req'[q] = Idle
        \/ req[q].op = "delete" /\ req'[q] = Offered(req[q].by)
    BY <1>1, <1>7, <2>1 DEF Erase, Done
  <2>4. QED
    BY <2>2, <2>3 DEF Moves
<1>8. ASSUME NEW p \in Procs, Admit(p) PROVE Moves(q, req[q], req'[q])
  <2>1. p = q /\ req[p] \in Offering
    BY <1>1, <1>8, AtCall DEF Admit, At, Done, GoTo
  <2>2. \/ req'[q] = Idle
        \/ req'[q] = [req[q] EXCEPT !.pc = "retain"] /\ req[q].by \notin blocked
    BY <1>1, <1>8, <2>1 DEF Admit, Done, GoTo
  <2>3. [req[q] EXCEPT !.pc = "retain"] \in Offering
    BY <2>1 DEF Offering
  <2>4. QED
    BY <1>8, <2>1, <2>2, <2>3 DEF Moves, Offering
<1>9. CASE Restart
  BY <1>9 DEF Restart, Moves
<1>10. ASSUME \/ \E k \in Authors : BlockPubkey(k) \/ AllowPubkey(k) \/ Sweep(k)
              \/ UNCHANGED vars
       PROVE  FALSE
  BY <1>10 DEF BlockPubkey, AllowPubkey, Sweep, vars
<1>11. QED
  BY <1>2, <1>3, <1>4, <1>5, <1>6, <1>7, <1>8, <1>9, <1>10 DEF Next, Step

\* How the store changes.
LEMMA StoreMoves ==
  ASSUME TypeOK, [Next]_vars
  PROVE  \/ store' = store
         \/ \E p \in Procs : Save(p) /\ req[p] \in Publishing
         \/ \E p \in Procs : Erase(p) /\ req[p] \in Deleting \union Moderating
<1>1. ASSUME NEW p \in Procs, Arrive(p) PROVE store' = store
  BY <1>1, Arrival
<1>2. ASSUME NEW p \in Procs, Step(p), ~Save(p), ~Erase(p) PROVE store' = store
  BY <1>2 DEF Step, Outcome, Open, Write, Query, Admit, Retain
<1>3. ASSUME NEW p \in Procs, Save(p) PROVE req[p] \in Publishing
  BY <1>3, AtCall DEF Save, At, TypeOK, Requests
<1>4. ASSUME NEW p \in Procs, Erase(p) PROVE req[p] \in Deleting \union Moderating
  BY <1>4, AtCall DEF Erase, At, TypeOK, Requests
<1>5. ASSUME ~ \E p \in Procs : Arrive(p) \/ Step(p) PROVE store' = store
  BY <1>5 DEF Next, BlockPubkey, AllowPubkey, Sweep, Restart, vars
<1>6. QED
  BY <1>1, <1>2, <1>3, <1>4, <1>5

\* The store and what is on its way to it hold events.
LEMMA PassedType ==
  ASSUME TypeOK, [Next]_vars
  PROVE  store' \union Passed' \subseteq Events
<1>1. TypeOK'
  BY TypeStep
<1>2. ASSUME NEW q \in Procs, req'[q].pc = "save" PROVE req'[q].event \in Events
  <2>1. req'[q] \in Requests
    BY <1>1 DEF TypeOK, Requests
  <2>2. req'[q] \in Publishing
    BY <1>2, <2>1, AtCall
  <2>3. QED
    BY <2>2 DEF Publishing
<1>3. QED
  BY <1>1, <1>2 DEF TypeOK, Passed, At

\* A version enters the store only from a publication past the policy.
LEMMA NewVersion ==
  ASSUME TypeOK, [Next]_vars, NEW e \in store'
  PROVE  e \in store \union Passed
<1>1. ASSUME NEW p \in Procs, Save(p), e \notin store PROVE e \in Passed
  BY <1>1 DEF Save, ReplaceEvent, Passed
<1>2. ASSUME NEW p \in Procs, Erase(p) PROVE e \in store
  BY <1>2 DEF Erase
<1>3. QED
  BY <1>1, <1>2, StoreMoves

\* A publication gets past the policy only if the policy does not reject it.
LEMMA NewlyPassed ==
  ASSUME TypeOK, [Next]_vars, NEW e \in Passed'
  PROVE  e \in Passed \/ ~Rejected(e)
<1>1. PICK q \in Procs : req'[q].pc = "save" /\ req'[q].event = e
  BY DEF Passed, At
<1>2. CASE req'[q] = req[q]
  BY <1>1, <1>2 DEF Passed, At
<1>3. CASE Moves(q, req[q], req'[q])
  <2>1. req'[q].pc # "save" \/ req'[q] \in Publishing
    <3>1. req'[q] \in Requests
      BY TypeStep DEF TypeOK, Requests
    <3>2. QED
      BY <3>1, AtCall
  <2>2. req'[q] \in Publishing
    BY <1>1, <2>1
  <2>3. req'[q].op = "publish"
    BY <2>2 DEF Publishing
  <2>4. ~Rejected(req'[q].event)
    BY <1>1, <1>3, <2>3 DEF Moves, Idle, Offering, Deleting, Moderating, Continues
  <2>5. QED
    BY <1>1, <2>4
<1>4. QED
  BY <1>2, <1>3, ReqMoves
-----------------------------------------------------------------------------
\* Unless a save of g has failed or met another, the file of g is what memory
\* holds, or the one process that is saving g is about to make it so.
Safe(g) ==
  /\ \A p, q \in Procs : Saving(p, g) /\ Saving(q, g) => p = q
  /\ \A p \in Procs : Saving(p, g) /\ At(p, "write") =>
       req[p].snap = memory[g] /\ file[g] = Empty[g]
  /\ (\A p \in Procs : ~Saving(p, g)) => file[g] = memory[g]

SaveInv == \A g \in Registries \ spoilt : Safe(g)

\* Nothing happens to the saves of g.
LEMMA SafeFrame ==
  ASSUME NEW g \in Registries, Safe(g), memory'[g] = memory[g], file'[g] = file[g],
         \A q \in Procs : Saving(q, g)' => Saving(q, g) /\ req'[q] = req[q],
         \A q \in Procs : Saving(q, g) => Saving(q, g)'
  PROVE  Safe(g)'
<1>1. \A p, q \in Procs : Saving(p, g)' /\ Saving(q, g)' => p = q
  BY DEF Safe
<1>2. \A p \in Procs : Saving(p, g)' /\ At(p, "write")' =>
        req'[p].snap = memory'[g] /\ file'[g] = Empty[g]
  BY DEF Safe, At
<1>3. (\A p \in Procs : ~Saving(p, g)') => file'[g] = memory'[g]
  BY DEF Safe
<1>4. QED
  BY <1>1, <1>2, <1>3 DEF Safe

\* An edit of g, by a process that was not saving it and now begins to.
LEMMA SafeEdit ==
  ASSUME TypeOK, NEW g \in Registries \ spoilt', NEW p \in Procs,
         \A q \in Procs \ {p} : ~Saving(q, g) /\ req'[q] = req[q],
         Saving(p, g)', ~At(p, "write")'
  PROVE  Safe(g)'
<1>1. \A q \in Procs \ {p} : ~Saving(q, g)'
  BY DEF Saving, RegistryOf
<1>2. QED
  BY <1>1 DEF Safe

\* A step of the save of a registry: alone, it puts what memory holds on file.
LEMMA SafeSave ==
  ASSUME TypeOK, SaveInv, NEW p \in Procs, Open(p) \/ Write(p)
  PROVE  SaveInv'
<1>1. PICK g \in Registries :
        /\ g = RegistryOf(req[p]) /\ Saving(p, g)
        /\ memory' = memory
        /\ \A h \in Registries \ {g} : file'[h] = file[h]
        /\ spoilt' \in {spoilt, spoilt \union {g}}
        /\ req' = [req EXCEPT ![p] = req'[p]] /\ req'[p] \in Requests
        /\ Saves(p, g)
  BY SaveStep
<1>2. \A q \in Procs \ {p} : req'[q] = req[q]
  BY <1>1 DEF TypeOK
<1>3. req[p] \in Deleting \union Moderating
  BY AtCall DEF Open, Write, At, TypeOK, Requests
<1>4. \A h \in Registries : Saving(p, h)' => h = g
  <2>1. CASE Ended(p)
    <3>1. req'[p].pc \notin {"open", "write"}
      BY <2>1 DEF Ended, Idle
    <3>2. QED
      BY <3>1 DEF Saving, RegistryOf
  <2>2. CASE RegistryOf(req'[p]) = g
    BY <2>2 DEF Saving, RegistryOf
  <2>3. QED
    BY <1>1, <2>1, <2>2 DEF Saves
<1> SUFFICES ASSUME NEW h \in Registries \ spoilt' PROVE Safe(h)'
  BY DEF SaveInv
<1>5. h \in Registries \ spoilt /\ Safe(h)
  BY <1>1 DEF SaveInv
<1>6. CASE h # g
  <2>1. ~Saving(p, h)' /\ ~Saving(p, h)
    BY <1>1, <1>4, <1>6 DEF Saving, RegistryOf
  <2>2. QED
    BY <1>1, <1>2, <1>5, <1>6, <2>1, SafeFrame DEF Saving, RegistryOf
<1>7. CASE h = g
  <2>1. \A q \in Procs \ {p} : ~Saving(q, g)'
    BY <1>1, <1>2, <1>5, <1>7 DEF Safe, Saving, RegistryOf
  <2>2. CASE /\ file'[g] = Empty[g] /\ req'[p].snap = memory[g]
             /\ req'[p].pc = "write" /\ RegistryOf(req'[p]) = g
    <3>1. Saving(p, g)'
      BY <2>2 DEF Saving, RegistryOf
    <3>2. QED
      BY <1>1, <1>7, <2>1, <2>2, <3>1 DEF Safe
  <2>3. CASE /\ \/ Write(p) /\ file'[g] = req[p].snap
                \/ Write(p) /\ file[g] # Empty[g]
             /\ Ended(p)
    <3>1. At(p, "write") /\ req[p].snap = memory[g] /\ file[g] = Empty[g]
      BY <1>1, <1>5, <1>7, <2>3 DEF Write, Safe
    <3>2. file'[g] = memory'[g]
      BY <1>1, <2>3, <3>1
    <3>3. ~Saving(p, g)'
      <4>1. req'[p].pc \notin {"open", "write"}
        BY <2>3 DEF Ended, Idle
      <4>2. QED
        BY <4>1 DEF Saving, RegistryOf
    <3>4. QED
      BY <1>7, <2>1, <3>2, <3>3 DEF Safe
  <2>4. QED
    BY <1>1, <1>7, <2>2, <2>3 DEF Saves
<1>8. QED
  BY <1>6, <1>7

LEMMA SaveInvStep == TypeOK /\ SaveInv /\ [Next]_vars => SaveInv'
<1> SUFFICES ASSUME TypeOK, SaveInv, [Next]_vars PROVE SaveInv'
  OBVIOUS
<1>1. ASSUME NEW p \in Procs, NEW r, req' = [req EXCEPT ![p] = r],
             UNCHANGED <<memory, file, spoilt>>,
             req[p].pc \notin {"open", "write"}, r.pc \notin {"open", "write"}
      PROVE  SaveInv'
  <2> SUFFICES ASSUME NEW g \in Registries \ spoilt PROVE Safe(g)'
    BY <1>1 DEF SaveInv
  <2>1. Safe(g)
    BY DEF SaveInv
  <2>2. \A q \in Procs : Saving(q, g)' <=> Saving(q, g)
    BY <1>1 DEF Saving, RegistryOf, TypeOK
  <2>3. \A q \in Procs : Saving(q, g)' => req'[q] = req[q]
    BY <1>1 DEF Saving, TypeOK
  <2>4. QED
    BY <1>1, <2>1, <2>2, <2>3, SafeFrame
<1>2. ASSUME NEW p \in Procs, NEW r \in Requests, req' = [req EXCEPT ![p] = r],
             NEW g \in Registries, NEW set, Edit(p, g, set), UNCHANGED file,
             set \in IF g = "bans" THEN SUBSET Coordinates ELSE Marks,
             req[p].pc \notin {"open", "write"}, r.pc = "open", RegistryOf(r) = g
      PROVE  SaveInv'
  <2>1. /\ \A h \in Registries \ {g} : memory'[h] = memory[h] /\ (h \in spoilt' <=> h \in spoilt)
        /\ g \notin spoilt' => \A q \in Procs \ {p} : ~Saving(q, g)
    BY <1>2, EditSets
  <2>2. req'[p] = r /\ \A q \in Procs \ {p} : req'[q] = req[q]
    BY <1>2 DEF TypeOK
  <2> SUFFICES ASSUME NEW h \in Registries \ spoilt' PROVE Safe(h)'
    BY DEF SaveInv
  <2>3. CASE h = g
    <3>1. Saving(p, g)' /\ ~At(p, "write")'
      BY <1>2, <2>2 DEF Saving, RegistryOf, At
    <3>2. QED
      BY <2>1, <2>2, <2>3, <3>1, SafeEdit
  <2>4. CASE h # g
    <3>1. Safe(h) /\ memory'[h] = memory[h] /\ file'[h] = file[h]
      BY <1>2, <2>1, <2>4 DEF SaveInv
    <3>2. ~Saving(p, h) /\ ~Saving(p, h)'
      BY <1>2, <2>2, <2>4 DEF Saving, RegistryOf
    <3>3. \A q \in Procs \ {p} : (Saving(q, h)' <=> Saving(q, h)) /\ req'[q] = req[q]
      BY <2>2 DEF Saving, RegistryOf
    <3>4. QED
      BY <3>1, <3>2, <3>3, SafeFrame
  <2>5. QED
    BY <2>3, <2>4
<1>3. ASSUME NEW p \in Procs, Arrive(p) PROVE SaveInv'
  <2>1. PICK r \in Requests :
          /\ req' = [req EXCEPT ![p] = r]
          /\ \/ /\ \/ r \in Publishing
                   \/ r \in Offering
                   \/ r \in Deleting /\ r.pc = "outcome"
                /\ UNCHANGED <<memory, spoilt>>
             \/ /\ r \in Moderating /\ r.pc = "open"
                /\ \E set \in SUBSET Coordinates : Edit(p, "bans", set)
    BY <1>3, Arrival
  <2>2. req[p].pc = "idle" /\ UNCHANGED file
    BY <1>3, Arrival DEF At
  <2>3. CASE UNCHANGED <<memory, spoilt>> /\ r.pc # "open"
    <3>1. r.pc \notin {"open", "write"}
      BY <2>1, <2>3 DEF Publishing, Offering, Moderating
    <3>2. QED
      BY <1>1, <2>1, <2>2, <2>3, <3>1
  <2>4. CASE r \in Moderating /\ r.pc = "open"
    <3>1. PICK set \in SUBSET Coordinates : Edit(p, "bans", set)
      BY <2>1, <2>4 DEF Publishing, Offering
    <3>2. RegistryOf(r) = "bans"
      BY <2>4 DEF RegistryOf, Moderating
    <3>3. QED
      BY <1>2, <2>1, <2>2, <2>4, <3>1, <3>2 DEF Registries
  <2>5. QED
    BY <2>1, <2>3, <2>4 DEF Publishing, Offering
<1>4. ASSUME NEW p \in Procs, Outcome(p) PROVE SaveInv'
  <2>1. /\ req' = [req EXCEPT ![p] = req'[p]] /\ req[p].pc = "outcome" /\ UNCHANGED file
    BY <1>4, OutcomeMoves DEF Outcome, At
  <2>2. CASE UNCHANGED <<memory, spoilt>> /\ req'[p].pc \notin {"open", "write"}
    BY <1>1, <2>1, <2>2
  <2>3. CASE /\ req'[p] = [req[p] EXCEPT !.pc = "open"] /\ req'[p] \in Deleting
             /\ Edit(p, "deletions", Recorded(req[p].coord, req[p].at))
             /\ Recorded(req[p].coord, req[p].at) \in Marks
    <3>1. req'[p].pc = "open" /\ RegistryOf(req'[p]) = "deletions" /\ req'[p] \in Requests
      BY <1>4, <2>3, OutcomeMoves DEF Deleting, RegistryOf, Requests
    <3>2. QED
      BY <1>2, <2>1, <2>3, <3>1 DEF Registries
  <2>4. CASE /\ req'[p] = [req[p] EXCEPT !.pc = "erase"] /\ req'[p] \in Deleting
             /\ UNCHANGED <<memory, spoilt>>
    <3>1. req'[p].pc = "erase"
      BY <1>4, <2>4, OutcomeMoves DEF Deleting
    <3>2. QED
      BY <2>2, <2>4, <3>1
  <2>5. CASE req'[p] = Idle /\ UNCHANGED <<memory, spoilt>>
    BY <2>2, <2>5 DEF Idle
  <2>6. QED
    BY <1>4, <2>3, <2>4, <2>5, OutcomeMoves
<1>5. ASSUME NEW p \in Procs, Open(p) \/ Write(p) PROVE SaveInv'
  BY <1>5, SafeSave
<1>6. ASSUME NEW p \in Procs, Save(p) \/ Query(p) \/ Erase(p) \/ Admit(p) \/ Retain(p)
      PROVE  SaveInv'
  <2>1. /\ req[p].pc \notin {"open", "write"} /\ UNCHANGED <<memory, file, spoilt>>
        /\ \E r : req' = [req EXCEPT ![p] = r]
    BY <1>6 DEF Save, Query, Erase, Admit, Retain, At, Done, GoTo, registries
  <2>2. req' = [req EXCEPT ![p] = req'[p]] /\ req'[p] \in Requests
    BY <2>1, TypeStep DEF TypeOK, Requests
  <2>3. req'[p].pc \notin {"open", "write"}
    <3>1. CASE req'[p] = req[p]
      BY <2>1, <3>1
    <3>2. CASE Moves(p, req[p], req'[p])
      <4>1. ~Outcome(p)
        BY <1>6 DEF Save, Query, Erase, Admit, Retain, Outcome, At
      <4>2. req[p].pc # "idle"
        BY <1>6 DEF Save, Query, Erase, Admit, Retain, At
      <4>3. QED
        BY <2>1, <3>2, <4>1, <4>2 DEF Moves, Idle, Publishing, Offering
    <3>3. QED
      BY <3>1, <3>2, ReqMoves
  <2>4. QED
    BY <1>1, <2>1, <2>2, <2>3
<1>7. CASE Restart
  <2>1. \A g \in Registries : (\A p \in Procs : ~Saving(p, g)') /\ memory' = file'
    BY <1>7 DEF Restart, Saving, Idle
  <2>2. QED
    BY <2>1 DEF SaveInv, Safe
<1>8. ASSUME UNCHANGED <<memory, file, req, spoilt>> PROVE SaveInv'
  BY <1>8 DEF SaveInv, Safe, Saving, RegistryOf, At
<1>9. QED
  BY <1>3, <1>4, <1>5, <1>6, <1>7, <1>8
  DEF Next, Step, BlockPubkey, AllowPubkey, Sweep, vars, registries

LEMMA SavesKnown == Spec => []SaveInv
<1>1. Init => SaveInv
  BY DEF Init, SaveInv, Safe, Saving, Idle
<1>2. QED
  BY <1>1, SaveInvStep, TypeCorrect, PTL DEF Spec

\* Unless somebody is saving it, or its last save failed or met another, a
\* registry's file holds what memory holds: all that a restart can lose is in doubt.
THEOREM FilesMatch ==
  Spec => [](\A g \in Registries : InDoubt(g) \/ file[g] = memory[g])
<1>1. SaveInv => \A g \in Registries : InDoubt(g) \/ file[g] = memory[g]
  BY DEF SaveInv, Safe, InDoubt
<1>2. QED
  BY <1>1, SavesKnown, PTL
-----------------------------------------------------------------------------
LEMMA UnbanSets ==
  ASSUME TypeOK, NEW p \in Procs, NEW c \in Coordinates, Unban(p, c)
  PROVE  deleted' = deleted /\ banned' = banned \ {c}
BY EditSets DEF Unban, Registries, deleted, banned, TypeOK

\* How the registries in memory change.
LEMMA MemoryMoves ==
  ASSUME TypeOK, [Next]_vars
  PROVE  \/ UNCHANGED <<banned, deleted>>
         \/ /\ banned' = banned
            /\ \E c \in Coordinates, t \in Times : deleted' = Recorded(c, t)
         \/ /\ deleted' = deleted
            /\ \E p \in Procs, c \in Coordinates : \/ Ban(p, c) /\ banned' = banned \union {c}
                                                   \/ Unban(p, c) /\ banned' = banned \ {c}
         \/ Restart
<1>1. ASSUME NEW p \in Procs, NEW e \in Events, Publish(p, e) PROVE memory' = memory
  BY <1>1 DEF Publish, registries
<1>2. ASSUME NEW p \in Procs, NEW c \in Coordinates, NEW named \in Times \union {NoName},
             NEW k \in Authors, NEW t \in Times, Delete(p, c, named, k, t)
      PROVE  memory' = memory
  BY <1>2 DEF Delete, registries
<1>3. ASSUME NEW p \in Procs, NEW c \in Coordinates, Ban(p, c)
      PROVE  deleted' = deleted /\ banned' = banned \union {c}
  BY <1>3, EditSets DEF Ban, Registries, deleted, banned, TypeOK
<1>4. ASSUME NEW p \in Procs, NEW c \in Coordinates, Unban(p, c)
      PROVE  deleted' = deleted /\ banned' = banned \ {c}
  BY <1>4, UnbanSets
<1>5. ASSUME NEW p \in Procs, Outcome(p)
      PROVE  \/ memory' = memory
             \/ /\ banned' = banned
                /\ \E c \in Coordinates, t \in Times : deleted' = Recorded(c, t)
  <2>1. req[p].coord \in Coordinates /\ req[p].at \in Times
    BY <1>5, OutcomeMoves DEF Deleting
  <2>2. \/ memory' = memory
        \/ banned' = banned /\ deleted' = Recorded(req[p].coord, req[p].at)
    BY <1>5, OutcomeMoves, EditSets DEF Registries, banned, deleted
  <2>3. QED
    BY <2>1, <2>2
<1>6. ASSUME NEW p \in Procs, Step(p), ~Outcome(p) PROVE memory' = memory
  BY <1>6 DEF Step, Save, Open, Write, Query, Erase, Admit, Retain, registries
<1>7. memory' = memory => UNCHANGED <<banned, deleted>>
  BY DEF banned, deleted
<1>8. ASSUME NEW p \in Procs, Arrive(p)
      PROVE  \/ memory' = memory
             \/ \E c \in Coordinates : Ban(p, c) \/ Unban(p, c)
  BY <1>1, <1>2, <1>8 DEF Arrive
<1>9. QED
  BY <1>3, <1>4, <1>5, <1>6, <1>7, <1>8
  DEF Next, BlockPubkey, AllowPubkey, Sweep, vars, registries

\* A restart takes over the files, which hold all that is not in doubt.
LEMMA Restarted ==
  ASSUME SaveInv, Restart
  PROVE  /\ InDoubt("bans") \/ banned' = banned
         /\ InDoubt("deletions") \/ deleted' = deleted
BY DEF SaveInv, Safe, InDoubt, Restart, Registries, banned, deleted

LEMMA TakenDownKept ==
  ASSUME TypeOK, SaveInv, [Next]_vars, NEW c \in Coordinates, TakenDown(c),
         \A p \in Procs : ~Unban(p, c), ~(Restart /\ InDoubt("bans"))
  PROVE  TakenDown(c)'
<1>1. c \in banned
  BY DEF TakenDown
<1>2. c \in banned'
  <2>1. ASSUME NEW p \in Procs, NEW d \in Coordinates, Unban(p, d), banned' = banned \ {d}
        PROVE  c \in banned'
    BY <1>1, <2>1
  <2>2. QED
    BY <1>1, <2>1, MemoryMoves, Restarted
<1>3. ASSUME NEW e \in store' \union Passed' PROVE e.coord # c
  <2>1. e \in store \union Passed \/ ~Rejected(e)
    BY NewVersion, NewlyPassed
  <2>2. QED
    BY <1>1, <2>1 DEF TakenDown, Rejected
<1>4. QED
  BY <1>2, <1>3 DEF TakenDown

\* A takedown holds until it is lifted, or the process is killed while the bans
\* on file are in doubt.
THEOREM TakedownsStick == Spec => TakedownSticks
<1>1. TypeOK /\ SaveInv /\ [Next]_vars =>
        [\A c \in Coordinates :
           TakenDown(c) => \/ TakenDown(c)'
                           \/ \E p \in Procs : Unban(p, c)
                           \/ Restart /\ InDoubt("bans")]_vars
  BY TakenDownKept
<1>2. QED
  BY <1>1, TypeCorrect, SavesKnown, PTL DEF Spec, TakedownSticks
-----------------------------------------------------------------------------
\* The record of deletions only moves forward, but for a restart.
LEMMA RecordKept ==
  ASSUME TypeOK, [Next]_vars, NEW c \in Coordinates, NEW t \in Times, deleted[c] >= t
  PROVE  deleted'[c] >= t \/ Restart
<1>1. deleted \in Marks
  BY DEF TypeOK, deleted
<1>2. ASSUME NEW d \in Coordinates, NEW u \in Times, deleted' = Recorded(d, u)
      PROVE  deleted'[c] >= t
  BY <1>1, <1>2, RelayAssumption DEF Recorded, Marks, Times
<1>3. QED
  BY <1>2, MemoryMoves

LEMMA DeletedKept ==
  ASSUME TypeOK, SaveInv, [Next]_vars, NEW c \in Coordinates, NEW t \in Times,
         DeletedUpTo(c, t), ~(Restart /\ InDoubt("deletions"))
  PROVE  DeletedUpTo(c, t)'
<1>1. deleted[c] >= t /\ deleted'[c] >= t
  BY RecordKept, Restarted DEF DeletedUpTo
<1>2. ASSUME NEW e \in store' \union Passed', e.coord = c PROVE e.at > t
  <2>1. e \in store \union Passed \/ ~Rejected(e)
    BY NewVersion, NewlyPassed
  <2>2. e \in Events
    BY PassedType
  <2>3. e.at \in Nat /\ t \in Nat /\ deleted[c] \in Nat
    BY <2>2, RelayAssumption DEF Events, Times, TypeOK, Marks, deleted
  <2>4. CASE e \in store \union Passed
    BY <1>2, <2>4 DEF DeletedUpTo
  <2>5. CASE ~Rejected(e)
    <3>1. ~(e.at <= deleted[c])
      BY <1>2, <2>5 DEF Rejected
    <3>2. QED
      BY <1>1, <2>3, <3>1
  <2>6. QED
    BY <2>1, <2>4, <2>5
<1>3. QED
  BY <1>1, <1>2 DEF DeletedUpTo

\* A deletion that is recorded and carried out holds for good, unless the process
\* is killed while the record on file is in doubt.
THEOREM DeletionsStick == Spec => DeletionSticks
<1>1. TypeOK /\ SaveInv /\ [Next]_vars =>
        [\A c \in Coordinates, t \in Times :
           DeletedUpTo(c, t) => \/ DeletedUpTo(c, t)'
                                \/ Restart /\ InDoubt("deletions")]_vars
  BY DeletedKept
<1>2. QED
  BY <1>1, TypeCorrect, SavesKnown, PTL DEF Spec, DeletionSticks
-----------------------------------------------------------------------------
\* A kind-5 event reaches the store only past the look at its author.
LEMMA RetainMoves ==
  ASSUME TypeOK, [Next]_vars, NEW k \in Authors, ShutOut(k), k \in blocked
  PROVE  /\ \A q \in Procs : req'[q].pc = "retain" => req'[q].by # k
         /\ k \in retained' => k \in retained
<1>1. ASSUME NEW q \in Procs, req'[q].pc = "retain" PROVE req'[q].by # k
  <2>1. CASE req'[q] = req[q]
    BY <1>1, <2>1 DEF ShutOut, At
  <2>2. CASE Moves(q, req[q], req'[q])
    BY <1>1, <2>2 DEF Moves, Idle, Publishing
  <2>3. QED
    BY <2>1, <2>2, ReqMoves
<1>2. ASSUME NEW p \in Procs, Arrive(p) PROVE retained' = retained
  BY <1>2, Arrival
<1>3. ASSUME NEW p \in Procs, Step(p), ~Retain(p) PROVE retained' = retained
  BY <1>3 DEF Step, Save, Outcome, Open, Write, Query, Erase, Admit
<1>4. ASSUME NEW p \in Procs, Retain(p) PROVE k \in retained' => k \in retained
  BY <1>4 DEF Retain, ShutOut
<1>5. QED
  BY <1>1, <1>2, <1>3, <1>4
  DEF Next, BlockPubkey, AllowPubkey, Sweep, Restart, vars

\* A banned pubkey adds nothing to the event store once what was past the
\* policy has drained.
THEOREM BlocksHold == Spec => BlockedAddsNothing
<1>1. ASSUME TypeOK, [Next]_vars, NEW k \in Authors, ShutOut(k), k \in blocked'
      PROVE  /\ ShutOut(k)'
             /\ \A e \in store' : e.coord.author = k => e \in store
             /\ k \in retained' => k \in retained
  <2>1. k \in blocked
    BY <1>1 DEF ShutOut
  <2>2. ASSUME NEW e, e.coord.author = k PROVE e \notin Passed'
    BY <1>1, <2>1, <2>2, NewlyPassed DEF ShutOut, Rejected
  <2>3. ASSUME NEW e \in store', e.coord.author = k PROVE e \in store
    BY <1>1, <2>3, NewVersion DEF ShutOut
  <2>4. QED
    BY <1>1, <2>1, <2>2, <2>3, RetainMoves DEF ShutOut, At
<1>2. TypeOK /\ [Next]_vars =>
        [\A k \in Authors :
           ShutOut(k) => \/ k \notin blocked'
                         \/ /\ ShutOut(k)'
                            /\ \A e \in store' : e.coord.author = k => e \in store
                            /\ k \in retained' => k \in retained]_vars
  BY <1>1
<1>3. QED
  BY <1>2, TypeCorrect, PTL DEF Spec, BlockedAddsNothing
-----------------------------------------------------------------------------
\* A request that holds a target asked the store for it; a deletion past its
\* outcome is its author's, and past that on record; and a ban, not the lifting of
\* one, goes on to erase.
Asked(r) ==
  /\ r.op \in {"delete", "ban", "unban"} => \A e \in r.target : Names(r, e)
  /\ r.op = "delete" /\ r.pc # "outcome" => MayDelete(r)
  /\ r.pc \in {"query", "erase"} => r.op \in {"delete", "ban"}

OnRecord(r, marks) ==
  r.op = "delete" /\ r.pc # "outcome" /\ AcceptedKind(r.coord.kind) =>
    r.at <= marks[r.coord]

TargetInv == \A p \in Procs : Asked(req[p]) /\ OnRecord(req[p], deleted)

LEMMA AskedStep ==
  ASSUME NEW q \in Procs, NEW r, NEW s, Asked(r), Moves(q, r, s)
  PROVE  Asked(s)
<1>1. CASE s = Idle
  BY <1>1 DEF Asked, Idle
<1>2. CASE s \in Publishing \/ s \in Offering
  BY <1>2 DEF Asked, Publishing, Offering
<1>3. CASE s \in Deleting /\ s.pc = "outcome" /\ \A e \in s.target : Names(s, e)
  BY <1>3 DEF Asked
<1>4. CASE s \in Moderating /\ s.pc = "open" /\ s.target = {}
  BY <1>4 DEF Asked, Moderating
<1>5. CASE /\ r \in Moderating /\ r.pc = "query" /\ s \in Moderating /\ s.pc = "erase"
           /\ s.op = r.op /\ s.coord = r.coord /\ \A e \in s.target : Names(s, e)
  BY <1>5 DEF Asked, Moderating
<1>6. ASSUME Continues(r, s),
             r.op = "delete" /\ s.pc # "outcome" => MayDelete(r),
             s.pc \in {"query", "erase"} => r.op \in {"delete", "ban"}
      PROVE  Asked(s)
  <2>1. /\ s.op = r.op /\ s.coord = r.coord /\ s.target = r.target
        /\ r.op \in {"delete", "ban", "unban"}
        /\ r.op = "delete" => s.named = r.named /\ s.by = r.by /\ s.at = r.at
    BY <1>6 DEF Continues, Deleting, Moderating
  <2>2. \A e \in s.target : Names(s, e)
    BY <2>1 DEF Asked, Names
  <2>3. QED
    BY <1>6, <2>1, <2>2 DEF Asked, MayDelete
<1>7. CASE /\ r \in Deleting /\ Continues(r, s) /\ MayDelete(r)
           /\ s.pc = "open" \/ s.pc = "erase"
  BY <1>6, <1>7 DEF Deleting
<1>8. CASE /\ Continues(r, s) /\ r.pc \in {"open", "write"}
           /\ \/ r.pc = "open" /\ s.pc = "write"
              \/ r.op = "delete" /\ s.pc = "erase"
              \/ r.op = "ban" /\ s.pc = "query"
  BY <1>6, <1>8 DEF Asked
<1>9. QED
  BY <1>1, <1>2, <1>3, <1>4, <1>5, <1>7, <1>8 DEF Moves

LEMMA TargetStep ==
  ASSUME TypeOK, TargetInv, [Next]_vars
  PROVE  TargetInv'
<1>1. TypeOK' /\ deleted \in Marks
  BY TypeStep DEF TypeOK, deleted
<1> SUFFICES ASSUME NEW q \in Procs PROVE Asked(req'[q]) /\ OnRecord(req'[q], deleted')
  BY DEF TargetInv, Asked, OnRecord, MayDelete, Names
<1>2. req[q] \in Requests /\ req'[q] \in Requests /\ Asked(req[q]) /\ OnRecord(req[q], deleted)
  BY <1>1 DEF TypeOK, Requests, TargetInv
<1>3. CASE ~Restart /\ OnRecord(req'[q], deleted)
  <2>1. ASSUME req'[q].op = "delete" PROVE req'[q].coord \in Coordinates /\ req'[q].at \in Times
    BY <1>2, <2>1, AtCall DEF Deleting
  <2>2. OnRecord(req'[q], deleted')
    BY <1>3, <2>1, RecordKept DEF OnRecord
  <2>3. CASE req'[q] = req[q]
    BY <1>2, <2>2, <2>3
  <2>4. CASE Moves(q, req[q], req'[q])
    BY <1>2, <2>2, <2>4, AskedStep
  <2>5. QED
    BY <2>3, <2>4, ReqMoves
<1>4. CASE Restart
  BY <1>4 DEF Restart, Idle, Asked, OnRecord
<1>5. CASE Moves(q, req[q], req'[q]) /\ ~OnRecord(req'[q], deleted)
  <2>1. req'[q].op = "delete" /\ req'[q].pc # "outcome" /\ AcceptedKind(req'[q].coord.kind)
    BY <1>5 DEF OnRecord
  <2>2. CASE /\ Continues(req[q], req'[q]) /\ MayDelete(req[q]) /\ req'[q].pc = "open"
             /\ deleted' = Recorded(req[q].coord, req[q].at)
    <3>1. /\ req[q].coord \in Coordinates /\ req[q].at \in Times
          /\ req'[q].coord = req[q].coord /\ req'[q].at = req[q].at
          /\ req'[q].by = req[q].by
      BY <1>2, <2>1, <2>2, AtCall DEF Continues, Deleting
    <3>2. OnRecord(req'[q], deleted')
      BY <1>1, <2>2, <3>1, RelayAssumption DEF OnRecord, Recorded, Marks, Times
    <3>3. Asked(req'[q])
      BY <1>2, <2>1, <2>2, <3>1 DEF Asked, Continues, Names, MayDelete
    <3>4. QED
      BY <3>2, <3>3
  <2>3. CASE /\ Continues(req[q], req'[q]) /\ req[q].pc \in {"open", "write"}
    <3>1. OnRecord(req'[q], deleted)
      BY <1>2, <2>3 DEF OnRecord, Continues
    <3>2. QED
      BY <1>5, <3>1
  <2>4. QED
    BY <1>5, <2>1, <2>2, <2>3
    DEF Moves, Idle, Publishing, Offering, Moderating, Continues
<1>6. QED
  BY <1>2, <1>3, <1>4, <1>5, ReqMoves

LEMMA TargetsKnown == Spec => []TargetInv
<1>1. Init => TargetInv
  BY DEF Init, TargetInv, Asked, OnRecord, Idle
<1>2. TypeOK /\ TargetInv /\ [Next]_vars => TargetInv'
  BY TargetStep
<1>3. QED
  BY <1>1, <1>2, TypeCorrect, PTL DEF Spec

\* What a request erases is what its query asked for, and a deletion's is its
\* author's own.
LEMMA Erased ==
  ASSUME TypeOK, TargetInv, NEW p \in Procs, Erase(p), NEW e \in store, e \notin store'
  PROVE  /\ req[p] \in Deleting \union Moderating
         /\ Names(req[p], e)
         /\ req[p].op \in {"delete", "ban"}
         /\ req[p].op = "delete" => MayDelete(req[p])
<1>1. req[p].pc = "erase" /\ e \in req[p].target
  BY DEF Erase, At
<1>2. QED
  BY <1>1, AtCall DEF TargetInv, Asked, TypeOK, Requests

\* Nothing leaves the store but for a newer version, a ban of its address, or a
\* deletion by its author that names it or is not older than it.
THEOREM RemovalsJustified == Spec => RemovalJustified
<1>1. ASSUME TypeOK, TargetInv, [Next]_vars, NEW e \in store \ store'
      PROVE  \/ \E new \in store' : new.coord = e.coord /\ new.at > e.at
             \/ \E p \in Procs : Erase(p) /\ Entitles(req[p], e)
  <2>1. ASSUME NEW p \in Procs, Save(p), req[p] \in Publishing
        PROVE  \E new \in store' : new.coord = e.coord /\ new.at > e.at
    <3> DEFINE new == req[p].event
    <3>1. new.at \in Nat /\ e.at \in Nat
      BY <1>1, <2>1 DEF Publishing, Events, Times, TypeOK
    <3>2. ~ \E old \in store : old.coord = new.coord /\ old.at >= new.at
      BY <1>1, <2>1 DEF Save, ReplaceEvent
    <3>3. store' = {old \in store : old.coord # new.coord} \union {new}
      BY <2>1, <3>2 DEF Save, ReplaceEvent
    <3>4. new \in store' /\ e.coord = new.coord
      BY <1>1, <3>3
    <3>5. QED
      BY <1>1, <3>1, <3>2, <3>4
  <2>2. ASSUME NEW p \in Procs, Erase(p) PROVE Entitles(req[p], e)
    BY <1>1, <2>2, Erased DEF Names, MayDelete, Entitles
  <2>3. QED
    BY <1>1, <2>1, <2>2, StoreMoves
<1>2. TypeOK /\ TargetInv /\ [Next]_vars =>
        [\A e \in store \ store' :
           \/ \E new \in store' : new.coord = e.coord /\ new.at > e.at
           \/ \E p \in Procs : Erase(p) /\ Entitles(req[p], e)]_vars
  BY <1>1
<1>3. QED
  BY <1>2, TypeCorrect, TargetsKnown, PTL DEF Spec, RemovalJustified

\* A deletion by coordinate erases only versions the record already bars.
THEOREM RecordedFirst == Spec => RecordedBeforeErased
<1>1. ASSUME TypeOK, TargetInv, NEW p \in Procs, Erase(p), req[p].op = "delete",
             req[p].named = NoName, NEW e \in store \ store'
      PROVE  /\ e.at <= req[p].at
             /\ AcceptedKind(e.coord.kind) => e.at <= deleted[e.coord]
  <2>1. Names(req[p], e)
    BY <1>1, Erased
  <2>2. req[p] \in Deleting
    BY <1>1, AtCall DEF TypeOK, Requests
  <2>3. e.coord = req[p].coord /\ e.at <= req[p].at
    BY <1>1, <2>1 DEF Names
  <2>4. AcceptedKind(e.coord.kind) => req[p].at <= deleted[e.coord]
    BY <1>1, <2>3 DEF Erase, At, TargetInv, OnRecord
  <2>5. req[p].coord \in Coordinates /\ req[p].at \in Nat /\ e.at \in Nat
    BY <1>1, <2>2 DEF Deleting, Events, Times, TypeOK
  <2>6. deleted[e.coord] \in Nat
    BY <1>1, <2>3, <2>5, RelayAssumption DEF TypeOK, Marks, deleted
  <2>7. QED
    BY <2>3, <2>4, <2>5, <2>6
<1>2. TypeOK /\ TargetInv /\ [Next]_vars =>
        [\A p \in Procs :
           Erase(p) /\ req[p].op = "delete" /\ req[p].named = NoName =>
             \A e \in store \ store' :
               /\ e.at <= req[p].at
               /\ AcceptedKind(e.coord.kind) => e.at <= deleted[e.coord]]_vars
  BY <1>1
<1>3. QED
  BY <1>2, TypeCorrect, TargetsKnown, PTL DEF Spec, RecordedBeforeErased
-----------------------------------------------------------------------------
(* The relay implements Takedown.                                          *)

goneBar == {e \in Events : DeletedUpTo(e.coord, e.at)}
downBar == {c \in Coordinates : TakenDown(c)}
doubtBar == {g \in {"bans", "deletions"} : InDoubt(g)}

\* What every step does to what is deleted and what is taken down.
LEMMA BarsKept ==
  ASSUME TypeOK, SaveInv, [Next]_vars
  PROVE  /\ \/ goneBar \subseteq goneBar'
            \/ Restart /\ "deletions" \in doubtBar
         /\ \A c \in downBar : \/ c \in downBar'
                               \/ \E p \in Procs : Unban(p, c)
                               \/ Restart /\ "bans" \in doubtBar
         /\ Promise!Clean'
<1>1. \/ goneBar \subseteq goneBar'
      \/ Restart /\ "deletions" \in doubtBar
  BY DeletedKept DEF goneBar, doubtBar, Events
<1>2. \A c \in downBar : \/ c \in downBar'
                         \/ \E p \in Procs : Unban(p, c)
                         \/ Restart /\ "bans" \in doubtBar
  BY TakenDownKept DEF downBar, doubtBar
<1>3. Promise!Clean'
  <2>1. SUFFICES ASSUME NEW e \in store'
                 PROVE  /\ ~DeletedUpTo(e.coord, e.at)'
                        /\ ~TakenDown(e.coord)'
    BY DEF Promise!Clean, Promise!Barred
  <2>2. e \in Events /\ ~(e.at > e.at)
    BY PassedType DEF Events, Times
  <2>3. QED
    BY <2>2 DEF DeletedUpTo, TakenDown
<1>4. QED
  BY <1>1, <1>2, <1>3

\* An event that replaces older versions of its address is one Put: it is past the
\* policy, so nothing that counts as a bar is against it.
LEMMA PutStep ==
  ASSUME TypeOK, SaveInv, [Next]_vars, NEW p \in Procs, Save(p), store' # store
  PROVE  \E e \in Promise!Versions : Promise!Put(e)
<1> DEFINE e == req[p].event
<1>1. req[p] \in Publishing /\ req[p].pc = "save"
  BY AtCall DEF Save, At, TypeOK, Requests
<1>2. e \in Events /\ e \in Promise!Versions /\ e.coord \in Coordinates
  BY <1>1 DEF Publishing, Events, Promise!Versions
<1>3. /\ ~ \E old \in store : old.coord = e.coord /\ old.at >= e.at
      /\ store' = {old \in store : old.coord # e.coord} \union {e}
      /\ UNCHANGED registries
  BY DEF Save, ReplaceEvent
<1>4. \A old \in store : old.coord = e.coord => old.at < e.at
  BY <1>2, <1>3 DEF TypeOK, Events, Times
<1>5. e \in Passed
  BY <1>1 DEF Passed, At
<1>6. e \notin goneBar /\ e.coord \notin downBar
  <2>1. ~(e.at > e.at)
    BY <1>2 DEF Events, Times
  <2>2. QED
    BY <1>2, <1>5, <2>1 DEF goneBar, downBar, DeletedUpTo, TakenDown
<1>7. banned' = banned /\ ~Restart
  BY <1>1, <1>3 DEF banned, registries, Restart
<1>8. downBar' = downBar
  <2>1. \A c \in downBar, q \in Procs : ~Unban(q, c)
    BY <1>7, UnbanSets DEF downBar, TakenDown
  <2>2. ASSUME NEW c \in downBar' PROVE c \in downBar
    <3>1. c \in Coordinates /\ c \in banned
      BY <1>7 DEF downBar, TakenDown
    <3>2. c # e.coord
      BY <1>3 DEF downBar, TakenDown
    <3>3. ASSUME NEW f \in store, f.coord = c PROVE FALSE
      BY <1>3, <3>2, <3>3 DEF downBar, TakenDown
    <3>4. ASSUME NEW q \in Procs, req[q].pc = "save", req[q].event.coord = c PROVE FALSE
      <4>1. q # p
        BY <3>2, <3>4
      <4>2. req'[q] = req[q]
        BY <4>1 DEF Save, Done, TypeOK
      <4>3. req'[q].event \in Passed'
        BY <3>4, <4>2 DEF Passed, At
      <4>4. QED
        BY <3>4, <4>2, <4>3 DEF downBar, TakenDown
    <3>5. QED
      BY <3>1, <3>3, <3>4 DEF downBar, TakenDown, Passed, At
  <2>3. QED
    BY <1>7, <2>1, <2>2, BarsKept
<1>9. Promise!Put(e)
  BY <1>3, <1>4, <1>6, <1>7, <1>8, BarsKept
  DEF Promise!Put, Promise!Others, Promise!Final, Promise!Barred, goneBar, downBar
<1>10. QED
  BY <1>2, <1>9

\* An erasure empties the one address its request names.
LEMMA WithdrawStep ==
  ASSUME TypeOK, SaveInv, TargetInv, [Next]_vars, NEW p \in Procs, Erase(p),
         store' # store
  PROVE  \E c \in Coordinates : Promise!Withdraw(c)
<1> DEFINE c == req[p].coord
<1>1. PICK e \in store : e \notin store'
  BY DEF Erase
<1>2. req[p] \in Deleting \union Moderating /\ Names(req[p], e)
  BY <1>1, Erased
<1>3. c \in Coordinates /\ e.coord = c
  BY <1>2 DEF Deleting, Moderating, Names
<1>4. store' = {old \in store : old.coord # c}
  <2>1. \A f \in store : f.coord = c => f = e
    BY <1>1, <1>3 DEF TypeOK
  <2>2. \A f \in store : f \notin store' => f.coord = c
    BY Erased DEF Names
  <2>3. store' \subseteq store
    BY DEF Erase
  <2>4. QED
    BY <1>1, <2>1, <2>2, <2>3
<1>5. banned' = banned /\ ~Restart
  BY <1>1 DEF Erase, banned, registries, Restart
<1>6. downBar \subseteq downBar'
  BY <1>5, BarsKept, UnbanSets DEF downBar, TakenDown
<1>7. Promise!Withdraw(c)
  BY <1>4, <1>5, <1>6, BarsKept
  DEF Promise!Withdraw, Promise!Others, Promise!Final, goneBar, downBar
<1>8. QED
  BY <1>3, <1>7

\* Every step that leaves the store alone puts bars into force, lifts one, or is a
\* crash.
LEMMA SettleStep ==
  ASSUME TypeOK, SaveInv, [Next]_vars, store' = store
  PROVE  \/ Promise!Settle \/ Promise!Crash
         \/ \E c \in Coordinates : Promise!Lift(c)
<1>1. CASE Restart
  <2>1. doubtBar' = {}
    BY <1>1 DEF Restart, doubtBar, InDoubt, Saving, Idle
  <2>2. "bans" \in doubtBar \/ downBar \subseteq downBar'
    <3>1. ASSUME NEW p \in Procs, NEW c \in downBar, Unban(p, c) PROVE banned' # banned
      BY <3>1, UnbanSets DEF downBar, TakenDown
    <3>2. InDoubt("bans") \/ banned' = banned
      BY <1>1, Restarted
    <3>3. QED
      BY <3>1, <3>2, BarsKept DEF doubtBar
  <2>3. Promise!Crash
    BY <2>1, <2>2, BarsKept DEF Promise!Crash, goneBar, downBar, doubtBar
  <2>4. QED
    BY <2>3
<1>2. CASE ~Restart /\ downBar \subseteq downBar'
  <2>1. Promise!Settle
    BY <1>2, BarsKept DEF Promise!Settle, Promise!Final, goneBar, downBar
  <2>2. QED
    BY <2>1
<1>3. CASE ~Restart /\ ~(downBar \subseteq downBar')
  <2>1. PICK c \in downBar, p \in Procs : Unban(p, c)
    BY <1>3, BarsKept
  <2>2. c \in Coordinates /\ banned' = banned \ {c} /\ c \notin downBar'
    BY <2>1, UnbanSets DEF downBar, TakenDown
  <2>3. ASSUME NEW d \in downBar, d # c, NEW q \in Procs PROVE ~Unban(q, d)
    BY <2>2, <2>3, UnbanSets DEF downBar, TakenDown
  <2>4. downBar \ {c} \subseteq downBar'
    BY <1>3, <2>3, BarsKept
  <2>5. Promise!Lift(c)
    BY <1>3, <2>2, <2>4, BarsKept DEF Promise!Lift, Promise!Final, goneBar, downBar
  <2>6. QED
    BY <2>2, <2>5
<1>4. QED
  BY <1>1, <1>2, <1>3

\* The relay keeps the promise of Takedown: seen as what it holds, what was
\* deleted for good, what is taken down and what a crash may forget, every step of
\* every process, every failing or overlapping save and every crash is one of its
\* steps.
THEOREM RefinesTakedown == Spec => ImplementsTakedown
<1>1. Init => Promise!Init
  <2> SUFFICES ASSUME Init PROVE Promise!Init
    OBVIOUS
  <2>1. ASSUME NEW e \in Events PROVE ~DeletedUpTo(e.coord, e.at)
    <3>1. e.coord \in Coordinates /\ e.at \in Nat \ {0} /\ deleted[e.coord] = 0
      BY DEF Events, Times, Init, Empty, deleted
    <3>2. QED
      BY <3>1 DEF DeletedUpTo
  <2>2. \A c : ~TakenDown(c)
    BY DEF Init, TakenDown, banned, Empty
  <2>3. \A g : ~InDoubt(g)
    BY DEF Init, InDoubt, Saving, Idle
  <2>4. QED
    BY <2>1, <2>2, <2>3 DEF Init, Promise!Init
<1>2. TypeOK /\ SaveInv /\ TargetInv /\ [Next]_vars => [Promise!Next]_(Promise!vars)
  <2> SUFFICES ASSUME TypeOK, SaveInv, TargetInv, [Next]_vars PROVE Promise!Next
    OBVIOUS
  <2>1. CASE store' = store
    BY <2>1, SettleStep DEF Promise!Next
  <2>2. CASE store' # store
    BY <2>2, StoreMoves, PutStep, WithdrawStep DEF Promise!Next
  <2>3. QED
    BY <2>1, <2>2
<1>3. QED
  BY <1>1, <1>2, TypeCorrect, SavesKnown, TargetsKnown, PTL
  DEF Spec, ImplementsTakedown, Promise!Spec
=============================================================================
