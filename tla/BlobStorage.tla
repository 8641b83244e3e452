----------------------------- MODULE BlobStorage -----------------------------
(***************************************************************************)
(* The storage interface over its two backends, internal/storage/disk.go    *)
(* and r2.go, seen through one blob: concurrent Store, Load, Stat, Has and  *)
(* Delete, one action per system call or request to the object store, so    *)
(* that what one operation resolves another may remove before it is used.   *)
(*                                                                         *)
(* A blob has one extension, which its content decides; a request may name  *)
(* it, another one, or none.  The names of a blob on disk are that of the   *)
(* stored blob, Final, and those of temporary files; a directory is read in *)
(* the order of names, in which Final comes first.  A bucket has only Final. *)
(***************************************************************************)
EXTENDS Naturals

CONSTANTS Procs,     \* operations in progress
          Temps,     \* what CreateTemp may put into a name
          Backends,  \* a subset of {"disk", "r2"}
          Crashes    \* may the process be killed?

ASSUME StorageAssumption ==
  /\ Temps \subseteq Nat \ {0}
  /\ Backends \subseteq {"disk", "r2"}
  /\ Crashes \in BOOLEAN

Final == 0
Names == {Final} \union Temps

VARIABLES
  backend,   \* which implementation the configuration chose
  files,     \* each name is "absent", "part" (being filled) or "whole"
  req,       \* each operation: what it does, the next call, the name resolved
  orphans    \* history: the temporary files that crashes left behind

vars == <<backend, files, req, orphans>>

NoReq == [op |-> "none", asked |-> "none", pc |-> "done", name |-> Final,
          answer |-> "none", blind |-> FALSE, here |-> FALSE, gone |-> FALSE]

Exists(n) == files[n] # "absent"

Init ==
  /\ backend \in Backends
  /\ files = [n \in Names |-> "absent"]
  /\ req = [p \in Procs |-> NoReq]
  /\ orphans = {}

-----------------------------------------------------------------------------
\* Every operation in progress remembers whether, since it began, the blob has
\* been stored (here) and has not been (gone): an answer is right if it was so at
\* a moment of its operation.  A store has no answer to be right.
Saw(r, stored) ==
  IF r.op = "store" THEN r
  ELSE [r EXCEPT !.here = @ \/ stored, !.gone = @ \/ ~stored]

\* p makes a call that leaves the files as newFiles and p at r.
Become(newFiles, p, r) ==
  LET stored == newFiles[Final] # "absent" IN
  /\ files' = newFiles
  /\ req' = [q \in Procs |->
              CASE q = p /\ r = NoReq -> NoReq
                [] q = p /\ r # NoReq -> Saw(r, stored)
                [] q # p /\ req[q].pc = "done" -> req[q]
                [] OTHER -> Saw(req[q], stored)]
  /\ UNCHANGED backend

Set(n, state) == [files EXCEPT ![n] = state]

GoTo(p, label) == [req[p] EXCEPT !.pc = label]

\* A store has returned, or an operation has failed: it answers nothing.
Return == NoReq

Answer(p, what) == [req[p] EXCEPT !.pc = "done", !.answer = what,
                                  !.op = "none", !.asked = "none"]

At(p, b, label) == backend = b /\ req[p].pc = label

\* pathFor and keyFor look for the exact key first when an extension is given.
Begin(p, op, asked) ==
  /\ req[p].pc = "done"
  /\ Become(files, p, [NoReq EXCEPT !.op = op, !.asked = asked,
       !.pc = CASE op = "store" -> IF backend = "disk" THEN "create" ELSE "put"
                [] op # "store" /\ asked = "none" -> "scan"
                [] OTHER -> "exact"])
  /\ UNCHANGED orphans

-----------------------------------------------------------------------------
(* Disk.Store.                                                              *)

\* os.CreateTemp tries random names until it creates one that is new.
CreateTemp(p) ==
  /\ At(p, "disk", "create")
  /\ \E t \in Temps :
       /\ ~Exists(t)
       /\ \A q \in Procs : req[q].name # t
       /\ Become(Set(t, "part"), p, [req[p] EXCEPT !.name = t, !.pc = "copy"])
       /\ orphans' = orphans \ {t}

\* io.Copy and Close; writing goes on if the name has been removed.
Copy(p) ==
  /\ At(p, "disk", "copy")
  /\ Become(IF Exists(req[p].name) THEN Set(req[p].name, "whole") ELSE files,
            p, GoTo(p, "rename"))
  /\ UNCHANGED orphans

CopyFailsKeepingTemp(p) ==   \* mutant of CopyFails
  /\ At(p, "disk", "copy")
  /\ Become(files, p, Return)
  /\ UNCHANGED orphans

\* The deferred os.Remove takes the temporary file away.
CopyFails(p) ==
  /\ At(p, "disk", "copy")
  /\ Become(Set(req[p].name, "absent"), p, Return)
  /\ UNCHANGED orphans

RenameEarly(p) ==   \* mutant of Rename
  /\ backend = "disk" /\ req[p].pc \in {"copy", "rename"}
  /\ IF Exists(req[p].name)
     THEN Become([Set(req[p].name, "absent") EXCEPT ![Final] = files[req[p].name]],
                 p, Return)
     ELSE Become(files, p, Return)
  /\ UNCHANGED orphans

\* os.Rename replaces a blob stored before; a temporary file that somebody has
\* deleted cannot be renamed.
Rename(p) ==
  /\ At(p, "disk", "rename")
  /\ IF Exists(req[p].name)
     THEN Become([Set(req[p].name, "absent") EXCEPT ![Final] = files[req[p].name]],
                 p, Return)
     ELSE Become(files, p, Return)
  /\ UNCHANGED orphans

(* R2.Store: an object appears whole or, where it fails, not at all; the     *)
(* answer may be lost either way.                                          *)
Put(p) ==
  /\ At(p, "r2", "put")
  /\ Become(Set(Final, "whole"), p, Return)
  /\ UNCHANGED orphans

-----------------------------------------------------------------------------
(* Resolution, the same on both backends but for what a scan sees and what  *)
(* becomes of its failure.                                                  *)

\* From here on the extension asked for no longer matters.
Found(p, n) ==
  IF req[p].op = "has" THEN [Answer(p, "found") EXCEPT !.name = n]
  ELSE [req[p] EXCEPT !.name = n, !.asked = "none", !.pc = "act"]

\* Stat of the key with the extension asked for; when it is not there, one
\* extension is as good as another.
Exact(p) ==
  /\ req[p].pc = "exact"
  /\ Become(files, p, IF req[p].asked = "own" /\ Exists(Final)
                   THEN Found(p, Final)
                   ELSE [GoTo(p, "scan") EXCEPT !.asked = "other"])
  /\ UNCHANGED orphans

\* Has and Load report an absent blob, Delete has nothing to do.
Absent(p) == Answer(p, IF req[p].op = "delete" THEN "deleted" ELSE "absent")

FirstTemp(n) == Exists(n) /\ \A k \in Names \ {n} : Exists(k) => n > k   \* mutant of First

\* The first name in the directory that is the hash or begins with "<hash>.".
First(n) == Exists(n) /\ \A k \in Names : Exists(k) => n <= k

Scan(p) ==
  /\ req[p].pc = "scan"
  /\ \/ \E n \in Names : First(n) /\ Become(files, p, Found(p, n))
     \/ (\A n \in Names : ~Exists(n)) /\ Become(files, p, Absent(p))
  /\ UNCHANGED orphans

\* keyFor: a listing that fails after the exact key was not found counts as
\* not found; for a bare hash its error is returned.
ListingFails(p) ==
  /\ At(p, "r2", "scan") /\ req[p].asked # "none"
  /\ Become(files, p, [Absent(p) EXCEPT !.blind = TRUE])
  /\ UNCHANGED orphans

\* Open, Stat or Remove what was resolved, which may be gone by now.  R2.Load
\* only makes a lazy reader of the key.
Use(p) ==
  /\ req[p].pc = "act"
  /\ CASE req[p].op = "delete" -> Become(Set(req[p].name, "absent"), p, Answer(p, "deleted"))
       [] req[p].op = "load" /\ backend = "r2" -> Become(files, p, Answer(p, "found"))
       [] OTHER -> Become(files, p, IF Exists(req[p].name) THEN Answer(p, "found")
                                                        ELSE Absent(p))
  /\ UNCHANGED orphans

\* R2.Delete takes effect and its answer is lost.
DeleteUnacked(p) ==
  /\ At(p, "r2", "act") /\ req[p].op = "delete"
  /\ Become(Set(Final, "absent"), p, Return)
  /\ UNCHANGED orphans

\* A call that fails without effect ends the operation: the circuit is open,
\* the network or the file system refuses.  A failing Store removes its
\* temporary file (CopyFails), a failing rename likewise.
Fail(p) ==
  /\ req[p].pc \in {"create", "put", "rename", "exact", "scan", "act"}
  /\ Become(IF req[p].pc = "rename" THEN Set(req[p].name, "absent") ELSE files,
            p, Return)
  /\ UNCHANGED orphans

\* Files outlive the process, temporary ones included.
Restart ==
  /\ Crashes
  /\ req' = [p \in Procs |-> NoReq]
  /\ orphans' = {t \in Temps : Exists(t)}
  /\ UNCHANGED <<backend, files>>

Step(p) == \/ CreateTemp(p) \/ Copy(p) \/ CopyFails(p) \/ Rename(p) \/ Put(p)
           \/ Exact(p) \/ Scan(p) \/ ListingFails(p) \/ Use(p)
           \/ DeleteUnacked(p) \/ Fail(p)

Next ==
  \/ \E p \in Procs : Begin(p, "store", "own")
  \/ \E p \in Procs, op \in {"load", "stat", "has", "delete"},
        asked \in {"own", "other", "none"} : Begin(p, op, asked)
  \/ \E p \in Procs : Step(p)
  \/ Restart

Spec == Init /\ [][Next]_vars
-----------------------------------------------------------------------------
Requests == [op : {"none", "store", "load", "stat", "has", "delete"},
             asked : {"own", "other", "none"},
             pc : {"create", "copy", "rename", "put", "exact", "scan", "act", "done"},
             name : Names, answer : {"none", "found", "absent", "deleted"},
             blind : BOOLEAN, here : BOOLEAN, gone : BOOLEAN]

TypeOK ==
  /\ backend \in Backends
  /\ files \in [Names -> {"absent", "part", "whole"}]
  /\ req \in [Procs -> Requests]
  /\ orphans \subseteq Temps

\* List reports every name without ".tmp".
Listing == {n \in Names : Exists(n) /\ n = Final}

\* "Writes are atomic" (disk.go:17): what a listing reports, and what a
\* resolved name of a stored blob holds, is a whole blob, whoever else stores,
\* fails or is killed.
ListingWhole == \A n \in Listing : files[n] = "whole"

\* A temporary file belongs to a store in progress, or a crash left it: no
\* failing path of Disk.Store leaves one.
NoTempLeaks ==
  \A t \in Temps \ orphans : Exists(t) =>
    \E p \in Procs : req[p].name = t /\ req[p].pc \in {"copy", "rename"}

\* What Has, Load, Stat and Delete answer was so at some moment of the
\* operation: absent or deleted, there was no stored blob; found, there was, or
\* on disk it was a temporary file, which is only resolved while there was no
\* stored blob.  A listing that failed unnoticed (ListingFails) is excepted.
AnswersHold ==
  \A p \in Procs :
    /\ req[p].answer \in {"absent", "deleted"} => req[p].gone \/ req[p].blind
    /\ req[p].answer = "found" =>
         IF req[p].name = Final THEN req[p].here ELSE req[p].gone

\* "Writes are atomic (temp file + rename)" (disk.go:17): nothing is found of a
\* blob that was at no moment stored.
NeverFoundUnstored ==
  \A p \in Procs : req[p].answer = "found" => req[p].here
=============================================================================
