-------------------------- MODULE BlobStorage_proof --------------------------
(***************************************************************************)
(* Proofs about the storage backends, for any number of operations and of    *)
(* temporary names, on disk and on R2.                                       *)
(***************************************************************************)
EXTENDS BlobStorage, TLAPS

States == {"absent", "part", "whole"}

\* A temporary file is never taken for the stored blob, and comes after it.
LEMMA TempNames == Final \in Names /\ \A t \in Temps : t \in Names /\ t # Final
BY StorageAssumption DEF Names, Final

\* What an operation has resolved and answered agrees with what it saw; a store
\* resolves and answers nothing.
Sound(r) ==
  /\ r.answer # "none" => r.pc = "done"
  /\ r.pc \in {"exact", "scan", "act"} => r.op # "store"
  /\ r.pc = "act" \/ r.answer = "found" => IF r.name = Final THEN r.here ELSE r.gone
  /\ r.answer \in {"absent", "deleted"} => r.gone \/ r.blind

AllSound == \A p \in Procs : Sound(req[p])

\* Between its creation and its rename a temporary file belongs to one store.
Writing(p) == req[p].pc \in {"copy", "rename"}

Owned ==
  /\ files[Final] # "part"
  /\ \A p \in Procs : Writing(p) => req[p].name \in Temps
  /\ \A p \in Procs : req[p].pc = "rename" => files[req[p].name] # "part"
  /\ \A p, q \in Procs : Writing(p) /\ Writing(q) /\ p # q => req[p].name # req[q].name
  /\ NoTempLeaks
-----------------------------------------------------------------------------
\* What others see keeps an operation's type, place and name, and its answers.
LEMMA SawKeeps ==
  ASSUME NEW r \in Requests, NEW b \in BOOLEAN
  PROVE  /\ Saw(r, b) \in Requests
         /\ Saw(r, b).pc = r.pc /\ Saw(r, b).name = r.name
         /\ Sound(r) => Sound(Saw(r, b))
<1>1. CASE r.op = "store"
  BY <1>1 DEF Saw
<1>2. CASE r.op # "store"
  <2> DEFINE s == [r EXCEPT !.here = @ \/ b, !.gone = @ \/ ~b]
  <2>1. Saw(r, b) = s
    BY <1>2 DEF Saw
  <2>2. (r.here \/ b) \in BOOLEAN /\ (r.gone \/ ~b) \in BOOLEAN
    BY DEF Requests
  <2>3. s \in Requests
    BY <2>2 DEF Requests
  <2>4. /\ s.op = r.op /\ s.pc = r.pc /\ s.name = r.name
        /\ s.answer = r.answer /\ s.blind = r.blind
        /\ s.here = (r.here \/ b) /\ s.gone = (r.gone \/ ~b)
    BY DEF Requests
  <2>5. Sound(r) => Sound(s)
    BY <2>4 DEF Sound
  <2>6. QED
    BY <2>1, <2>3, <2>4, <2>5
<1>3. QED
  BY <1>1, <1>2

\* No operation at all has the type of one and is sound.
LEMMA NoReqType ==
  /\ NoReq \in Requests /\ Sound(NoReq)
  /\ \A b \in BOOLEAN : Sound(Saw(NoReq, b))
<1>1. NoReq \in Requests
  BY TempNames DEF NoReq, Requests
<1>2. Sound(NoReq)
  BY DEF NoReq, Sound
<1>3. QED
  BY <1>1, <1>2, SawKeeps

\* A call of p moves p and nobody else, and keeps everybody sound if it leaves p
\* at a sound place.
LEMMA BecomeKeeps ==
  ASSUME TypeOK, AllSound, NEW p \in Procs, NEW f \in [Names -> States],
         NEW r \in Requests, Become(f, p, r), Sound(Saw(r, f[Final] # "absent"))
  PROVE  /\ files' = f /\ backend' = backend
         /\ req' \in [Procs -> Requests] /\ AllSound'
         /\ req'[p].pc = r.pc /\ req'[p].name = r.name
         /\ \A q \in Procs \ {p} : req'[q].pc = req[q].pc /\ req'[q].name = req[q].name
<1> DEFINE stored == f[Final] # "absent"
<1>1. files' = f /\ backend' = backend
  BY DEF Become
<1>2. req' = [q \in Procs |->
               CASE q = p /\ r = NoReq -> NoReq
                 [] q = p /\ r # NoReq -> Saw(r, stored)
                 [] q # p /\ req[q].pc = "done" -> req[q]
                 [] OTHER -> Saw(req[q], stored)]
  BY DEF Become
<1>3. stored \in BOOLEAN
  OBVIOUS
<1>4. /\ req'[p] \in Requests /\ Sound(req'[p])
      /\ req'[p].pc = r.pc /\ req'[p].name = r.name
  <2>1. CASE r = NoReq
    <3>1. req'[p] = NoReq
      BY <1>2, <2>1
    <3>2. QED
      BY <2>1, <3>1, NoReqType
  <2>2. CASE r # NoReq
    <3>1. req'[p] = Saw(r, stored)
      BY <1>2, <2>2
    <3>2. QED
      BY <1>3, <3>1, SawKeeps
  <2>3. QED
    BY <2>1, <2>2
<1>5. ASSUME NEW q \in Procs \ {p}
      PROVE  /\ req'[q] \in Requests /\ Sound(req'[q])
             /\ req'[q].pc = req[q].pc /\ req'[q].name = req[q].name
  <2>1. req[q] \in Requests /\ Sound(req[q])
    BY DEF TypeOK, AllSound
  <2>2. req'[q] = req[q] \/ req'[q] = Saw(req[q], stored)
    BY <1>2
  <2>3. QED
    BY <1>3, <2>1, <2>2, SawKeeps
<1>6. req' \in [Procs -> Requests]
  <2>1. \A q \in Procs : req'[q] \in Requests
    BY <1>4, <1>5
  <2>2. QED
    BY <1>2, <2>1
<1>7. AllSound'
  BY <1>4, <1>5 DEF AllSound
<1>8. QED
  BY <1>1, <1>4, <1>5, <1>6, <1>7
-----------------------------------------------------------------------------
\* Every call is one of a sound operation: what it finds or misses was there, or
\* missing, when it looked.
Calls(p, f, r) ==
  /\ f \in [Names -> States] /\ r \in Requests
  /\ Become(f, p, r)
  /\ Sound(Saw(r, f[Final] # "absent"))

\* Such a call outside the body of a store fills no temporary file and leaves no
\* part of the blob under its name.
Quiet(p, f, r) ==
  /\ Calls(p, f, r)
  /\ ~Writing(p) /\ r.pc \notin {"copy", "rename"}
  /\ \A n \in Names : \/ f[n] \in {files[n], "absent"}
                      \/ n = Final /\ f[n] = "whole"
  /\ orphans' = orphans

\* Files change their state one at a time.
LEMMA SetType ==
  ASSUME TypeOK, NEW n \in Names, NEW state \in States
  PROVE  /\ files \in [Names -> States] /\ Set(n, state) \in [Names -> States]
         /\ Set(n, state)[n] = state
         /\ \A k \in Names \ {n} : Set(n, state)[k] = files[k]
BY DEF TypeOK, Set, States

\* An operation that returns no answer.
LEMMA ReturnCalls ==
  ASSUME TypeOK, NEW p \in Procs, NEW f \in [Names -> States], Become(f, p, Return)
  PROVE  Calls(p, f, NoReq) /\ NoReq.pc = "done"
<1>1. Become(f, p, NoReq)
  BY DEF Return
<1>2. Sound(Saw(NoReq, f[Final] # "absent"))
  BY NoReqType
<1>3. QED
  BY <1>1, <1>2, NoReqType DEF Calls, NoReq

\* An answer leaves what the operation has resolved and seen as it is.
LEMMA AnswerType ==
  ASSUME TypeOK, NEW p \in Procs, NEW what \in {"found", "absent", "deleted"}
  PROVE  /\ Answer(p, what) \in Requests
         /\ Answer(p, what).pc = "done" /\ Answer(p, what).answer = what
         /\ Answer(p, what).op = "none" /\ Answer(p, what).name = req[p].name
         /\ Answer(p, what).blind = req[p].blind
         /\ Answer(p, what).here = req[p].here /\ Answer(p, what).gone = req[p].gone
<1>1. req[p] \in Requests
  BY DEF TypeOK
<1>2. QED
  BY <1>1 DEF Answer, Requests

\* Missing the blob is right when it is not stored, or was not before.
LEMMA AbsentCalls ==
  ASSUME TypeOK, NEW p \in Procs,
         files[Final] = "absent" \/ req[p].gone, Become(files, p, Absent(p))
  PROVE  Calls(p, files, Absent(p)) /\ Absent(p).pc = "done"
<1>1. PICK what \in {"deleted", "absent"} : Absent(p) = Answer(p, what)
  BY DEF Absent
<1>2. files \in [Names -> States]
  BY DEF TypeOK, States
<1> DEFINE r == Answer(p, what)
<1>3. /\ r \in Requests /\ r.pc = "done" /\ r.answer = what /\ r.op = "none"
      /\ r.gone = req[p].gone
  BY AnswerType
<1>4. Sound(Saw(r, files[Final] # "absent"))
  <2>1. CASE files[Final] = "absent"
    BY <1>3, <2>1 DEF Sound, Saw, Requests
  <2>2. CASE req[p].gone
    <3>1. Sound(r)
      BY <1>3, <2>2 DEF Sound
    <3>2. QED
      BY <1>3, <3>1, SawKeeps
  <2>3. QED
    BY <2>1, <2>2
<1>5. QED
  BY <1>1, <1>2, <1>3, <1>4 DEF Calls

\* Resolving a name is right when the blob is stored, or the name is that of a
\* temporary file and it is not.
LEMMA FoundCalls ==
  ASSUME TypeOK, AllSound, NEW p \in Procs, req[p].pc \in {"exact", "scan"}, NEW n \in Names,
         (n = Final) <=> (files[Final] # "absent"), Become(files, p, Found(p, n))
  PROVE  Calls(p, files, Found(p, n)) /\ Found(p, n).pc \in {"done", "act"}
<1>1. files \in [Names -> States] /\ req[p] \in Requests /\ req[p].op # "store"
  BY DEF TypeOK, States, AllSound, Sound
<1>2. req[p].answer = "none"
  BY DEF AllSound, Sound, TypeOK, Requests
<1>3. CASE req[p].op = "has"
  <2> DEFINE r == [Answer(p, "found") EXCEPT !.name = n]
  <2>1. Found(p, n) = r
    BY <1>3 DEF Found
  <2>2. r \in Requests /\ r.pc = "done" /\ r.answer = "found" /\ r.op = "none" /\ r.name = n
    BY AnswerType DEF Requests
  <2>3. Sound(Saw(r, files[Final] # "absent"))
    BY <2>2 DEF Sound, Saw, Requests
  <2>4. QED
    BY <1>1, <2>1, <2>2, <2>3 DEF Calls
<1>4. CASE req[p].op # "has"
  <2> DEFINE r == [req[p] EXCEPT !.name = n, !.asked = "none", !.pc = "act"]
  <2>1. Found(p, n) = r
    BY <1>4 DEF Found
  <2>2. /\ r \in Requests /\ r.pc = "act" /\ r.answer = "none" /\ r.name = n
        /\ r.op # "store"
    BY <1>1, <1>2 DEF Requests
  <2>3. Sound(Saw(r, files[Final] # "absent"))
    BY <2>2 DEF Sound, Saw, Requests
  <2>4. QED
    BY <1>1, <2>1, <2>2, <2>3 DEF Calls
<1>5. QED
  BY <1>3, <1>4

\* The beginning of an operation.
LEMMA BeginCalls ==
  ASSUME TypeOK, AllSound, NEW p \in Procs,
         NEW op \in {"store", "load", "stat", "has", "delete"},
         NEW asked \in {"own", "other", "none"}, Begin(p, op, asked)
  PROVE  \E r \in Requests : Calls(p, files, r) /\ r.pc \notin {"copy", "rename"}
<1> DEFINE label == CASE op = "store" -> IF backend = "disk" THEN "create" ELSE "put"
                      [] op # "store" /\ asked = "none" -> "scan"
                      [] OTHER -> "exact"
           r == [NoReq EXCEPT !.op = op, !.asked = asked, !.pc = label]
<1>1. /\ label \in {"create", "put", "scan", "exact"}
      /\ label \in {"scan", "exact"} => op # "store"
  OBVIOUS
<1> HIDE DEF label
<1>2. NoReq \in Requests /\ NoReq.answer = "none"
  BY NoReqType DEF NoReq
<1>3. r \in Requests /\ r.op = op /\ r.pc = label /\ r.answer = "none"
  BY <1>1, <1>2 DEF Requests
<1>4. Sound(Saw(r, files[Final] # "absent"))
  <2>1. Sound(r)
    BY <1>1, <1>3 DEF Sound
  <2>2. QED
    BY <1>3, <2>1, SawKeeps
<1>5. Become(files, p, r) /\ files \in [Names -> States]
  BY DEF Begin, TypeOK, States, label
<1>6. QED
  BY <1>1, <1>3, <1>4, <1>5 DEF Calls

\* First finds a temporary file only while the blob is not stored.
LEMMA FirstIsFinal ==
  ASSUME TypeOK, NEW n \in Names, First(n)
  PROVE  (n = Final) <=> (files[Final] # "absent")
BY TempNames, StorageAssumption DEF First, Exists, Names, Final

\* Resolving, using and answering, on either backend, and putting an object.
LEMMA QuietCalls ==
  ASSUME TypeOK, AllSound, NEW p \in Procs,
         \/ Put(p) \/ Exact(p) \/ Scan(p) \/ ListingFails(p) \/ Use(p) \/ DeleteUnacked(p)
         \/ (Fail(p) /\ req[p].pc # "rename")
  PROVE  \E f \in [Names -> States], r \in Requests : Quiet(p, f, r)
<1> USE DEF Quiet
<1>1. /\ files \in [Names -> States] /\ req[p] \in Requests /\ Sound(req[p])
      /\ Final \in Names
  BY TempNames DEF TypeOK, States, AllSound
<1>2. CASE Put(p)
  <2> DEFINE f == Set(Final, "whole")
  <2>1. /\ f \in [Names -> States] /\ f[Final] = "whole"
        /\ \A n \in Names \ {Final} : f[n] = files[n]
    BY <1>1, SetType DEF States
  <2>2. Become(f, p, Return)
    BY <1>2 DEF Put
  <2>3. Calls(p, f, NoReq) /\ NoReq.pc = "done" /\ NoReq \in Requests
    BY <2>1, <2>2, ReturnCalls, NoReqType
  <2> HIDE DEF f
  <2>4. QED
    BY <1>2, <2>1, <2>3 DEF Put, At, Writing
<1>3. CASE Exact(p)
  <2>1. CASE req[p].asked = "own" /\ Exists(Final)
    <3>1. Calls(p, files, Found(p, Final)) /\ Found(p, Final).pc \in {"done", "act"}
      BY <1>1, <1>3, <2>1, FoundCalls DEF Exact, Exists
    <3>2. QED
      BY <1>1, <1>3, <3>1 DEF Calls, Exact, Writing
  <2>2. CASE ~(req[p].asked = "own" /\ Exists(Final))
    <3> DEFINE r == [GoTo(p, "scan") EXCEPT !.asked = "other"]
    <3>1. /\ r \in Requests /\ r.pc = "scan" /\ r.op = req[p].op
          /\ r.answer = req[p].answer
      BY <1>1 DEF GoTo, Requests
    <3>2. Sound(r)
      BY <1>1, <1>3, <3>1 DEF Sound, Exact
    <3>3. Become(files, p, r)
      BY <1>3, <2>2 DEF Exact
    <3>4. Calls(p, files, r)
      BY <1>1, <3>1, <3>2, <3>3, SawKeeps DEF Calls
    <3> HIDE DEF r
    <3>5. QED
      BY <1>1, <1>3, <3>1, <3>4 DEF Exact, Writing
  <2>3. QED
    BY <2>1, <2>2
<1>4. CASE Scan(p)
  <2>1. CASE \E n \in Names : First(n) /\ Become(files, p, Found(p, n))
    <3>1. PICK n \in Names : First(n) /\ Become(files, p, Found(p, n))
      BY <2>1
    <3>2. Calls(p, files, Found(p, n)) /\ Found(p, n).pc \in {"done", "act"}
      BY <1>4, <3>1, FirstIsFinal, FoundCalls DEF Scan
    <3>3. QED
      BY <1>1, <1>4, <3>2 DEF Calls, Scan, Writing
  <2>2. CASE (\A n \in Names : ~Exists(n)) /\ Become(files, p, Absent(p))
    <3>1. Calls(p, files, Absent(p)) /\ Absent(p).pc = "done"
      BY <1>1, <2>2, AbsentCalls DEF Exists
    <3>2. QED
      BY <1>1, <1>4, <3>1 DEF Calls, Scan, Writing
  <2>3. QED
    BY <1>4, <2>1, <2>2 DEF Scan
<1>5. CASE ListingFails(p)
  <2> DEFINE r == [Absent(p) EXCEPT !.blind = TRUE]
  <2>1. PICK what \in {"deleted", "absent"} : Absent(p) = Answer(p, what)
    BY DEF Absent
  <2>2. /\ r \in Requests /\ r.pc = "done" /\ r.answer \in {"deleted", "absent"}
        /\ r.blind
    <3>1. /\ Absent(p) \in Requests /\ Absent(p).pc = "done"
          /\ Absent(p).answer \in {"deleted", "absent"}
      BY <2>1, AnswerType
    <3>2. QED
      BY <3>1 DEF Requests
  <2>3. Sound(r)
    BY <2>2 DEF Sound
  <2>4. Become(files, p, r)
    BY <1>5 DEF ListingFails
  <2>5. Calls(p, files, r)
    BY <1>1, <2>2, <2>3, <2>4, SawKeeps DEF Calls
  <2> HIDE DEF r
  <2>6. QED
    BY <1>1, <1>5, <2>2, <2>5 DEF ListingFails, At, Writing
<1>6. CASE Use(p)
  <2>1. /\ req[p].pc = "act" /\ req[p].name \in Names /\ orphans' = orphans
        /\ IF req[p].name = Final THEN req[p].here ELSE req[p].gone
    BY <1>1, <1>6 DEF Use, Sound, Requests
  <2>2. CASE Become(files, p, Answer(p, "found"))
    <3>1. /\ Answer(p, "found") \in Requests /\ Answer(p, "found").pc = "done"
          /\ Sound(Answer(p, "found"))
      BY <2>1, AnswerType DEF Sound
    <3>2. Calls(p, files, Answer(p, "found"))
      BY <1>1, <2>2, <3>1, SawKeeps DEF Calls
    <3>3. QED
      BY <1>1, <2>1, <3>1, <3>2 DEF Writing
  <2>3. CASE ~Exists(req[p].name) /\ Become(files, p, Absent(p))
    <3>1. Calls(p, files, Absent(p)) /\ Absent(p).pc = "done"
      BY <2>1, <2>3, AbsentCalls DEF Exists
    <3>2. QED
      BY <1>1, <2>1, <3>1 DEF Calls, Writing
  <2>4. CASE Become(Set(req[p].name, "absent"), p, Answer(p, "deleted"))
    <3> DEFINE f == Set(req[p].name, "absent")
               r == Answer(p, "deleted")
    <3>1. /\ f \in [Names -> States] /\ f[req[p].name] = "absent"
          /\ \A n \in Names \ {req[p].name} : f[n] = files[n]
      BY <2>1, SetType DEF States
    <3>2. /\ r \in Requests /\ r.pc = "done" /\ r.answer = "deleted" /\ r.op = "none"
          /\ r.gone = req[p].gone
      BY AnswerType
    <3>3. Sound(Saw(r, f[Final] # "absent"))
      <4>1. CASE req[p].name = Final
        BY <3>1, <3>2, <4>1 DEF Sound, Saw, Requests
      <4>2. CASE req[p].name # Final
        <5>1. Sound(r)
          BY <2>1, <3>2, <4>2 DEF Sound
        <5>2. QED
          BY <3>2, <5>1, SawKeeps
      <4>3. QED
        BY <4>1, <4>2
    <3>4. Calls(p, f, r)
      BY <2>4, <3>1, <3>2, <3>3 DEF Calls
    <3> HIDE DEF f, r
    <3>5. QED
      BY <2>1, <3>1, <3>2, <3>4 DEF Writing
  <2>5. QED
    BY <1>6, <2>2, <2>3, <2>4 DEF Use
<1>7. CASE DeleteUnacked(p)
  <2> DEFINE f == Set(Final, "absent")
  <2>1. /\ f \in [Names -> States] /\ f[Final] = "absent"
        /\ \A n \in Names \ {Final} : f[n] = files[n]
    BY <1>1, SetType DEF States
  <2>2. Become(f, p, Return)
    BY <1>7 DEF DeleteUnacked
  <2>3. Calls(p, f, NoReq) /\ NoReq.pc = "done" /\ NoReq \in Requests
    BY <2>1, <2>2, ReturnCalls, NoReqType
  <2> HIDE DEF f
  <2>4. QED
    BY <1>7, <2>1, <2>3 DEF DeleteUnacked, At, Writing
<1>8. CASE Fail(p) /\ req[p].pc # "rename"
  <2>1. Become(files, p, Return)
    BY <1>8 DEF Fail
  <2>2. Calls(p, files, NoReq) /\ NoReq.pc = "done" /\ NoReq \in Requests
    BY <1>1, <2>1, ReturnCalls, NoReqType
  <2>3. QED
    BY <1>1, <1>8, <2>2 DEF Fail, Writing
<1>9. QED
  BY <1>2, <1>3, <1>4, <1>5, <1>6, <1>7, <1>8
-----------------------------------------------------------------------------
\* The invariant the theorems rest on.
IInv == TypeOK /\ AllSound /\ Owned

\* What a call leaves of the types.
LEMMA CallsKeep ==
  ASSUME IInv, NEW p \in Procs, NEW f \in [Names -> States], NEW r \in Requests,
         Calls(p, f, r), orphans' \subseteq Temps
  PROVE  /\ TypeOK' /\ AllSound' /\ files' = f
         /\ req'[p].pc = r.pc /\ req'[p].name = r.name
         /\ \A q \in Procs \ {p} : req'[q].pc = req[q].pc /\ req'[q].name = req[q].name
<1>1. /\ files' = f /\ backend' = backend
      /\ req' \in [Procs -> Requests] /\ AllSound'
      /\ req'[p].pc = r.pc /\ req'[p].name = r.name
      /\ \A q \in Procs \ {p} : req'[q].pc = req[q].pc /\ req'[q].name = req[q].name
  BY BecomeKeeps DEF IInv, Calls
<1>2. TypeOK'
  BY <1>1 DEF IInv, TypeOK, States
<1>3. QED
  BY <1>1, <1>2

\* Who is not writing leaves the temporary files to their stores, or removes them.
LEMMA QuietKeeps ==
  ASSUME IInv, NEW p \in Procs, NEW f \in [Names -> States], NEW r \in Requests,
         Quiet(p, f, r)
  PROVE  IInv'
<1>1. Calls(p, f, r) /\ orphans' = orphans /\ orphans' \subseteq Temps
  BY DEF Quiet, IInv, TypeOK
<1>2. /\ TypeOK' /\ AllSound' /\ files' = f
      /\ req'[p].pc = r.pc /\ req'[p].name = r.name
      /\ \A q \in Procs \ {p} : req'[q].pc = req[q].pc /\ req'[q].name = req[q].name
  BY <1>1, CallsKeep
<1>3. \A q \in Procs : Writing(q)' <=> (Writing(q) /\ q # p)
  BY <1>2 DEF Quiet, Writing
<1>4. \A n \in Names : \/ files'[n] \in {files[n], "absent"}
                       \/ n = Final /\ files'[n] = "whole"
  BY <1>2 DEF Quiet
<1>5. files'[Final] # "part"
  BY <1>4, TempNames DEF IInv, Owned
<1>6. \A q \in Procs : Writing(q)' => q # p /\ Writing(q) /\ req'[q].name = req[q].name
  BY <1>2, <1>3
<1>7. \A q \in Procs : req'[q].pc = "rename" =>
        files'[req'[q].name] # "part"
  BY <1>2, <1>4, <1>6, TempNames DEF IInv, Owned, Writing
<1>8. NoTempLeaks'
  <2> SUFFICES ASSUME NEW t \in Temps \ orphans, files'[t] # "absent"
               PROVE  \E q \in Procs : req'[q].name = t /\ Writing(q)'
    BY <1>1 DEF NoTempLeaks, Exists, Writing
  <2>1. files[t] # "absent"
    BY <1>4, TempNames
  <2>2. PICK q \in Procs : req[q].name = t /\ Writing(q)
    BY <2>1 DEF IInv, Owned, NoTempLeaks, Exists, Writing
  <2>3. q # p
    BY <2>2 DEF Quiet
  <2>4. QED
    BY <1>2, <1>3, <2>2, <2>3
<1>9. Owned'
  BY <1>5, <1>6, <1>7, <1>8 DEF IInv, Owned
<1>10. QED
  BY <1>2, <1>9 DEF IInv
-----------------------------------------------------------------------------
\* A store that goes on writing stays sound: it answers nothing.
LEMMA WritingCalls ==
  ASSUME IInv, NEW p \in Procs, req[p].pc \in {"create", "copy", "rename"},
         NEW f \in [Names -> States], NEW r \in Requests, r.pc \in {"copy", "rename"},
         r.answer = req[p].answer, Become(f, p, r)
  PROVE  Calls(p, f, r)
<1>1. req[p] \in Requests /\ Sound(req[p])
  BY DEF IInv, TypeOK, AllSound
<1>2. Sound(r)
  BY <1>1 DEF Sound, Requests
<1>3. QED
  BY <1>2, SawKeeps DEF Calls

\* A new temporary file has a name of its own.
LEMMA CreateKeeps ==
  ASSUME IInv, NEW p \in Procs, CreateTemp(p)
  PROVE  IInv'
<1>1. PICK t \in Temps :
        /\ ~Exists(t)
        /\ \A q \in Procs : req[q].name # t
        /\ Become(Set(t, "part"), p, [req[p] EXCEPT !.name = t, !.pc = "copy"])
        /\ orphans' = orphans \ {t}
  BY DEF CreateTemp
<1> DEFINE f == Set(t, "part")
           r == [req[p] EXCEPT !.name = t, !.pc = "copy"]
<1>2. /\ f \in [Names -> States] /\ f[t] = "part" /\ t \in Names
      /\ \A n \in Names \ {t} : f[n] = files[n]
  BY SetType, TempNames DEF IInv, States
<1>3. r \in Requests /\ r.pc = "copy" /\ r.name = t /\ Calls(p, f, r)
  <2>1. Become(f, p, r) /\ req[p].pc = "create"
    BY <1>1 DEF CreateTemp, At
  <2>2. r \in Requests /\ r.pc = "copy" /\ r.name = t /\ r.answer = req[p].answer
    <3>1. req[p] \in Requests /\ t \in Names
      BY <1>2 DEF IInv, TypeOK
    <3> HIDE DEF f
    <3>2. QED
      BY <3>1 DEF Requests
  <2> HIDE DEF f, r
  <2>3. QED
    BY <1>2, <2>1, <2>2, WritingCalls
<1> HIDE DEF f, r
<1>4. /\ TypeOK' /\ AllSound' /\ files' = f
      /\ req'[p].pc = "copy" /\ req'[p].name = t
      /\ \A q \in Procs \ {p} : req'[q].pc = req[q].pc /\ req'[q].name = req[q].name
  BY <1>1, <1>2, <1>3, CallsKeep DEF IInv, TypeOK
<1>5. \A q \in Procs : Writing(q)' <=> (Writing(q) \/ q = p)
  BY <1>4 DEF Writing
<1>6. files'[Final] # "part"
  BY <1>2, <1>4, TempNames DEF IInv, Owned
<1>7. \A q \in Procs : req'[q].pc = "rename" => files'[req'[q].name] # "part"
  <2> SUFFICES ASSUME NEW q \in Procs, req'[q].pc = "rename"
               PROVE  files'[req'[q].name] # "part"
    OBVIOUS
  <2>1. q # p /\ req[q].pc = "rename" /\ req'[q].name = req[q].name
    BY <1>4
  <2>2. req[q].name # t /\ req[q].name \in Names
    BY <1>1 DEF IInv, TypeOK, Requests
  <2>3. files'[req[q].name] = files[req[q].name]
    BY <1>2, <1>4, <2>2
  <2>4. QED
    BY <2>1, <2>3 DEF IInv, Owned
<1>8. \A q \in Procs : Writing(q)' => req'[q].name \in Temps
  BY <1>4, <1>5 DEF IInv, Owned
<1>9. \A q1, q2 \in Procs : Writing(q1)' /\ Writing(q2)' /\ q1 # q2
                             => req'[q1].name # req'[q2].name
  BY <1>1, <1>4, <1>5 DEF IInv, Owned
<1>10. NoTempLeaks'
  <2> SUFFICES ASSUME NEW k \in Temps \ orphans', files'[k] # "absent"
               PROVE  \E q \in Procs : req'[q].name = k /\ Writing(q)'
    BY DEF NoTempLeaks, Exists, Writing
  <2>1. CASE k = t
    BY <1>4, <1>5, <2>1
  <2>2. CASE k # t
    <3>1. k \in Temps \ orphans /\ files[k] # "absent"
      BY <1>1, <1>2, <1>4, <2>2, TempNames
    <3>2. PICK q \in Procs : req[q].name = k /\ Writing(q)
      BY <3>1 DEF IInv, Owned, NoTempLeaks, Exists, Writing
    <3>3. q # p
      BY <3>2 DEF Writing, CreateTemp, At
    <3>4. QED
      BY <1>4, <1>5, <3>2, <3>3
  <2>3. QED
    BY <2>1, <2>2
<1>11. Owned'
  BY <1>6, <1>7, <1>8, <1>9, <1>10 DEF Owned
<1>12. QED
  BY <1>4, <1>11 DEF IInv

\* Filling it changes no other file.
LEMMA CopyKeeps ==
  ASSUME IInv, NEW p \in Procs, Copy(p)
  PROVE  IInv'
<1> DEFINE t == req[p].name
           f == IF Exists(t) THEN Set(t, "whole") ELSE files
           r == GoTo(p, "rename")
<1>1. Writing(p) /\ t \in Temps /\ t \in Names /\ t # Final /\ orphans' = orphans
  BY TempNames DEF IInv, Owned, Copy, At, Writing
<1>2. /\ f \in [Names -> States] /\ f[t] \in {"whole", "absent"}
      /\ \A n \in Names \ {t} : f[n] = files[n]
      /\ f[t] # "absent" => files[t] # "absent"
  BY <1>1, SetType DEF IInv, States, Exists
<1>3. Become(f, p, r) /\ req[p].pc = "copy"
  BY DEF Copy, At
<1>4. r \in Requests /\ r.pc = "rename" /\ r.name = t /\ Calls(p, f, r)
  <2>1. r \in Requests /\ r.pc = "rename" /\ r.name = t /\ r.answer = req[p].answer
    BY DEF GoTo, IInv, TypeOK, Requests
  <2> HIDE DEF f, r
  <2>2. QED
    BY <1>2, <1>3, <2>1, WritingCalls
<1> HIDE DEF f, r
<1>5. /\ TypeOK' /\ AllSound' /\ files' = f
      /\ req'[p].pc = "rename" /\ req'[p].name = t
      /\ \A q \in Procs \ {p} : req'[q].pc = req[q].pc /\ req'[q].name = req[q].name
  BY <1>1, <1>2, <1>4, CallsKeep DEF IInv, TypeOK
<1>6. \A q \in Procs : (Writing(q)' <=> Writing(q)) /\ req'[q].name = req[q].name
  BY <1>1, <1>5 DEF Writing
<1>7. files'[Final] # "part"
  BY <1>1, <1>2, <1>5, TempNames DEF IInv, Owned
<1>8. \A q \in Procs : req'[q].pc = "rename" => files'[req'[q].name] # "part"
  <2> SUFFICES ASSUME NEW q \in Procs, req'[q].pc = "rename", q # p
               PROVE  files'[req'[q].name] # "part"
    BY <1>2, <1>5
  <2>1. req[q].pc = "rename" /\ req'[q].name = req[q].name
    BY <1>5
  <2>2. req[q].name \in Names \ {t}
    BY <1>1, <2>1 DEF IInv, Owned, Writing, TypeOK, Requests
  <2>3. QED
    BY <1>2, <1>5, <2>1, <2>2 DEF IInv, Owned
<1>9. NoTempLeaks'
  <2> SUFFICES ASSUME NEW k \in Temps \ orphans, files'[k] # "absent"
               PROVE  \E q \in Procs : req'[q].name = k /\ Writing(q)'
    BY <1>1 DEF NoTempLeaks, Exists, Writing
  <2>1. files[k] # "absent"
    BY <1>2, <1>5, TempNames
  <2>2. PICK q \in Procs : req[q].name = k /\ Writing(q)
    BY <2>1 DEF IInv, Owned, NoTempLeaks, Exists, Writing
  <2>3. QED
    BY <1>6, <2>2
<1>10. Owned'
  BY <1>6, <1>7, <1>8, <1>9 DEF IInv, Owned
<1>11. QED
  BY <1>5, <1>10 DEF IInv

\* A store ends with its temporary file gone, and what it was, if anything, is
\* the stored blob.
LEMMA EndKeeps ==
  ASSUME IInv, NEW p \in Procs, Writing(p), NEW f \in [Names -> States],
         Calls(p, f, NoReq), orphans' = orphans,
         f[req[p].name] = "absent", f[Final] # "part",
         \A n \in Temps \ {req[p].name} : f[n] = files[n]
  PROVE  IInv'
<1>1. NoReq \in Requests /\ NoReq.pc = "done"
  BY NoReqType DEF NoReq
<1>2. /\ TypeOK' /\ AllSound' /\ files' = f /\ req'[p].pc = "done"
      /\ \A q \in Procs \ {p} : req'[q].pc = req[q].pc /\ req'[q].name = req[q].name
  BY <1>1, CallsKeep DEF IInv, TypeOK
<1>3. \A q \in Procs : Writing(q)' <=> (Writing(q) /\ q # p)
  BY <1>2 DEF Writing
<1>4. \A q \in Procs : Writing(q)' =>
        q # p /\ Writing(q) /\ req'[q].name = req[q].name /\ req[q].name # req[p].name
  BY <1>2, <1>3 DEF IInv, Owned
<1>5. \A q \in Procs : req'[q].pc = "rename" => files'[req'[q].name] # "part"
  <2> SUFFICES ASSUME NEW q \in Procs, req'[q].pc = "rename"
               PROVE  files'[req'[q].name] # "part"
    OBVIOUS
  <2>1. /\ req[q].pc = "rename" /\ req'[q].name = req[q].name
        /\ req[q].name \in Temps \ {req[p].name}
    BY <1>2, <1>4 DEF IInv, Owned, Writing
  <2>2. QED
    BY <1>2, <2>1 DEF IInv, Owned
<1>6. NoTempLeaks'
  <2> SUFFICES ASSUME NEW k \in Temps \ orphans, files'[k] # "absent"
               PROVE  \E q \in Procs : req'[q].name = k /\ Writing(q)'
    BY DEF NoTempLeaks, Exists, Writing
  <2>1. k # req[p].name /\ files[k] # "absent"
    BY <1>2
  <2>2. PICK q \in Procs : req[q].name = k /\ Writing(q)
    BY <2>1 DEF IInv, Owned, NoTempLeaks, Exists, Writing
  <2>3. QED
    BY <1>2, <1>3, <2>1, <2>2
<1>7. Owned'
  BY <1>2, <1>4, <1>5, <1>6 DEF IInv, Owned
<1>8. QED
  BY <1>2, <1>7 DEF IInv

\* The copy fails, the rename is made or refused.
LEMMA EndsKeep ==
  ASSUME IInv, NEW p \in Procs,
         CopyFails(p) \/ Rename(p) \/ (Fail(p) /\ req[p].pc = "rename")
  PROVE  IInv'
<1> DEFINE t == req[p].name
           gone == Set(t, "absent")
           moved == [gone EXCEPT ![Final] = files[t]]
<1>1. /\ Writing(p) /\ t \in Temps /\ t \in Names /\ t # Final /\ orphans' = orphans
      /\ files \in [Names -> States] /\ files[Final] # "part"
      /\ req[p].pc = "rename" => files[t] # "part"
  <2>1. Writing(p) /\ orphans' = orphans
    BY DEF CopyFails, Rename, Fail, At, Writing
  <2>2. QED
    BY <2>1, TempNames DEF IInv, Owned, TypeOK, States
<1>2. /\ gone \in [Names -> States] /\ gone[t] = "absent"
      /\ \A n \in Names \ {t} : gone[n] = files[n]
  BY <1>1, SetType DEF IInv, States
<1>3. CASE Become(gone, p, Return)
  <2>1. Calls(p, gone, NoReq)
    BY <1>2, <1>3, ReturnCalls DEF IInv
  <2>2. gone[Final] # "part" /\ \A n \in Temps \ {t} : gone[n] = files[n]
    BY <1>1, <1>2, TempNames
  <2> HIDE DEF gone
  <2>3. QED
    BY <1>1, <1>2, <2>1, <2>2, EndKeeps
<1>4. CASE Rename(p) /\ Exists(t)
  <2>1. Become(moved, p, Return) /\ req[p].pc = "rename"
    BY <1>4 DEF Rename, At
  <2>2. /\ moved \in [Names -> States] /\ moved[t] = "absent" /\ moved[Final] = files[t]
        /\ \A n \in Temps \ {t} : moved[n] = files[n]
    BY <1>1, <1>2, TempNames
  <2>3. Calls(p, moved, NoReq)
    BY <2>1, <2>2, ReturnCalls DEF IInv
  <2> HIDE DEF moved, gone
  <2>4. QED
    BY <1>1, <2>1, <2>2, <2>3, EndKeeps
<1>5. CASE Rename(p) /\ ~Exists(t)
  <2>1. Become(files, p, Return)
    BY <1>5 DEF Rename
  <2>2. Calls(p, files, NoReq)
    BY <1>1, <2>1, ReturnCalls DEF IInv
  <2>3. files[t] = "absent"
    BY <1>5 DEF Exists
  <2>4. QED
    BY <1>1, <2>2, <2>3, EndKeeps
<1>6. QED
  BY <1>3, <1>4, <1>5 DEF CopyFails, Fail
-----------------------------------------------------------------------------
\* Every step keeps the invariant.
LEMMA StepsKeep ==
  ASSUME IInv, [Next]_vars
  PROVE  IInv'
<1>1. ASSUME NEW p \in Procs, NEW op \in {"store", "load", "stat", "has", "delete"},
             NEW asked \in {"own", "other", "none"}, Begin(p, op, asked)
      PROVE  IInv'
  <2>1. PICK r \in Requests : Calls(p, files, r) /\ r.pc \notin {"copy", "rename"}
    BY <1>1, BeginCalls DEF IInv
  <2>2. files \in [Names -> States]
    BY DEF IInv, TypeOK, States
  <2>3. Quiet(p, files, r)
    BY <1>1, <2>1, <2>2 DEF Quiet, Begin, Writing
  <2>4. QED
    BY <2>2, <2>3, QuietKeeps
<1>2. ASSUME NEW p \in Procs,
             \/ Put(p) \/ Exact(p) \/ Scan(p) \/ ListingFails(p) \/ Use(p)
             \/ DeleteUnacked(p) \/ (Fail(p) /\ req[p].pc # "rename")
      PROVE  IInv'
  BY <1>2, QuietCalls, QuietKeeps DEF IInv
<1>3. CASE Restart
  <2>1. /\ TypeOK' /\ AllSound' /\ UNCHANGED files
        /\ \A q \in Procs : req'[q].pc = "done"
    BY <1>3, NoReqType DEF IInv, TypeOK, AllSound, Restart, NoReq
  <2>2. NoTempLeaks'
    BY <1>3, <2>1 DEF Restart, NoTempLeaks, Exists
  <2>3. Owned'
    BY <2>1, <2>2 DEF IInv, Owned, Writing
  <2>4. QED
    BY <2>1, <2>3 DEF IInv
<1>4. CASE UNCHANGED vars
  <2>1. UNCHANGED <<backend, files, req, orphans>>
    BY <1>4 DEF vars
  <2>2. TypeOK'
    BY <2>1 DEF IInv, TypeOK
  <2>3. AllSound'
    BY <2>1 DEF IInv, AllSound
  <2>4. NoTempLeaks'
    BY <2>1 DEF IInv, Owned, NoTempLeaks, Exists
  <2>5. Owned'
    BY <2>1, <2>4 DEF IInv, Owned, Writing
  <2>6. QED
    BY <2>2, <2>3, <2>5 DEF IInv
<1>5. CASE \E p \in Procs : Step(p)
  <2>1. PICK p \in Procs : Step(p)
    BY <1>5
  <2>2. CASE CreateTemp(p)
    BY <2>2, CreateKeeps
  <2>3. CASE Copy(p)
    BY <2>3, CopyKeeps
  <2>4. CASE CopyFails(p) \/ Rename(p) \/ (Fail(p) /\ req[p].pc = "rename")
    BY <2>4, EndsKeep
  <2>5. CASE \/ Put(p) \/ Exact(p) \/ Scan(p) \/ ListingFails(p) \/ Use(p)
             \/ DeleteUnacked(p) \/ (Fail(p) /\ req[p].pc # "rename")
    BY <1>2, <2>5
  <2>6. QED
    BY <2>1, <2>2, <2>3, <2>4, <2>5 DEF Step
<1>6. CASE \E p \in Procs : Begin(p, "store", "own")
  <2>1. PICK p \in Procs : Begin(p, "store", "own")
    BY <1>6
  <2>2. QED
    BY <1>1, <2>1
<1>7. CASE \E p \in Procs, op \in {"load", "stat", "has", "delete"},
              asked \in {"own", "other", "none"} : Begin(p, op, asked)
  <2>1. PICK p \in Procs, op \in {"load", "stat", "has", "delete"},
             asked \in {"own", "other", "none"} : Begin(p, op, asked)
    BY <1>7
  <2>2. op \in {"store", "load", "stat", "has", "delete"}
    OBVIOUS
  <2>3. QED
    BY <1>1, <2>1, <2>2
<1>8. QED
  BY <1>3, <1>4, <1>5, <1>6, <1>7 DEF Next

\* The invariant holds in every reachable state.
LEMMA Invariant == Spec => []IInv
<1>1. Init => IInv
  <2> SUFFICES ASSUME Init PROVE IInv
    OBVIOUS
  <2>1. TypeOK
    BY NoReqType DEF Init, TypeOK
  <2>2. AllSound /\ \A q \in Procs : req[q].pc = "done"
    BY NoReqType DEF Init, AllSound, NoReq
  <2>3. Owned
    BY <2>2, TempNames DEF Init, Owned, Writing, NoTempLeaks, Exists
  <2>4. QED
    BY <2>1, <2>2, <2>3 DEF IInv
<1>2. QED
  BY <1>1, StepsKeep, PTL DEF Spec

\* Every reachable state of the files and the operations is well typed.
THEOREM TypeCorrect == Spec => []TypeOK
BY Invariant, PTL DEF IInv

\* A listing reports whole blobs only, however many stores race and fail.
THEOREM ListingsAreWhole == Spec => []ListingWhole
<1>1. IInv => ListingWhole
  BY TempNames DEF IInv, Owned, TypeOK, ListingWhole, Listing, Exists
<1>2. QED
  BY <1>1, Invariant, PTL

\* Only a crash leaves temporary files behind.
THEOREM TempsAreRemoved == Spec => []NoTempLeaks
<1>1. IInv => NoTempLeaks
  BY DEF IInv, Owned
<1>2. QED
  BY <1>1, Invariant, PTL

\* What Has, Load, Stat and Delete answer was so while they ran.
THEOREM AnswersAreRight == Spec => []AnswersHold
<1>1. IInv => AnswersHold
  BY DEF IInv, AllSound, Sound, AnswersHold
<1>2. QED
  BY <1>1, Invariant, PTL
-----------------------------------------------------------------------------
\* In a bucket there is one name, and nobody renames.
OneName ==
  backend = "r2" =>
    /\ \A t \in Temps : ~Exists(t)
    /\ \A p \in Procs : req[p].name = Final /\ req[p].pc # "rename"

\* A call that resolves no other name leaves a bucket with one.
LEMMA OneNameKept ==
  ASSUME IInv, OneName, backend = "r2", NEW p \in Procs,
         NEW f \in [Names -> States], NEW r \in Requests, Become(f, p, r),
         \A t \in Temps : f[t] = files[t], r.name = Final, r.pc # "rename"
  PROVE  OneName'
<1> DEFINE stored == f[Final] # "absent"
<1>1. files' = f /\ backend' = backend /\ stored \in BOOLEAN
  BY DEF Become
<1>2. /\ (req'[p] = NoReq /\ r = NoReq) \/ req'[p] = Saw(r, stored)
      /\ \A q \in Procs \ {p} : req'[q] = req[q] \/ req'[q] = Saw(req[q], stored)
  BY DEF Become
<1>3. req'[p].name = Final /\ req'[p].pc # "rename"
  <2> HIDE DEF stored
  <2>1. Saw(r, stored).name = Final /\ Saw(r, stored).pc # "rename"
    BY <1>1, SawKeeps
  <2>2. QED
    BY <1>2, <2>1
<1>4. ASSUME NEW q \in Procs \ {p} PROVE req'[q].name = Final /\ req'[q].pc # "rename"
  <2>1. req[q] \in Requests /\ req[q].name = Final /\ req[q].pc # "rename"
    BY DEF IInv, TypeOK, OneName
  <2> HIDE DEF stored
  <2>2. Saw(req[q], stored).name = Final /\ Saw(req[q], stored).pc # "rename"
    BY <1>1, <2>1, SawKeeps
  <2>3. QED
    BY <1>2, <2>1, <2>2
<1>5. \A t \in Temps : ~Exists(t)'
  BY <1>1 DEF OneName, Exists
<1>6. QED
  BY <1>3, <1>4, <1>5 DEF OneName

\* What an operation answers or resolves in a bucket is its one name.
LEMMA BucketAnswers ==
  ASSUME IInv, OneName, backend = "r2", NEW p \in Procs, req[p].pc \in {"exact", "scan", "act"}
  PROVE  /\ \A what \in {"found", "absent", "deleted"} :
              /\ Answer(p, what) \in Requests
              /\ Answer(p, what).name = Final /\ Answer(p, what).pc # "rename"
         /\ /\ Absent(p) \in Requests
            /\ Absent(p).name = Final /\ Absent(p).pc # "rename"
         /\ /\ Found(p, Final) \in Requests
            /\ Found(p, Final).name = Final /\ Found(p, Final).pc # "rename"
<1>1. req[p] \in Requests /\ req[p].name = Final /\ Final \in Names
  BY TempNames DEF IInv, TypeOK, OneName
<1>2. ASSUME NEW what \in {"found", "absent", "deleted"}
      PROVE  /\ Answer(p, what) \in Requests
             /\ Answer(p, what).name = Final /\ Answer(p, what).pc = "done"
  BY <1>1, <1>2, AnswerType DEF IInv
<1>3. Absent(p) \in {Answer(p, "deleted"), Answer(p, "absent")}
  BY DEF Absent
<1>4. /\ Found(p, Final) \in Requests
      /\ Found(p, Final).name = Final /\ Found(p, Final).pc \in {"done", "act"}
  <2>1. CASE req[p].op = "has"
    BY <1>1, <1>2, <2>1 DEF Found, Requests
  <2>2. CASE req[p].op # "has"
    BY <1>1, <2>2 DEF Found, Requests
  <2>3. QED
    BY <2>1, <2>2
<1>5. QED
  BY <1>2, <1>3, <1>4

\* Every step leaves a bucket with one name.
LEMMA BucketSteps ==
  ASSUME IInv, OneName, [Next]_vars
  PROVE  OneName'
<1>0. backend' = backend
  <2>1. ASSUME NEW p, NEW f, NEW r, Become(f, p, r) PROVE backend' = backend
    BY <2>1 DEF Become
  <2>2. ASSUME NEW p \in Procs, Step(p) PROVE backend' = backend
    <3>1. CASE CreateTemp(p)
      BY <2>1, <3>1 DEF CreateTemp
    <3>2. CASE Copy(p)
      BY <2>1, <3>2 DEF Copy
    <3>3. CASE CopyFails(p) \/ Put(p) \/ Exact(p)
      BY <2>1, <3>3 DEF CopyFails, Put, Exact
    <3>4. CASE Rename(p)
      BY <2>1, <3>4 DEF Rename
    <3>5. CASE Scan(p) \/ ListingFails(p)
      BY <2>1, <3>5 DEF Scan, ListingFails
    <3>6. CASE Use(p)
      BY <2>1, <3>6 DEF Use
    <3>7. CASE DeleteUnacked(p) \/ Fail(p)
      BY <2>1, <3>7 DEF DeleteUnacked, Fail
    <3>8. QED
      BY <2>2, <3>1, <3>2, <3>3, <3>4, <3>5, <3>6, <3>7 DEF Step
  <2>3. CASE Restart \/ UNCHANGED vars
    BY <2>3 DEF Restart, vars
  <2>4. ASSUME NEW p, NEW op, NEW asked, Begin(p, op, asked) PROVE backend' = backend
    BY <2>1, <2>4 DEF Begin
  <2>5. QED
    BY <2>2, <2>3, <2>4 DEF Next
<1> SUFFICES ASSUME backend = "r2" PROVE OneName'
  BY <1>0 DEF OneName
<1>1. /\ files \in [Names -> States] /\ Final \in Names
      /\ \A t \in Temps : t \in Names /\ t # Final /\ ~Exists(t)
  BY TempNames DEF IInv, TypeOK, States, OneName
<1>2. \A state \in States : /\ Set(Final, state) \in [Names -> States]
                            /\ \A t \in Temps : Set(Final, state)[t] = files[t]
  BY <1>1, SetType DEF IInv
<1>3. Return \in Requests /\ Return.name = Final /\ Return.pc # "rename"
  BY NoReqType DEF Return, NoReq
<1>4. ASSUME NEW p \in Procs, NEW op, NEW asked, Begin(p, op, asked),
             op \in {"store", "load", "stat", "has", "delete"},
             asked \in {"own", "other", "none"}
      PROVE  OneName'
  <2> DEFINE label == CASE op = "store" -> IF backend = "disk" THEN "create" ELSE "put"
                        [] op # "store" /\ asked = "none" -> "scan"
                        [] OTHER -> "exact"
             r == [NoReq EXCEPT !.op = op, !.asked = asked, !.pc = label]
  <2>1. label \in {"create", "put", "scan", "exact"}
    OBVIOUS
  <2>2. Become(files, p, r)
    BY <1>4 DEF Begin
  <2> HIDE DEF label
  <2>3. r \in Requests /\ r.name = Final /\ r.pc # "rename"
    BY <1>4, <2>1, NoReqType DEF NoReq, Requests
  <2> HIDE DEF r
  <2>4. QED
    BY <1>1, <2>2, <2>3, OneNameKept
<1>5. ASSUME NEW p \in Procs, Step(p) PROVE OneName'
  <2>1. CASE Put(p)
    BY <1>2, <1>3, <2>1, OneNameKept DEF Put, States
  <2>2. CASE Exact(p)
    <3>1. CASE req[p].asked = "own" /\ Exists(Final)
      BY <1>1, <2>2, <3>1, BucketAnswers, OneNameKept DEF Exact
    <3>2. CASE ~(req[p].asked = "own" /\ Exists(Final))
      <4> DEFINE r == [GoTo(p, "scan") EXCEPT !.asked = "other"]
      <4>1. req[p] \in Requests /\ req[p].name = Final
        BY DEF IInv, TypeOK, OneName
      <4>2. r \in Requests /\ r.name = Final /\ r.pc # "rename"
        BY <4>1 DEF GoTo, Requests
      <4>3. Become(files, p, r)
        BY <2>2, <3>2 DEF Exact
      <4> HIDE DEF r
      <4>4. QED
        BY <1>1, <4>2, <4>3, OneNameKept
    <3>3. QED
      BY <3>1, <3>2
  <2>3. CASE Scan(p)
    <3>1. CASE \E n \in Names : First(n) /\ Become(files, p, Found(p, n))
      <4>1. PICK n \in Names : First(n) /\ Become(files, p, Found(p, n))
        BY <3>1
      <4>2. n = Final
        BY <1>1, <4>1 DEF First, Names
      <4>3. QED
        BY <1>1, <2>3, <4>1, <4>2, BucketAnswers, OneNameKept DEF Scan
    <3>2. CASE Become(files, p, Absent(p))
      BY <1>1, <2>3, <3>2, BucketAnswers, OneNameKept DEF Scan
    <3>3. QED
      BY <2>3, <3>1, <3>2 DEF Scan
  <2>4. CASE ListingFails(p)
    <3> DEFINE r == [Absent(p) EXCEPT !.blind = TRUE]
    <3>1. Absent(p) \in Requests /\ Absent(p).name = Final /\ Absent(p).pc # "rename"
      BY <2>4, BucketAnswers DEF ListingFails, At
    <3>2. r \in Requests /\ r.name = Final /\ r.pc # "rename"
      BY <3>1 DEF Requests
    <3>3. Become(files, p, r)
      BY <2>4 DEF ListingFails
    <3> HIDE DEF r
    <3>4. QED
      BY <1>1, <3>2, <3>3, OneNameKept
  <2>5. CASE Use(p)
    <3>1. req[p].pc = "act" /\ req[p].name = Final
      BY <2>5 DEF Use, OneName
    <3>2. \/ Become(Set(Final, "absent"), p, Answer(p, "deleted"))
          \/ Become(files, p, Answer(p, "found"))
          \/ Become(files, p, Absent(p))
      BY <2>5, <3>1 DEF Use
    <3>3. CASE Become(Set(Final, "absent"), p, Answer(p, "deleted"))
      BY <1>2, <3>1, <3>3, BucketAnswers, OneNameKept DEF States
    <3>4. CASE Become(files, p, Answer(p, "found"))
      BY <1>1, <3>1, <3>4, BucketAnswers, OneNameKept
    <3>5. CASE Become(files, p, Absent(p))
      BY <1>1, <3>1, <3>5, BucketAnswers, OneNameKept
    <3>6. QED
      BY <3>2, <3>3, <3>4, <3>5
  <2>6. CASE DeleteUnacked(p)
    BY <1>2, <1>3, <2>6, OneNameKept DEF DeleteUnacked, States
  <2>7. CASE Fail(p)
    <3>1. Become(files, p, Return)
      BY <2>7 DEF Fail, OneName
    <3>2. QED
      BY <1>1, <1>3, <3>1, OneNameKept
  <2>8. QED
    BY <1>5, <2>1, <2>2, <2>3, <2>4, <2>5, <2>6, <2>7
       DEF Step, CreateTemp, Copy, CopyFails, Rename, At
<1>6. CASE Restart
  BY <1>6 DEF Restart, OneName, NoReq, Exists
<1>7. CASE UNCHANGED vars
  BY <1>7 DEF vars, OneName, Exists
<1>8. CASE \E p \in Procs : Begin(p, "store", "own")
  <2>1. PICK p \in Procs : Begin(p, "store", "own")
    BY <1>8
  <2>2. QED
    BY <1>4, <2>1
<1>9. CASE \E p \in Procs, op \in {"load", "stat", "has", "delete"},
              asked \in {"own", "other", "none"} : Begin(p, op, asked)
  <2>1. PICK p \in Procs, op \in {"load", "stat", "has", "delete"},
             asked \in {"own", "other", "none"} : Begin(p, op, asked)
    BY <1>9
  <2>2. QED
    BY <1>4, <2>1
<1>10. QED
  BY <1>5, <1>6, <1>7, <1>8, <1>9 DEF Next

\* A bucket finds only what was stored, however stores, deletes and lost answers
\* meet: the finding of NeverFoundUnstored is the disk's alone.
THEOREM BucketsHoldBlobs == Spec => [](backend = "r2" => NeverFoundUnstored)
<1>1. Init => OneName
  BY TempNames DEF Init, OneName, Exists, NoReq
<1>2. IInv /\ OneName /\ [Next]_vars => OneName'
  BY BucketSteps
<1>3. IInv /\ OneName => (backend = "r2" => NeverFoundUnstored)
  BY DEF IInv, AllSound, Sound, OneName, NeverFoundUnstored
<1>4. QED
  BY <1>1, <1>2, <1>3, Invariant, PTL DEF Spec
=============================================================================
