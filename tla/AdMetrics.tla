------------------------------ MODULE AdMetrics ------------------------------
(***************************************************************************)
(* The views and clicks of ads that internal/server/ad.go counts: a view     *)
(* when a download presents a valid ad proof (gate.go), a click when a       *)
(* client reports one, each once per address in a window of 24 hours.  The   *)
(* counts are kept in memory and saved every 30 seconds by metricsSaver      *)
(* (server.go); the process is only ever killed, because main leaves by      *)
(* os.Exit and its deferred Close does not run.                              *)
(*                                                                         *)
(* Challenges are stateless: which valid proofs a client holds is an input.  *)
(* Time is counted in ticks relative to now, ages stop at Window + 1.        *)
(***************************************************************************)
EXTENDS Naturals

CONSTANTS Ads, Ips,
          Window,      \* length of the window in ticks
          MaxCount,    \* bound: views or clicks of one ad
          Damaged      \* a file that does not parse

Kinds == {"view", "click"}
Keys == Kinds \X Ads \X Ips
Totals == Kinds \X Ads

ASSUME AdMetricsAssumption ==
  /\ Window \in Nat \ {0}
  /\ MaxCount \in Nat
  /\ Damaged \notin [Totals -> Nat]

VARIABLES
  adGate,   \* is the ad gate on?  fixed until the next restart
  age,      \* ticks since windowStart
  seen,     \* seenView and seenClick
  counts,   \* stats
  file,     \* ad_stats.json
  saver,    \* where metricsSaver is
  snap,     \* what it is about to write
  last,     \* history: ticks since each key was counted last
  prev,     \* history: and since the time before
  thrice    \* history: was a key counted three times within Window?

metrics == <<age, seen, counts, last, prev, thrice>>
saving == <<file, saver, snap>>
vars == <<adGate, metrics, saving>>

None == [t \in Totals |-> 0]
Ages == 0..(Window + 1)
Older(a) == IF a <= Window THEN a + 1 ELSE a

\* newAdMetrics: what does not parse counts from zero.
Loaded == IF file = Damaged THEN None ELSE file

Fresh ==
  /\ age' = 0 /\ seen' = {}
  /\ last' = [k \in Keys |-> Window + 1] /\ prev' = [k \in Keys |-> Window + 1]
  /\ thrice' = FALSE

Init ==
  /\ adGate \in BOOLEAN
  /\ age = 0 /\ seen = {}
  /\ counts = None
  /\ file = None
  /\ saver = "waiting" /\ snap = None
  /\ last = [k \in Keys |-> Window + 1] /\ prev = [k \in Keys |-> Window + 1]
  /\ thrice = FALSE
-----------------------------------------------------------------------------
RotatesAtEdge == age > 0   \* mutant of Rotates

\* maybeRotate, before anything is counted: the window is over.
Rotates == age > Window

Remembered == IF Rotates THEN {} ELSE seen

\* view and click: the same key counts once in a window, and the first to come
\* after its end begins the next.
Count(kind, ad, ip) ==
  LET key == <<kind, ad, ip>>
      new == key \notin Remembered IN
  /\ adGate
  /\ counts[<<kind, ad>>] < MaxCount
  /\ age' = IF Rotates THEN 0 ELSE age
  /\ seen' = Remembered \union {key}
  /\ counts' = IF new THEN [counts EXCEPT ![<<kind, ad>>] = @ + 1] ELSE counts
  /\ last' = IF new THEN [last EXCEPT ![key] = 0] ELSE last
  /\ prev' = IF new THEN [prev EXCEPT ![key] = last[key]] ELSE prev
  /\ thrice' = (thrice \/ (new /\ prev[key] <= Window))
  /\ UNCHANGED <<adGate, saving>>

\* checkGates with a valid ad proof: the view counts even if the proof of work
\* is still missing and the download is refused.  Without the proof, or without
\* an ad in it, nothing changes.
Download(ad, ip) == Count("view", ad, ip)

\* handleAdClick.
Click(ad, ip) == Count("click", ad, ip)

Tick ==
  /\ age' = Older(age)
  /\ last' = [k \in Keys |-> Older(last[k])]
  /\ prev' = [k \in Keys |-> Older(prev[k])]
  /\ UNCHANGED <<adGate, seen, counts, thrice, saving>>

\* metricsSaver's ticker fires; save marshals the counts under the lock.
Snapshot ==
  /\ adGate /\ saver = "waiting"
  /\ snap' = counts /\ saver' = "truncate"
  /\ UNCHANGED <<adGate, metrics, file>>

\* os.WriteFile cuts the file off, then fills it.
Truncate ==
  /\ saver = "truncate"
  /\ file' = Damaged /\ saver' = "write"
  /\ UNCHANGED <<adGate, metrics, snap>>

WriteLoaded ==   \* mutant of Write
  /\ saver = "write"
  /\ file' = None /\ saver' = "waiting"
  /\ UNCHANGED <<adGate, metrics, snap>>

Write ==
  /\ saver = "write"
  /\ file' = snap /\ saver' = "waiting"
  /\ UNCHANGED <<adGate, metrics, snap>>

\* The file cannot be opened or filled; the error is dropped and the next
\* firing of the ticker tries again.
WriteFails ==
  /\ saver \in {"truncate", "write"}
  /\ saver' = "waiting"
  /\ UNCHANGED <<adGate, metrics, file, snap>>

\* The process is killed; the operator may have turned the gate on or off.
Restart ==
  /\ adGate' \in BOOLEAN
  /\ counts' = Loaded
  /\ saver' = "waiting" /\ snap' = None
  /\ Fresh
  /\ UNCHANGED file

Next ==
  \/ \E ad \in Ads, ip \in Ips : Download(ad, ip) \/ Click(ad, ip)
  \/ Tick
  \/ Snapshot \/ Truncate \/ Write \/ WriteFails
  \/ Restart

\* The ticker fires again and again while the server runs, and the disk does
\* not fail for ever.
Spec == /\ Init /\ [][Next]_vars
        /\ WF_vars(Snapshot) /\ SF_vars(Truncate) /\ SF_vars(Write)
-----------------------------------------------------------------------------
TypeOK ==
  /\ adGate \in BOOLEAN
  /\ age \in Ages
  /\ seen \subseteq Keys
  /\ counts \in [Totals -> Nat]
  /\ file \in [Totals -> Nat] \union {Damaged}
  /\ saver \in {"waiting", "truncate", "write"}
  /\ snap \in [Totals -> Nat]
  /\ last \in [Keys -> Ages]
  /\ prev \in [Keys -> Ages]
  /\ thrice \in BOOLEAN

\* "counts unique views/clicks per ad id", "a per-window set" (ad.go:58): one
\* address counts for an ad at most twice within the length of a window, around
\* the edge between two, as long as the process lives.
OncePerWindow == ~thrice

\* What has been counted is on disk in the end, unless the process is killed
\* first: then the counts are what was on disk.
CountsPersist ==
  \A t \in Totals : \A n \in 1..MaxCount :
    counts[t] >= n ~> (file # Damaged /\ file[t] >= n) \/ counts[t] < n
=============================================================================
