------------------------ MODULE UploadLimiter_proof ------------------------
(***************************************************************************)
(* Proofs about UploadLimiter for any finite set of requests, any pubkeys  *)
(* and any configured cap.  The inductive invariant counts: the channel    *)
(* holds one entry per token holder, and the map one key per admitted      *)
(* upload.  The caps and the refinement of UploadSlots follow from it.     *)
(***************************************************************************)
EXTENDS UploadLimiter, TLAPS, FiniteSetTheorems

\* Adding or removing one token holder moves the count by one.
LEMMA HoldersCount ==
  ASSUME NEW A \in SUBSET Requests, NEW u \in Requests
  PROVE  /\ IsFiniteSet(A)
         /\ Cardinality(A) \in Nat
         /\ u \notin A => Cardinality(A \union {u}) = Cardinality(A) + 1
         /\ u \in A => /\ Cardinality(A \ {u}) = Cardinality(A) - 1
                       /\ Cardinality(A) > 0
<1>1. IsFiniteSet(A)
  BY RequestsAssumption, FS_Subset
<1>2. Cardinality(A) \in Nat
  BY <1>1, FS_CardinalityType
<1>3. u \notin A => Cardinality(A \union {u}) = Cardinality(A) + 1
  BY <1>1, FS_AddElement
<1>4. u \in A => Cardinality(A \ {u}) = Cardinality(A) - 1
  BY <1>1, FS_RemoveElement
<1>5. u \in A => Cardinality(A) > 0
  BY <1>1, <1>2, FS_EmptySet
<1>6. QED
  BY <1>1, <1>2, <1>3, <1>4, <1>5

LEMMA CapacityType == TypeOK => Capacity \in Nat \ {0}
  BY ConfigsAssumption DEF TypeOK, Capacity

-----------------------------------------------------------------------------
\* Type correctness of the limiter, for every value of the constants.  global
\* stays a natural number because a receive waits for an entry.
THEOREM TypeCorrect == SafeSpec => []TypeOK
<1>1. Init => TypeOK
  BY DEF Init, TypeOK, Labels
<1>2. TypeOK /\ [Next]_vars => TypeOK'
  <2> SUFFICES ASSUME TypeOK, [Next]_vars PROVE TypeOK'
    OBVIOUS
  <2> USE PubkeysAssumption DEF TypeOK, Labels, limiter
  <2>1. ASSUME NEW u \in Requests, NEW k \in Pubkeys, Call(u, k) PROVE TypeOK'
    BY <2>1 DEF Call, GoTo
  <2>2. ASSUME NEW u \in Requests, Check(u) PROVE TypeOK'
    BY <2>2 DEF Check, GoTo, Return
  <2>3. ASSUME NEW u \in Requests, TakeToken(u) PROVE TypeOK'
    BY <2>3 DEF TakeToken, GoTo, Return
  <2>4. ASSUME NEW u \in Requests, Recheck(u) PROVE TypeOK'
    BY <2>4 DEF Recheck, GoTo
  <2>5. ASSUME NEW u \in Requests, GiveBack(u) PROVE TypeOK'
    BY <2>5 DEF GiveBack, GoTo, Return, Drain
  <2>6. ASSUME NEW u \in Requests, ReleaseKey(u) PROVE TypeOK'
    BY <2>6 DEF ReleaseKey, FreeKey, GoTo
  <2>7. ASSUME NEW u \in Requests, ReleaseToken(u) PROVE TypeOK'
    BY <2>7 DEF ReleaseToken, GoTo, Return, Drain
  <2>8. CASE Restart
    BY <2>8 DEF Restart
  <2>9. CASE UNCHANGED vars
    BY <2>9 DEF vars
  <2>10. QED
    BY <2>1, <2>2, <2>3, <2>4, <2>5, <2>6, <2>7, <2>8, <2>9 DEF Next, Step
<1>3. QED
  BY <1>1, <1>2, PTL DEF SafeSpec

-----------------------------------------------------------------------------
\* The channel's entries are the token holders: preserved by every step.
LEMMA TokensInductive ==
  TypeOK /\ TokensAccounted /\ [Next]_vars => TokensAccounted'
<1> SUFFICES ASSUME TypeOK, TokensAccounted, [Next]_vars
             PROVE  TokensAccounted'
  OBVIOUS
<1> USE CapacityType DEF TokensAccounted, limiter
<1>0. Cardinality(TokenHolders) \in Nat
  BY RequestsAssumption, FS_Subset, FS_CardinalityType DEF TokenHolders
<1>1. ASSUME NEW u \in Requests, NEW k \in Pubkeys, Call(u, k)
      PROVE  TokensAccounted'
  <2>1. TokenHolders' = TokenHolders
    BY <1>1 DEF TypeOK, Call, GoTo, TokenHolders
  <2>2. QED
    BY <2>1, <1>1 DEF Call, Capacity
<1>2. ASSUME NEW u \in Requests, Check(u) PROVE TokensAccounted'
  <2>1. TokenHolders' = TokenHolders
    BY <1>2 DEF TypeOK, Check, GoTo, Return, TokenHolders
  <2>2. QED
    BY <2>1, <1>2 DEF Check, Capacity
<1>3. ASSUME NEW u \in Requests, TakeToken(u) PROVE TokensAccounted'
  <2>1. CASE SlotFree
    <3>1. u \notin TokenHolders /\ TokenHolders' = TokenHolders \union {u}
      BY <1>3, <2>1 DEF TypeOK, TakeToken, GoTo, TokenHolders
    <3>2. Cardinality(TokenHolders') = Cardinality(TokenHolders) + 1
      BY <3>1, HoldersCount DEF TokenHolders
    <3>3. QED
      BY <1>0, <1>3, <2>1, <3>2 DEF TakeToken, SlotFree, Capacity
  <2>2. CASE ~SlotFree
    <3>1. TokenHolders' = TokenHolders
      BY <1>3, <2>2 DEF TypeOK, TakeToken, Return, GoTo, TokenHolders
    <3>2. QED
      BY <3>1, <1>3, <2>2 DEF TakeToken, Capacity
  <2>3. QED
    BY <2>1, <2>2
<1>4. ASSUME NEW u \in Requests, Recheck(u) PROVE TokensAccounted'
  <2>1. TokenHolders' = TokenHolders
    BY <1>4 DEF TypeOK, Recheck, GoTo, TokenHolders
  <2>2. QED
    BY <2>1, <1>4 DEF Recheck, Capacity
<1>5. ASSUME NEW u \in Requests, GiveBack(u) \/ ReleaseToken(u)
      PROVE  TokensAccounted'
  <2>1. u \in TokenHolders /\ TokenHolders' = TokenHolders \ {u}
    BY <1>5 DEF TypeOK, GiveBack, ReleaseToken, Return, GoTo, TokenHolders
  <2>2. Cardinality(TokenHolders') = Cardinality(TokenHolders) - 1
    BY <2>1, HoldersCount DEF TokenHolders
  <2>3. QED
    BY <1>0, <1>5, <2>2 DEF GiveBack, ReleaseToken, Drain, Capacity
<1>6. ASSUME NEW u \in Requests, ReleaseKey(u) PROVE TokensAccounted'
  <2>1. TokenHolders' = TokenHolders
    BY <1>6 DEF TypeOK, ReleaseKey, GoTo, TokenHolders
  <2>2. QED
    BY <2>1, <1>6 DEF ReleaseKey, Capacity
<1>7. CASE Restart
  <2>1. TokenHolders' = {}
    BY <1>7 DEF Restart, TokenHolders
  <2>2. QED
    BY <2>1, <1>7, FS_EmptySet, ConfigsAssumption DEF Restart, Capacity
<1>8. CASE UNCHANGED vars
  BY <1>8 DEF vars, TokenHolders, Capacity
<1>9. QED
  BY <1>1, <1>2, <1>3, <1>4, <1>5, <1>6, <1>7, <1>8 DEF Next, Step

-----------------------------------------------------------------------------
\* Keys and uniqueness need each other: the map tells two admitted uploads of
\* one pubkey apart only because it lists every admitted one, and a release
\* may delete its key only because no other upload shares it.
KeysInv == TypeOK /\ KeysAccounted /\ OneUploadPerPubkey

LEMMA KeysInductive == KeysInv /\ [Next]_vars => (KeysAccounted /\ OneUploadPerPubkey)'
<1> SUFFICES ASSUME KeysInv, [Next]_vars
             PROVE  (KeysAccounted /\ OneUploadPerPubkey)'
  OBVIOUS
<1> USE DEF KeysInv, KeysAccounted, OneUploadPerPubkey, limiter
\* Steps that neither admit nor release leave the picture alone.
<1>0. ASSUME Admitted' = Admitted, \A v \in Admitted : pubkey'[v] = pubkey[v],
             inflight' = inflight
      PROVE  (KeysAccounted /\ OneUploadPerPubkey)'
  BY <1>0
<1>1. ASSUME NEW u \in Requests, NEW k \in Pubkeys, Call(u, k)
      PROVE  (KeysAccounted /\ OneUploadPerPubkey)'
  BY <1>0, <1>1 DEF TypeOK, Call, GoTo, Admitted
<1>2. ASSUME NEW u \in Requests,
             Check(u) \/ TakeToken(u) \/ GiveBack(u) \/ ReleaseToken(u)
      PROVE  (KeysAccounted /\ OneUploadPerPubkey)'
  BY <1>0, <1>2
     DEF TypeOK, Check, TakeToken, GiveBack, ReleaseToken, Return, GoTo, Admitted
<1>3. ASSUME NEW u \in Requests, Recheck(u)
      PROVE  (KeysAccounted /\ OneUploadPerPubkey)'
  <2>1. CASE PubkeyFree(u)
    <3>1. Admitted' = Admitted \union {u} /\ u \notin Admitted
      BY <1>3, <2>1 DEF TypeOK, Recheck, GoTo, Admitted
    <3>2. \A v \in Admitted : pubkey[v] # pubkey[u]
      BY <2>1 DEF PubkeyFree
    <3>3. pubkey' = pubkey /\ inflight' = inflight \union {pubkey[u]}
      BY <1>3, <2>1 DEF Recheck
    <3>4. QED
      BY <3>1, <3>2, <3>3
  <2>2. CASE ~PubkeyFree(u)
    BY <1>0, <1>3, <2>2 DEF TypeOK, Recheck, GoTo, Admitted
  <2>3. QED
    BY <2>1, <2>2
<1>4. ASSUME NEW u \in Requests, ReleaseKey(u)
      PROVE  (KeysAccounted /\ OneUploadPerPubkey)'
  <2>1. Admitted' = Admitted \ {u} /\ u \in Admitted
    BY <1>4 DEF TypeOK, ReleaseKey, GoTo, Admitted
  <2>2. pubkey' = pubkey /\ inflight' = inflight \ {pubkey[u]}
    BY <1>4 DEF ReleaseKey, FreeKey
  <2>3. QED
    BY <2>1, <2>2
<1>5. CASE Restart
  BY <1>5 DEF Restart, Admitted
<1>6. CASE UNCHANGED vars
  BY <1>0, <1>6 DEF vars, Admitted
<1>7. QED
  BY <1>1, <1>2, <1>3, <1>4, <1>5, <1>6 DEF Next, Step

-----------------------------------------------------------------------------
\* No slot is lost or freed twice, for any number of requests and any cap.
THEOREM SlotsNeverLeak == SafeSpec => []TokensAccounted
<1>1. Init => TokensAccounted
  <2> SUFFICES ASSUME Init PROVE TokensAccounted
    OBVIOUS
  <2>1. TokenHolders = {}
    BY DEF Init, TokenHolders
  <2>2. QED
    BY <2>1, FS_EmptySet, ConfigsAssumption DEF Init, TokensAccounted, Capacity
<1>2. QED
  BY <1>1, TokensInductive, TypeCorrect, PTL DEF SafeSpec

\* The map of busy pubkeys is exact: nobody is locked out by an upload that
\* is over, and nobody's key is freed by another upload's release.
THEOREM KeysExact == SafeSpec => []KeysAccounted
<1>1. Init => KeysAccounted /\ OneUploadPerPubkey
  BY DEF Init, KeysAccounted, OneUploadPerPubkey, Admitted
<1>2. QED
  BY <1>1, KeysInductive, TypeCorrect, PTL DEF SafeSpec, KeysInv

\* One upload per pubkey, however many requests race for it.
THEOREM OnePerPubkey == SafeSpec => []OneUploadPerPubkey
<1>1. Init => KeysAccounted /\ OneUploadPerPubkey
  BY DEF Init, KeysAccounted, OneUploadPerPubkey, Admitted
<1>2. QED
  BY <1>1, KeysInductive, TypeCorrect, PTL DEF SafeSpec, KeysInv

LEMMA AdmittedFit == TypeOK /\ TokensAccounted => CapacityRespected
<1> SUFFICES ASSUME TypeOK, TokensAccounted PROVE CapacityRespected
  OBVIOUS
<1>1. Admitted \subseteq TokenHolders
  BY DEF Admitted, TokenHolders
<1>2. IsFiniteSet(TokenHolders)
  BY RequestsAssumption, FS_Subset DEF TokenHolders
<1>3. /\ Cardinality(Admitted) <= Cardinality(TokenHolders)
      /\ Cardinality(Admitted) \in Nat /\ Cardinality(TokenHolders) \in Nat
  BY <1>1, <1>2, FS_Subset, FS_CardinalityType
<1>4. QED
  BY <1>3, CapacityType DEF CapacityRespected, TokensAccounted

\* The global cap holds whatever was configured.
THEOREM CapRespected == SafeSpec => []CapacityRespected
  BY AdmittedFit, SlotsNeverLeak, TypeCorrect, PTL

-----------------------------------------------------------------------------
\* The instance brings its own copy of the library's cardinality.
LEMMA SameCardinality == \A S : Slots!Cardinality(S) = Cardinality(S)
  BY DEF Slots!Cardinality, Cardinality

\* The limiter implements atomic admission: each step admits one upload that
\* UploadSlots would admit, ends one, restarts, or changes nothing it can see.
THEOREM RefinesSlots == SafeSpec => Slots!SafeSpec
<1>1. Init => Slots!Init
  BY ConfigsAssumption DEF Init, Slots!Init, Uploading, Capacity
<1>2. KeysInv /\ TokensAccounted /\ [Next]_vars => [Slots!Next]_(Slots!vars)
  <2> SUFFICES ASSUME KeysInv, TokensAccounted, [Next]_vars
               PROVE  Slots!Next \/ UNCHANGED Slots!vars
    BY DEF Slots!vars
  <2>0. ASSUME NEW u \in Requests, Step(u) \/ \E k \in Pubkeys : Call(u, k)
        PROVE  Capacity' = Capacity
    BY <2>0 DEF Step, Call, Check, TakeToken, Recheck, GiveBack, ReleaseKey,
                ReleaseToken, limiter, Capacity
  <2> USE PubkeysAssumption DEF KeysInv, TypeOK, Uploading
  <2>1. ASSUME NEW u \in Requests, NEW k \in Pubkeys, Call(u, k)
        PROVE  UNCHANGED Uploading
    BY <2>1 DEF Call, GoTo
  <2>2. ASSUME NEW u \in Requests,
               Check(u) \/ TakeToken(u) \/ GiveBack(u) \/ ReleaseToken(u)
        PROVE  UNCHANGED Uploading
    BY <2>2 DEF Check, TakeToken, GiveBack, ReleaseToken, Return, GoTo
  <2>3. ASSUME NEW u \in Requests, Recheck(u), PubkeyFree(u)
        PROVE  Slots!Admit(u, pubkey[u])
    <3>1. Slots!Running = Admitted
      BY DEF Slots!Running, Admitted
    <3>2. Cardinality(Admitted) < Capacity
      <4>1. u \in TokenHolders \ Admitted /\ Admitted \subseteq TokenHolders \ {u}
        BY <2>3 DEF Recheck, TokenHolders, Admitted
      <4>2. /\ IsFiniteSet(TokenHolders \ {u})
            /\ Cardinality(TokenHolders) \in Nat
            /\ Cardinality(TokenHolders \ {u}) = Cardinality(TokenHolders) - 1
        BY <4>1, HoldersCount, FS_Subset DEF TokenHolders
      <4>3. /\ Cardinality(Admitted) <= Cardinality(TokenHolders \ {u})
            /\ Cardinality(Admitted) \in Nat
        BY <4>1, <4>2, FS_Subset, FS_CardinalityType
      <4>4. QED
        BY <4>2, <4>3, CapacityType DEF TokensAccounted
    <3>3. \A v \in Requests : Uploading[v] # pubkey[u]
      BY <2>3 DEF Recheck, PubkeyFree, KeysAccounted, Admitted
    <3>4. Uploading[u] = NoPubkey
      BY <2>3 DEF Recheck
    <3>5. Uploading' = [Uploading EXCEPT ![u] = pubkey[u]]
      BY <2>3 DEF Recheck, GoTo
    <3>6. Slots!Cardinality(Slots!Running) < Capacity
      BY <3>1, <3>2, SameCardinality
    <3>7. Capacity' = Capacity
      BY <2>0, <2>3 DEF Step
    <3>8. QED
      BY <3>3, <3>4, <3>5, <3>6, <3>7 DEF Slots!Admit, Slots!Admissible
  <2>4. ASSUME NEW u \in Requests, Recheck(u), ~PubkeyFree(u)
        PROVE  UNCHANGED Uploading
    BY <2>4 DEF Recheck, GoTo
  <2>5. ASSUME NEW u \in Requests, ReleaseKey(u) PROVE Slots!Finish(u)
    <3>1. Capacity' = Capacity
      BY <2>0, <2>5 DEF Step
    <3>2. Uploading[u] # NoPubkey /\ Uploading' = [Uploading EXCEPT ![u] = NoPubkey]
      BY <2>5 DEF ReleaseKey, GoTo
    <3>3. QED
      BY <3>1, <3>2 DEF Slots!Finish
  <2>6. ASSUME Restart PROVE Slots!Restart
    BY <2>6, ConfigsAssumption DEF Restart, Slots!Restart, Capacity
  <2>7. CASE UNCHANGED vars
    BY <2>7 DEF vars, limiter, Capacity, Slots!vars
  <2>8. ASSUME NEW u \in Requests, Recheck(u)
        PROVE  Slots!Next \/ UNCHANGED Slots!vars
    <3>1. pubkey[u] \in Pubkeys
      BY <2>8 DEF Recheck
    <3>2. CASE PubkeyFree(u)
      <4> HIDE DEF Uploading, TypeOK, KeysInv
      <4>1. Slots!Admit(u, pubkey[u])
        BY <2>3, <2>8, <3>2
      <4>2. QED
        BY <3>1, <4>1 DEF Slots!Next
    <3>3. CASE ~PubkeyFree(u)
      <4>1. Capacity' = Capacity
        BY <2>0, <2>8 DEF Step
      <4>2. QED
        BY <2>4, <2>8, <3>3, <4>1 DEF Slots!vars
    <3>4. QED
      BY <3>2, <3>3
  <2> HIDE DEF Uploading, TypeOK, KeysInv
  <2>9. ASSUME NEW u \in Requests,
               \/ \E k \in Pubkeys : Call(u, k)
               \/ Check(u) \/ TakeToken(u) \/ GiveBack(u) \/ ReleaseToken(u)
        PROVE  UNCHANGED Slots!vars
    <3>1. Capacity' = Capacity
      BY <2>0, <2>9 DEF Step
    <3>2. QED
      BY <2>1, <2>2, <2>9, <3>1 DEF Slots!vars
  <2>10. QED
    BY <2>5, <2>6, <2>7, <2>8, <2>9 DEF Next, Step, Slots!Next
<1>3. QED
  BY <1>1, <1>2, TypeCorrect, SlotsNeverLeak, KeysExact, OnePerPubkey, PTL
     DEF SafeSpec, Slots!SafeSpec, KeysInv

\* Whatever cap is configured, zero and negative ones included, and whatever
\* races went before: a limiter that no request holds a slot of admits the next
\* request that asks for one.
THEOREM EmptyAdmits == SafeSpec => EmptyLimiterAdmits
<1>1. TypeOK /\ TokensAccounted /\ [Next]_vars =>
        [\A u \in Requests :
           TakeToken(u) /\ TokenHolders = {} => u \in TokenHolders']_vars
  <2> SUFFICES ASSUME TypeOK, TokensAccounted, NEW u \in Requests, TakeToken(u),
                      TokenHolders = {}
               PROVE  u \in TokenHolders'
    OBVIOUS
  <2>1. global = 0
    BY FS_EmptySet DEF TokensAccounted
  <2>2. SlotFree
    BY <2>1, CapacityType DEF SlotFree
  <2>3. pc' = [pc EXCEPT ![u] = "recheck"]
    BY <2>2 DEF TakeToken, GoTo
  <2>4. QED
    BY <2>3 DEF TypeOK, TokenHolders
<1>2. QED
  BY <1>1, TypeCorrect, SlotsNeverLeak, PTL DEF SafeSpec, EmptyLimiterAdmits
-----------------------------------------------------------------------------
\* Whoever is about to receive from the channel finds an entry in it.
ReceivesNeverBlock ==
  \A u \in Requests : pc[u] \in {"giveBack", "drain"} => global > 0

\* The loser of a race and the second half of a release never wait: of the two
\* receives of limits.go:49 and 62, none blocks the handler that defers it.
THEOREM NeverBlocks == SafeSpec => []ReceivesNeverBlock
<1>1. TokensAccounted => ReceivesNeverBlock
  <2> SUFFICES ASSUME TokensAccounted, NEW u \in Requests, pc[u] \in {"giveBack", "drain"}
               PROVE  global > 0
    BY DEF ReceivesNeverBlock
  <2>1. u \in TokenHolders
    BY DEF TokenHolders
  <2>2. QED
    BY <2>1, HoldersCount DEF TokensAccounted, TokenHolders
<1>2. QED
  BY <1>1, SlotsNeverLeak, PTL

\* The calls a request has left inside acquire and release.
CallsLeft(label) ==
  CASE label = "check" -> 5 [] label = "token" -> 4 [] label = "recheck" -> 3
    [] label = "holding" -> 2 [] label \in {"giveBack", "drain"} -> 1
    [] OTHER -> 0

\* Each step of a request is one of the few it has left, and none of them sends
\* another request back.
RequestsAdvance ==
  [][\A u \in Requests : Step(u) =>
       /\ CallsLeft(pc'[u]) < CallsLeft(pc[u])
       /\ \A v \in Requests \ {u} : pc'[v] = pc[v]]_vars

\* A request leaves acquire and release after five steps at most, whoever races
\* with it: with NeverBlocks what CapacityComesBack needs beyond scheduling.
THEOREM RequestsRunOut == SafeSpec => RequestsAdvance
<1>1. ASSUME TypeOK, NEW u \in Requests, Step(u)
      PROVE  /\ CallsLeft(pc'[u]) < CallsLeft(pc[u])
             /\ \A v \in Requests \ {u} : pc'[v] = pc[v]
  <2>1. PICK label \in Labels :
          /\ pc' = [pc EXCEPT ![u] = label]
          /\ \/ pc[u] = "check" /\ label \in {"idle", "token"}
             \/ pc[u] = "token" /\ label \in {"idle", "recheck"}
             \/ pc[u] = "recheck" /\ label \in {"holding", "giveBack"}
             \/ pc[u] = "holding" /\ label = "drain"
             \/ pc[u] \in {"giveBack", "drain"} /\ label = "idle"
    BY <1>1 DEF Step, Check, TakeToken, Recheck, GiveBack, ReleaseKey, ReleaseToken,
                Return, GoTo, Labels
  <2>2. pc'[u] = label /\ \A v \in Requests \ {u} : pc'[v] = pc[v]
    BY <1>1, <2>1 DEF TypeOK
  <2>3. QED
    BY <2>1, <2>2 DEF CallsLeft
<1>2. TypeOK =>
        [\A u \in Requests : Step(u) =>
           /\ CallsLeft(pc'[u]) < CallsLeft(pc[u])
           /\ \A v \in Requests \ {u} : pc'[v] = pc[v]]_vars
  BY <1>1
<1>3. QED
  BY <1>2, TypeCorrect, PTL DEF SafeSpec, RequestsAdvance
=============================================================================
