------------------------- MODULE NonceReplayProofs -------------------------
(***************************************************************************)
(* Proofs about NonceReplay for every set of transactions, nonces and      *)
(* threads and every block limit.  The invariant is built in layers, each  *)
(* inductive relative to the ones below it: types; what consensus puts on  *)
(* the chain and how far results lag; how far m_blockNumber may step back;  *)
(* what the two caches hold; what a check in progress has established.     *)
(***************************************************************************)
EXTENDS NonceReplay, FiniteSetTheorems, TLAPS

\* Case split of the next-state relation, for the proofs below.
Step ==
    \/ \E S \in SUBSET Txs : Commit(S)
    \/ \E b \in Blocks : CheckNumber(b)
    \/ \E b \in Blocks : StoreNumber(b)
    \/ \E b \in Blocks : Insert(b)
    \/ \E b \in Blocks : Rotate(b)
    \/ \E k \in Checkers, t \in Txs : CheckNonce(k, t)
    \/ \E k \in Checkers : CheckBlockLimit(k)
    \/ \E k \in Checkers : EndCheck(k)
    \/ Restart
    \/ UNCHANGED vars

LEMMA NextIsStep == [Next]_vars <=> Step
BY Zenon DEF Next, Step

-----------------------------------------------------------------------------
(***************************************************************************)
(* Layer 1: types.                                                         *)
(***************************************************************************)
LEMMA NoncesTyped == \A S \in SUBSET Txs : NoncesOf(S) \subseteq Nonces
BY LedgerAssumption DEF NoncesOf

LEMMA InitTypeOK == Init => TypeOK
BY LedgerAssumption
   DEF Init, TypeOK, LedgerInit, CheckerInit, CheckerTypeOK, Stages, Phases, Blocks

\* Every step keeps every variable in its range.
LEMMA StepTypeOK == TypeOK /\ [Next]_vars => TypeOK'
<1> SUFFICES ASSUME TypeOK, Step PROVE TypeOK'
  BY NextIsStep
<1> USE LedgerAssumption
<1>1. CASE \E S \in SUBSET Txs : Commit(S)
  BY <1>1 DEF Commit, CommitBlock, TypeOK, CheckerTypeOK, checkerVars, checkVars, Stages, Blocks
<1>2. CASE \E b \in Blocks : CheckNumber(b)
  BY <1>2 DEF CheckNumber, TypeOK, CheckerTypeOK, ledgerVars, checkerVars, checkVars, Stages
<1>3. CASE \E b \in Blocks : StoreNumber(b)
  BY <1>3 DEF StoreNumber, StoreBlockNumber, TypeOK, CheckerTypeOK, ledgerVars, checkVars,
     Stages, Blocks
<1>4. CASE \E b \in Blocks : Insert(b)
  BY <1>4, NoncesTyped DEF Insert, InsertNonces, TypeOK, CheckerTypeOK, ledgerVars, checkVars,
     Stages
<1>5. CASE \E b \in Blocks : Rotate(b)
  <2> PICK b \in Blocks : Rotate(b)
    BY <1>5
  <2>1. NoncesOf(chain[b]) \subseteq Nonces
    BY NoncesTyped DEF TypeOK
  <2>2. CheckerTypeOK'
    BY <2>1 DEF Rotate, RotateNonceCache, TypeOK, CheckerTypeOK, Expired
  <2> QED
    BY <2>2 DEF Rotate, TypeOK, ledgerVars, checkVars, Stages
<1>6. CASE \E k \in Checkers, t \in Txs : CheckNonce(k, t)
  BY <1>6 DEF CheckNonce, TypeOK, CheckerTypeOK, ledgerVars, checkerVars, Phases, Applied
<1>7. CASE \E k \in Checkers : CheckBlockLimit(k)
  BY <1>7 DEF CheckBlockLimit, TypeOK, CheckerTypeOK, ledgerVars, checkerVars, Phases
<1>8. CASE \E k \in Checkers : EndCheck(k)
  BY <1>8 DEF EndCheck, TypeOK, CheckerTypeOK, ledgerVars, checkerVars, Phases
<1>9. CASE Restart
  <2>1. HistoryWindow \subseteq Blocks
    BY DEF HistoryWindow, TypeOK, Blocks
  <2>2. TxsOf(HistoryWindow) \in SUBSET Txs
    BY <2>1 DEF TxsOf, TypeOK
  <2>3. /\ m_blockNumber' \in 0 .. MaxBlock
        /\ m_nonceCache' \subseteq Nonces
    BY <1>9, <2>2, NoncesTyped DEF Restart, InitNonceCache, TypeOK
  <2>4. \A b \in HistoryWindow : NoncesOf(chain[b]) \subseteq Nonces
    BY <2>1, NoncesTyped DEF TypeOK
  <2>5. /\ DOMAIN m_blockNonceCache' \subseteq Blocks
        /\ \A b \in DOMAIN m_blockNonceCache' : m_blockNonceCache'[b] \subseteq Nonces
    BY <1>9, <2>1, <2>4 DEF Restart, InitNonceCache
  <2> QED
    BY <1>9, <2>3, <2>5 DEF Restart, TypeOK, CheckerTypeOK, ledgerVars, Stages, Phases
<1>10. CASE UNCHANGED vars
  BY <1>10 DEF vars, TypeOK, CheckerTypeOK, ledgerVars, checkerVars, checkVars
<1> QED
  BY <1>1, <1>2, <1>3, <1>4, <1>5, <1>6, <1>7, <1>8, <1>9, <1>10 DEF Step

\* The type invariant holds of every behaviour.
THEOREM TypeCorrect == Spec => []TypeOK
<1>1. Init => TypeOK
  BY InitTypeOK
<1>2. TypeOK /\ [Next]_vars => TypeOK'
  BY StepTypeOK
<1> QED
  BY <1>1, <1>2, PTL DEF Spec

-----------------------------------------------------------------------------
(***************************************************************************)
(* Layer 2: the chain, and how far the results of its blocks lag behind.   *)
(***************************************************************************)
ChainInv ==
    /\ \A b \in Blocks : stage[b] = "absent" <=> height < b
    /\ \A b \in Blocks : height < b => chain[b] = {}

\* The outstanding results are those of the last blocks.
LagInv ==
    \A b \in Blocks : stage[b] \notin {"absent", "done"} => height - MaxLag < b

\* What the blocks were checked for when they committed.
EligibleInv ==
    /\ \A b \in Blocks : \A t \in chain[b] : LimitOf[t] < b + BlockLimit
    /\ \A b, c \in Blocks, n \in Nonces :
         b < c /\ n \in NoncesOf(chain[b]) /\ n \in NoncesOf(chain[c])
             => b + BlockLimit + MaxLag <= c

LedgerInv == ChainInv /\ LagInv /\ EligibleInv

LEMMA InitLedgerInv == Init => LedgerInv
BY LedgerAssumption
   DEF Init, LedgerInit, LedgerInv, ChainInv, LagInv, EligibleInv, Blocks, NoncesOf

\* The steps of a block result leave the ledger alone and only advance a
\* committed block.
LEMMA StageStep ==
    ASSUME TypeOK, LedgerInv, NEW b \in Blocks, stage[b] \notin {"absent", "done"},
           NEW s \in Stages \ {"absent"}, stage' = [stage EXCEPT ![b] = s],
           UNCHANGED ledgerVars
    PROVE  LedgerInv'
BY LedgerAssumption
   DEF TypeOK, LedgerInv, ChainInv, LagInv, EligibleInv, ledgerVars, Blocks, NoncesOf

LEMMA StepLedgerInv == TypeOK /\ TypeOK' /\ LedgerInv /\ [Next]_vars => LedgerInv'
<1> SUFFICES ASSUME TypeOK, TypeOK', LedgerInv, Step PROVE LedgerInv'
  BY NextIsStep
<1> USE LedgerAssumption
<1>1. CASE \E S \in SUBSET Txs : Commit(S)
  <2> PICK S \in SUBSET Txs : Commit(S)
    BY <1>1
  <2> DEFINE top == height + 1
  <2>1. /\ height < MaxBlock /\ height \in Nat /\ MaxBlock \in Nat
        /\ top \in Blocks /\ height' = top
        /\ chain' = [chain EXCEPT ![top] = S]
        /\ stage' = [stage EXCEPT ![top] = "committed"]
    BY DEF Commit, CommitBlock, TypeOK, Blocks
  <2>2. ChainInv'
    BY <2>1 DEF LedgerInv, ChainInv, TypeOK, Blocks
  <2>3. LagInv'
    <3> SUFFICES ASSUME NEW b \in Blocks, stage'[b] \notin {"absent", "done"}
                 PROVE  height' - MaxLag < b
      BY DEF LagInv
    <3>1. CASE b = top
      BY <3>1, <2>1
    <3>2. CASE b # top
      <4>1. stage[b] # "done"
        BY <3>2, <2>1 DEF TypeOK
      <4>2. ~(b <= height + 1 - MaxLag)
        BY <4>1 DEF Commit
      <4> QED
        BY <4>2, <2>1 DEF Blocks
    <3> QED
      BY <3>1, <3>2
  <2>4. \A b \in Blocks : \A t \in chain'[b] : LimitOf[t] < b + BlockLimit
    <3> TAKE b \in Blocks
    <3>1. CASE b = top
      BY <3>1, <2>1 DEF Commit, CommitBlock, Eligible, TypeOK
    <3>2. CASE b # top
      BY <3>2, <2>1 DEF LedgerInv, EligibleInv, TypeOK
    <3> QED
      BY <3>1, <3>2
  <2>5. ASSUME NEW b \in Blocks, NEW c \in Blocks, NEW n \in Nonces, b < c,
               n \in NoncesOf(chain'[b]), n \in NoncesOf(chain'[c])
        PROVE  b + BlockLimit + MaxLag <= c
    <3>1. \A x \in Blocks : x # top => chain'[x] = chain[x]
      BY <2>1 DEF TypeOK
    <3>2. CASE c = top
      <4>1. chain'[c] = S /\ b \in 1 .. height /\ b # top
        BY <3>2, <2>1, <2>5 DEF TypeOK, Blocks
      <4>2. PICK t \in S : n = NonceOf[t]
        BY <4>1, <2>5 DEF NoncesOf
      <4>3. NonceOf[t] \in NoncesOf(chain[b])
        BY <4>1, <4>2, <3>1, <2>5
      <4> QED
        BY <4>1, <4>3, <3>2 DEF Commit, CommitBlock, Eligible
    <3>3. CASE c # top /\ b = top
      <4>1. chain'[c] = {}
        BY <3>3, <3>1, <2>1, <2>5 DEF LedgerInv, ChainInv, Blocks
      <4> QED
        BY <4>1, <2>5 DEF NoncesOf
    <3>4. CASE c # top /\ b # top
      BY <3>4, <3>1, <2>5 DEF LedgerInv, EligibleInv
    <3> QED
      BY <3>2, <3>3, <3>4
  <2> QED
    BY <2>2, <2>3, <2>4, <2>5 DEF LedgerInv, EligibleInv
<1>2. CASE \E b \in Blocks : CheckNumber(b)
  BY <1>2, StageStep DEF CheckNumber, Stages
<1>3. CASE \E b \in Blocks : StoreNumber(b)
  BY <1>3, StageStep DEF StoreNumber, Stages
<1>4. CASE \E b \in Blocks : Insert(b)
  BY <1>4, StageStep DEF Insert, Stages
<1>5. CASE \E b \in Blocks : Rotate(b)
  BY <1>5, StageStep DEF Rotate, Stages
<1>6. CASE \E k \in Checkers, t \in Txs : CheckNonce(k, t)
  BY <1>6 DEF CheckNonce, LedgerInv, ChainInv, LagInv, EligibleInv, ledgerVars, NoncesOf
<1>7. CASE \E k \in Checkers : CheckBlockLimit(k)
  BY <1>7 DEF CheckBlockLimit, LedgerInv, ChainInv, LagInv, EligibleInv, ledgerVars, NoncesOf
<1>8. CASE \E k \in Checkers : EndCheck(k)
  BY <1>8 DEF EndCheck, LedgerInv, ChainInv, LagInv, EligibleInv, ledgerVars, NoncesOf
<1>9. CASE Restart
  BY <1>9 DEF Restart, TypeOK, LedgerInv, ChainInv, LagInv, EligibleInv, ledgerVars, NoncesOf,
     Blocks
<1>10. CASE UNCHANGED vars
  BY <1>10 DEF vars, LedgerInv, ChainInv, LagInv, EligibleInv, ledgerVars, NoncesOf
<1> QED
  BY <1>1, <1>2, <1>3, <1>4, <1>5, <1>6, <1>7, <1>8, <1>9, <1>10 DEF Step

-----------------------------------------------------------------------------
(***************************************************************************)
(* Layer 3: m_blockNumber may step back, but never by MaxLag or more below *)
(* a block that has passed its store.                                      *)
(***************************************************************************)
NumberInv ==
    \A b \in Blocks :
        stage[b] \in {"numbered", "inserted", "done"} => b - MaxLag < m_blockNumber

LEMMA InitNumberInv == Init => NumberInv
BY DEF Init, NumberInv

LEMMA StepNumberInv ==
    TypeOK /\ TypeOK' /\ LedgerInv /\ NumberInv /\ [Next]_vars => NumberInv'
<1> SUFFICES ASSUME TypeOK, TypeOK', LedgerInv, NumberInv, Step PROVE NumberInv'
  BY NextIsStep
<1> USE LedgerAssumption
<1>1. CASE \E S \in SUBSET Txs : Commit(S)
  BY <1>1 DEF Commit, CommitBlock, NumberInv, TypeOK, checkerVars, Blocks
<1>2. CASE \E b \in Blocks : CheckNumber(b)
  BY <1>2 DEF CheckNumber, NumberIsOlder, NumberInv, TypeOK, CheckerTypeOK, checkerVars, Blocks
<1>3. CASE \E b \in Blocks : StoreNumber(b)
  <2> PICK b \in Blocks : StoreNumber(b)
    BY <1>3
  <2>1. height - MaxLag < b /\ m_blockNumber' = b
    BY DEF StoreNumber, StoreBlockNumber, LedgerInv, LagInv
  <2>2. \A x \in Blocks : stage[x] # "absent" => x <= height
    BY DEF LedgerInv, ChainInv, TypeOK, Blocks
  <2>3. \A x \in Blocks : stage'[x] # "absent" => stage[x] # "absent"
    BY DEF StoreNumber, TypeOK
  <2> QED
    BY <2>1, <2>2, <2>3 DEF NumberInv, TypeOK, Blocks
<1>4. CASE \E b \in Blocks : Insert(b)
  BY <1>4 DEF Insert, NumberInv, TypeOK
<1>5. CASE \E b \in Blocks : Rotate(b)
  BY <1>5 DEF Rotate, NumberInv, TypeOK
<1>6. CASE \E k \in Checkers, t \in Txs : CheckNonce(k, t)
  BY <1>6 DEF CheckNonce, NumberInv, checkerVars
<1>7. CASE \E k \in Checkers : CheckBlockLimit(k)
  BY <1>7 DEF CheckBlockLimit, NumberInv, checkerVars
<1>8. CASE \E k \in Checkers : EndCheck(k)
  BY <1>8 DEF EndCheck, NumberInv, checkerVars
<1>9. CASE Restart
  BY <1>9 DEF Restart, InitNonceCache, NumberInv, TypeOK, Blocks
<1>10. CASE UNCHANGED vars
  BY <1>10 DEF vars, NumberInv, checkerVars
<1> QED
  BY <1>1, <1>2, <1>3, <1>4, <1>5, <1>6, <1>7, <1>8, <1>9, <1>10 DEF Step

-----------------------------------------------------------------------------
(***************************************************************************)
(* Layer 4: the two caches.                                                *)
(***************************************************************************)
\* m_blockNonceCache holds the applied blocks that no applied block expires.
MapInv ==
    /\ DOMAIN m_blockNonceCache = {b \in Applied : b + BlockLimit \notin Applied}
    /\ \A b \in DOMAIN m_blockNonceCache : m_blockNonceCache[b] = NoncesOf(chain[b])

CacheInv == MapInv /\ CacheExact

LEMMA InitCacheInv == Init => CacheInv
BY DEF Init, CacheInv, MapInv, CacheExact, CheckerInit, LedgerInit, Held, Applied, NoncesOf

\* The same caches, applied blocks, inserted blocks and contents: the same claim.
LEMMA CacheFrame ==
    ASSUME CacheInv, UNCHANGED <<m_nonceCache, m_blockNonceCache>>,
           Applied' = Applied,
           \A b \in Blocks : (stage'[b] \in {"inserted", "done"}) = (stage[b] \in {"inserted", "done"}),
           \A b \in Blocks : stage[b] \in {"inserted", "done"} => chain'[b] = chain[b]
    PROVE  CacheInv'
<1>1. \A b \in Blocks : Held(b)' = Held(b)
  BY DEF Held
<1>2. \A b \in Blocks : Held(b) => NoncesOf(chain[b])' = NoncesOf(chain[b])
  BY DEF Held, NoncesOf
<1>3. \A b \in Applied : NoncesOf(chain[b])' = NoncesOf(chain[b])
  BY DEF Applied, NoncesOf
<1>4. MapInv'
  BY <1>3 DEF CacheInv, MapInv
<1>5. CacheExact'
  BY <1>1, <1>2 DEF CacheInv, CacheExact
<1> QED
  BY <1>4, <1>5 DEF CacheInv

\* Where the results lag less than the window, a block whose own result is
\* outstanding is not expired, and what it expires has been applied.
LEMMA WindowClosed ==
    ASSUME SafeConfiguration, TypeOK, LedgerInv,
           NEW b \in Blocks, stage[b] \notin {"absent", "done"}
    PROVE  /\ b + BlockLimit \notin Applied
           /\ b - BlockLimit \in Blocks => b - BlockLimit \in Applied
           /\ \A x \in Blocks : x + BlockLimit + MaxLag <= b => x + BlockLimit \in Applied
           /\ \A x \in Blocks : x <= b - BlockLimit => x \in Applied
<1>1. b \in Nat /\ height \in Nat /\ b <= height /\ height - MaxLag < b
  BY DEF TypeOK, LedgerInv, ChainInv, LagInv, Blocks
<1>2. \A x \in Blocks : x <= height /\ x <= height - MaxLag => x \in Applied
  BY <1>1, LedgerAssumption DEF LedgerInv, ChainInv, LagInv, Applied, Blocks
<1>3. \A x \in Applied : x <= height
  BY <1>1, LedgerAssumption DEF LedgerInv, ChainInv, Applied, Blocks
<1>4. MaxLag <= BlockLimit /\ MaxLag \in Nat /\ BlockLimit \in Nat /\ MaxLag > 0
  BY LedgerAssumption DEF SafeConfiguration
<1>5. b + BlockLimit \notin Applied
  BY <1>1, <1>3, <1>4
<1>6. \A x \in Blocks : x <= b - BlockLimit => x \in Applied
  <2> SUFFICES ASSUME NEW x \in Blocks, x <= b - BlockLimit PROVE x \in Applied
    OBVIOUS
  <2>1. x \in Int /\ x <= height - MaxLag /\ x <= height
    BY <1>1, <1>4 DEF Blocks
  <2> QED
    BY <1>2, <2>1
<1>7. \A x \in Blocks : x + BlockLimit + MaxLag <= b => x + BlockLimit \in Applied
  <2> SUFFICES ASSUME NEW x \in Blocks, x + BlockLimit + MaxLag <= b
               PROVE  x + BlockLimit \in Applied
    OBVIOUS
  <2>1. /\ x + BlockLimit \in Blocks
        /\ x + BlockLimit <= height /\ x + BlockLimit <= height - MaxLag
    BY <1>1, <1>4, LedgerAssumption DEF Blocks
  <2> QED
    BY <1>2, <2>1
<1>8. b - BlockLimit \in Blocks => b - BlockLimit \in Applied
  BY <1>6, <1>1, <1>4
<1> QED
  BY <1>5, <1>6, <1>7, <1>8

LEMMA StepCacheInv ==
    ASSUME SafeConfiguration
    PROVE  TypeOK /\ TypeOK' /\ LedgerInv /\ LedgerInv' /\ CacheInv /\ [Next]_vars => CacheInv'
<1> SUFFICES ASSUME TypeOK, TypeOK', LedgerInv, LedgerInv', CacheInv, Step PROVE CacheInv'
  BY NextIsStep
<1> USE LedgerAssumption
<1>1. CASE \E S \in SUBSET Txs : Commit(S)
  <2> PICK S \in SUBSET Txs : Commit(S)
    BY <1>1
  <2>1. /\ stage' = [stage EXCEPT ![height + 1] = "committed"]
        /\ chain' = [chain EXCEPT ![height + 1] = S]
        /\ UNCHANGED <<m_nonceCache, m_blockNonceCache>>
        /\ height + 1 \in Blocks
    BY DEF Commit, CommitBlock, checkerVars, TypeOK, Blocks
  <2>2. stage[height + 1] = "absent"
    BY <2>1 DEF LedgerInv, ChainInv, TypeOK, Blocks
  <2>3. Applied' = Applied
    BY <2>1, <2>2 DEF Applied, TypeOK
  <2> QED
    BY <2>1, <2>2, <2>3, CacheFrame DEF TypeOK
<1>2. CASE \E b \in Blocks : CheckNumber(b)
  <2> PICK b \in Blocks : CheckNumber(b)
    BY <1>2
  <2>1. Applied' = Applied
    BY DEF CheckNumber, Applied, TypeOK
  <2> QED
    BY <2>1, CacheFrame DEF CheckNumber, TypeOK, ledgerVars, checkerVars
<1>3. CASE \E b \in Blocks : StoreNumber(b)
  <2> PICK b \in Blocks : StoreNumber(b)
    BY <1>3
  <2>1. Applied' = Applied
    BY DEF StoreNumber, Applied, TypeOK
  <2> QED
    BY <2>1, CacheFrame DEF StoreNumber, TypeOK, ledgerVars
<1>4. CASE \E b \in Blocks : Insert(b)
  <2> PICK b \in Blocks : Insert(b)
    BY <1>4
  <2>1. /\ stage[b] = "numbered" /\ stage' = [stage EXCEPT ![b] = "inserted"]
        /\ m_nonceCache' = m_nonceCache \cup NoncesOf(chain[b])
        /\ chain' = chain /\ m_blockNonceCache' = m_blockNonceCache
    BY DEF Insert, InsertNonces, ledgerVars
  <2>2. Applied' = Applied
    BY <2>1 DEF Applied, TypeOK
  <2>3. b + BlockLimit \notin Applied
    BY <2>1, WindowClosed
  <2>4. \A x \in Blocks : Held(x)' <=> Held(x) \/ x = b
    BY <2>1, <2>2, <2>3 DEF Held, TypeOK
  <2>5. \A x \in Blocks : NoncesOf(chain[x])' = NoncesOf(chain[x])
    BY <2>1 DEF NoncesOf
  <2>6. CacheExact'
    BY <2>1, <2>4, <2>5 DEF CacheInv, CacheExact
  <2>7. MapInv'
    BY <2>1, <2>2, <2>5 DEF CacheInv, MapInv, Applied
  <2> QED
    BY <2>6, <2>7 DEF CacheInv
<1>5. CASE \E b \in Blocks : Rotate(b)
  <2> PICK b \in Blocks : Rotate(b)
    BY <1>5
  <2> DEFINE old == b - BlockLimit
  <2>1. /\ stage[b] = "inserted" /\ stage' = [stage EXCEPT ![b] = "done"]
        /\ chain' = chain
        /\ RotateNonceCache(b, NoncesOf(chain[b]))
    BY DEF Rotate, ledgerVars
  <2>2. Applied' = Applied \cup {b} /\ b \notin Applied
    BY <2>1 DEF Applied, TypeOK
  <2>3. /\ b + BlockLimit \notin Applied
        /\ old \in Blocks => old \in Applied
        /\ \A x \in Blocks : x + BlockLimit + MaxLag <= b => x + BlockLimit \in Applied
    BY <2>1, WindowClosed
  <2>4. \A x \in Blocks : NoncesOf(chain[x])' = NoncesOf(chain[x])
    BY <2>1 DEF NoncesOf
  <2>5. Expired(b) = IF old \in Blocks THEN {old} ELSE {}
    <3>1. Applied \subseteq Blocks /\ b \in Int /\ BlockLimit \in Int
      BY DEF Applied, Blocks
    <3>2. old \in Blocks => old + BlockLimit = b
      BY <3>1
    <3>3. old \in DOMAIN m_blockNonceCache <=> old \in Blocks
      BY <2>2, <2>3, <3>1, <3>2 DEF CacheInv, MapInv
    <3> QED
      BY <3>3 DEF Expired
  <2>6. MapInv'
    <3>1. DOMAIN m_blockNonceCache' = (DOMAIN m_blockNonceCache \cup {b}) \ Expired(b)
      BY <2>1 DEF RotateNonceCache
    <3>2. \A x \in Blocks : x + BlockLimit = b <=> x = old
      BY DEF Blocks
    <3>3. DOMAIN m_blockNonceCache' = {x \in Applied' : x + BlockLimit \notin Applied'}
      <4>1. \A x \in Blocks : x \in DOMAIN m_blockNonceCache' <=>
              (x \in Applied \/ x = b) /\ (x = b \/ x + BlockLimit \notin Applied) /\ x # old
        BY <3>1, <2>2, <2>5 DEF CacheInv, MapInv, Blocks
      <4>2. b + BlockLimit # b /\ b # old
        BY DEF Blocks
      <4>3. \A x \in Blocks : x + BlockLimit \notin Applied' <=>
              x + BlockLimit \notin Applied /\ x # old
        BY <2>2, <3>2
      <4>4. DOMAIN m_blockNonceCache' \subseteq Blocks /\ Applied' \subseteq Blocks
        BY DEF TypeOK, CheckerTypeOK, Applied
      <4> QED
        BY <4>1, <4>2, <4>3, <4>4, <2>2, <2>3
    <3>4. \A x \in DOMAIN m_blockNonceCache' : m_blockNonceCache'[x] = NoncesOf(chain[x])
      BY <2>1, <3>1 DEF RotateNonceCache, CacheInv, MapInv
    <3>5. \A x \in DOMAIN m_blockNonceCache' : x \in Blocks
      BY DEF TypeOK, CheckerTypeOK
    <3> QED
      BY <3>3, <3>4, <3>5, <2>4 DEF MapInv
  <2>7. CacheExact'
    <3>1. \A x \in Blocks : Held(x)' <=> Held(x) /\ x # old
      <4>1. \A x \in Blocks : x + BlockLimit = b <=> x = old
        BY DEF Blocks
      <4> QED
        BY <2>1, <2>2, <4>1 DEF Held, TypeOK
    <3>2. CASE old \notin Blocks
      <4>1. m_nonceCache' = m_nonceCache
        BY <3>2, <2>1, <2>5 DEF RotateNonceCache
      <4> QED
        BY <4>1, <3>1, <3>2, <2>4 DEF CacheInv, CacheExact
    <3>3. CASE old \in Blocks
      <4>1. m_nonceCache' = m_nonceCache \ NoncesOf(chain[old])
        <5>1. m_blockNonceCache[old] = NoncesOf(chain[old])
          BY <3>3, <2>5 DEF CacheInv, MapInv, Expired
        <5> QED
          BY <5>1, <3>3, <2>1, <2>5 DEF RotateNonceCache
      <4>2. ASSUME NEW x \in Blocks, Held(x), x # old, NEW n \in Nonces,
                   n \in NoncesOf(chain[x]), n \in NoncesOf(chain[old])
            PROVE  FALSE
        <5>1. CASE x < old
          <6>1. x + BlockLimit + MaxLag <= old
            BY <5>1, <4>2, <3>3 DEF LedgerInv, EligibleInv
          <6>2. x + BlockLimit + MaxLag <= b
            BY <6>1 DEF Blocks
          <6> QED
            BY <6>2, <2>3, <4>2 DEF Held
        <5>2. CASE old < x
          <6>1. old + BlockLimit + MaxLag <= x
            BY <5>2, <4>2, <3>3 DEF LedgerInv, EligibleInv
          <6>2. x <= height
            BY <4>2 DEF Held, LedgerInv, ChainInv, TypeOK, Blocks
          <6>3. height - MaxLag < b
            BY <2>1 DEF LedgerInv, LagInv
          <6> QED
            BY <6>1, <6>2, <6>3 DEF TypeOK, Blocks
        <5> QED
          BY <5>1, <5>2, <4>2, <3>3 DEF Blocks
      <4>3. ASSUME NEW n \in Nonces
            PROVE  n \in m_nonceCache' <=>
                     \E x \in Blocks : Held(x)' /\ n \in NoncesOf(chain[x])'
        <5>1. n \in m_nonceCache <=> \E x \in Blocks : Held(x) /\ n \in NoncesOf(chain[x])
          BY DEF CacheInv, CacheExact
        <5> QED
          BY <5>1, <4>1, <4>2, <3>1, <2>4
      <4> QED
        BY <4>3 DEF CacheExact
    <3> QED
      BY <3>2, <3>3
  <2> QED
    BY <2>6, <2>7 DEF CacheInv
<1>6. CASE \E k \in Checkers, t \in Txs : CheckNonce(k, t)
  BY <1>6, CacheFrame DEF CheckNonce, Applied, ledgerVars, checkerVars
<1>7. CASE \E k \in Checkers : CheckBlockLimit(k)
  BY <1>7, CacheFrame DEF CheckBlockLimit, Applied, ledgerVars, checkerVars
<1>8. CASE \E k \in Checkers : EndCheck(k)
  BY <1>8, CacheFrame DEF EndCheck, Applied, ledgerVars, checkerVars
<1>9. CASE Restart
  <2>1. /\ height > BlockLimit /\ height \in Nat /\ chain' = chain /\ height' = height
        /\ stage' = [b \in Blocks |-> IF b <= height THEN "done" ELSE "absent"]
        /\ m_blockNonceCache' = [b \in HistoryWindow |-> NoncesOf(chain[b])]
        /\ m_nonceCache' = NoncesOf(TxsOf(HistoryWindow))
    BY <1>9, ReplayAssumption
       DEF Restart, InitNonceCache, SafeConfiguration, ledgerVars, TypeOK
  <2>2. Applied' = {b \in Blocks : b <= height}
    BY <2>1 DEF Applied
  <2>3. HistoryWindow = {b \in Applied' : b + BlockLimit \notin Applied'}
    BY <2>1, <2>2 DEF HistoryWindow, TypeOK, Blocks
  <2>4. \A b \in Blocks : NoncesOf(chain[b])' = NoncesOf(chain[b])
    BY <2>1 DEF NoncesOf
  <2>5. \A b \in Blocks : Held(b)' <=> b \in HistoryWindow
    BY <2>1, <2>2, <2>3 DEF Held
  <2>6. \A n \in Nonces : n \in m_nonceCache' <=>
          \E b \in HistoryWindow : n \in NoncesOf(chain[b])
    BY <2>1 DEF NoncesOf, TxsOf
  <2>7. HistoryWindow \subseteq Blocks
    BY <2>2, <2>3
  <2>8. CacheExact'
    BY <2>4, <2>5, <2>6, <2>7 DEF CacheExact
  <2>9. MapInv'
    BY <2>1, <2>3, <2>4, <2>7 DEF MapInv
  <2> QED
    BY <2>8, <2>9 DEF CacheInv
<1>10. CASE UNCHANGED vars
  BY <1>10, CacheFrame DEF vars, Applied, ledgerVars, checkerVars
<1> QED
  BY <1>1, <1>2, <1>3, <1>4, <1>5, <1>6, <1>7, <1>8, <1>9, <1>10 DEF Step

-----------------------------------------------------------------------------
(***************************************************************************)
(* Layer 5: the checks in progress.                                        *)
(***************************************************************************)
\* A check that passed its first half either looks at a transaction of no
\* block it should know, or at one of a block whose expiry has been applied.
CheckInv ==
    \A k \in Checkers :
        /\ seen[k] \subseteq Applied
        /\ pc[k] \in {"checking", "accepted"} => subject[k] \in Txs
        /\ pc[k] = "checking" =>
             \A b \in seen[k] : subject[k] \in chain[b] => b + BlockLimit \in Applied

ReplayInv == CheckInv /\ NoReplay

LEMMA InitReplayInv == Init => ReplayInv
BY DEF Init, ReplayInv, CheckInv, NoReplay

\* Nothing that a check relies on is lost when more blocks are applied.
LEMMA ReplayFrame ==
    ASSUME ReplayInv, UNCHANGED checkVars, Applied \subseteq Applied',
           \A b \in Applied : chain'[b] = chain[b]
    PROVE  ReplayInv'
<1>1. \A k \in Checkers : \A b \in seen[k] : chain'[b] = chain[b]
  BY DEF ReplayInv, CheckInv
<1>2. CheckInv'
  BY <1>1 DEF ReplayInv, CheckInv, checkVars
<1>3. NoReplay'
  BY <1>1 DEF ReplayInv, NoReplay, TxsOf, checkVars
<1> QED
  BY <1>2, <1>3 DEF ReplayInv

\* A forgotten block's transactions have reached their block limit.
LEMMA ExpiredIsRefused ==
    ASSUME SafeConfiguration, TypeOK, LedgerInv, NumberInv,
           NEW b \in Blocks, b + BlockLimit \in Applied, NEW t \in chain[b]
    PROVE  ~BlockLimitOK(t)
<1>1. LimitOf[t] < b + BlockLimit /\ t \in Txs
  BY DEF LedgerInv, EligibleInv, TypeOK
<1>2. (b + BlockLimit) - MaxLag < m_blockNumber
  <2>1. b + BlockLimit \in Blocks /\ stage[b + BlockLimit] = "done"
    BY DEF Applied
  <2>2. \A x \in Blocks : stage[x] = "done" => x - MaxLag < m_blockNumber
    BY DEF NumberInv
  <2> QED
    BY <2>1, <2>2, Zenon
<1>3. LimitOf[t] \in Nat /\ MaxLag \in Nat /\ BlockLimit \in Nat /\ b \in Nat /\ m_blockNumber \in Nat
  BY <1>1, LedgerAssumption DEF TypeOK, CheckerTypeOK, Blocks
<1> QED
  BY <1>1, <1>2, <1>3 DEF BlockLimitOK, SafeConfiguration

LEMMA StepReplayInv ==
    ASSUME SafeConfiguration
    PROVE  TypeOK /\ TypeOK' /\ LedgerInv /\ NumberInv /\ CacheInv /\ ReplayInv /\ [Next]_vars
             => ReplayInv'
<1> SUFFICES ASSUME TypeOK, TypeOK', LedgerInv, NumberInv, CacheInv, ReplayInv, Step
             PROVE  ReplayInv'
  BY NextIsStep
<1>1. CASE \E S \in SUBSET Txs : Commit(S)
  <2> PICK S \in SUBSET Txs : Commit(S)
    BY <1>1
  <2>1. /\ stage' = [stage EXCEPT ![height + 1] = "committed"]
        /\ chain' = [chain EXCEPT ![height + 1] = S]
        /\ UNCHANGED checkVars
        /\ height + 1 \in Blocks
    BY LedgerAssumption DEF Commit, CommitBlock, TypeOK, Blocks
  <2>2. stage[height + 1] = "absent"
    BY <2>1 DEF LedgerInv, ChainInv, TypeOK, Blocks
  <2> QED
    BY <2>1, <2>2, ReplayFrame DEF Applied, TypeOK
<1>2. CASE \E b \in Blocks : CheckNumber(b)
  BY <1>2, ReplayFrame DEF CheckNumber, TypeOK, Applied, ledgerVars
<1>3. CASE \E b \in Blocks : StoreNumber(b)
  BY <1>3, ReplayFrame DEF StoreNumber, TypeOK, Applied, ledgerVars
<1>4. CASE \E b \in Blocks : Insert(b)
  BY <1>4, ReplayFrame DEF Insert, TypeOK, Applied, ledgerVars
<1>5. CASE \E b \in Blocks : Rotate(b)
  BY <1>5, ReplayFrame DEF Rotate, TypeOK, Applied, ledgerVars
<1>6. CASE \E k \in Checkers, t \in Txs : CheckNonce(k, t)
  <2> PICK k \in Checkers, t \in Txs : CheckNonce(k, t)
    BY <1>6
  <2>1. /\ UNCHANGED <<stage, chain, m_nonceCache>>
        /\ pc' = [pc EXCEPT ![k] = IF NonceFree(t) THEN "checking" ELSE "refused"]
        /\ subject' = [subject EXCEPT ![k] = t]
        /\ seen' = [seen EXCEPT ![k] = Applied]
        /\ Applied' = Applied
    BY DEF CheckNonce, ledgerVars, checkerVars, Applied
  <2>2. ASSUME NonceFree(t), NEW b \in Applied, t \in chain[b]
        PROVE  b + BlockLimit \in Applied
    <3>1. b \in Blocks /\ stage[b] = "done"
      BY <2>2 DEF Applied
    <3>2. NonceOf[t] \in NoncesOf(chain[b]) /\ NonceOf[t] \in Nonces
      BY <2>2, LedgerAssumption DEF NoncesOf
    <3>3. ~Held(b)
      BY <2>2, <3>1, <3>2 DEF CacheInv, CacheExact, NonceFree
    <3> QED
      BY <3>1, <3>3 DEF Held
  <2>3. CheckInv'
    BY <2>1, <2>2 DEF ReplayInv, CheckInv, TypeOK
  <2>4. NoReplay'
    BY <2>1 DEF ReplayInv, NoReplay, TypeOK, TxsOf
  <2> QED
    BY <2>3, <2>4 DEF ReplayInv
<1>7. CASE \E k \in Checkers : CheckBlockLimit(k)
  <2> PICK k \in Checkers : CheckBlockLimit(k)
    BY <1>7
  <2>1. /\ UNCHANGED <<stage, chain, subject, seen>>
        /\ pc[k] = "checking"
        /\ pc' = [pc EXCEPT ![k] = IF BlockLimitOK(subject[k]) THEN "accepted" ELSE "refused"]
        /\ Applied' = Applied
    BY DEF CheckBlockLimit, ledgerVars, Applied
  <2>2. ASSUME BlockLimitOK(subject[k]) PROVE subject[k] \notin TxsOf(seen[k])
    <3> SUFFICES ASSUME NEW b \in seen[k], subject[k] \in chain[b] PROVE FALSE
      BY DEF TxsOf
    <3>1. b \in Blocks /\ b + BlockLimit \in Applied
      BY <2>1 DEF ReplayInv, CheckInv, Applied
    <3> QED
      BY <2>2, <3>1, ExpiredIsRefused
  <2>3. CheckInv'
    BY <2>1 DEF ReplayInv, CheckInv, TypeOK
  <2>4. NoReplay'
    BY <2>1, <2>2 DEF ReplayInv, NoReplay, TypeOK, TxsOf
  <2> QED
    BY <2>3, <2>4 DEF ReplayInv
<1>8. CASE \E k \in Checkers : EndCheck(k)
  <2> PICK k \in Checkers : EndCheck(k)
    BY <1>8
  <2>1. /\ UNCHANGED <<stage, chain>>
        /\ pc' = [pc EXCEPT ![k] = "idle"]
        /\ subject' = [subject EXCEPT ![k] = NoTx]
        /\ seen' = [seen EXCEPT ![k] = {}]
        /\ Applied' = Applied
    BY DEF EndCheck, ledgerVars, Applied
  <2> QED
    BY <2>1 DEF ReplayInv, CheckInv, NoReplay, TypeOK, TxsOf
<1>9. CASE Restart
  BY <1>9 DEF Restart, ReplayInv, CheckInv, NoReplay
<1>10. CASE UNCHANGED vars
  BY <1>10, ReplayFrame DEF vars, Applied, ledgerVars
<1> QED
  BY <1>1, <1>2, <1>3, <1>4, <1>5, <1>6, <1>7, <1>8, <1>9, <1>10 DEF Step

-----------------------------------------------------------------------------
(***************************************************************************)
(* The theorems.                                                           *)
(***************************************************************************)
IInv == TypeOK /\ LedgerInv /\ NumberInv /\ CacheInv /\ ReplayInv

LEMMA InvariantHolds == ASSUME SafeConfiguration PROVE Spec => []IInv
<1>1. Init => IInv
  BY InitTypeOK, InitLedgerInv, InitNumberInv, InitCacheInv, InitReplayInv DEF IInv
<1>2. IInv /\ [Next]_vars => IInv'
  BY StepTypeOK, StepLedgerInv, StepNumberInv, StepCacheInv, StepReplayInv DEF IInv
<1> QED
  BY <1>1, <1>2, PTL DEF Spec

\* No transaction of a block applied before a check began passes the check,
\* whatever the block limit, the transactions and the number of threads.
THEOREM NoReplayHolds == ASSUME SafeConfiguration PROVE Spec => []NoReplay
<1>1. IInv => NoReplay
  BY DEF IInv, ReplayInv
<1> QED
  BY <1>1, InvariantHolds, PTL

\* The nonce cache is exactly the nonces of the blocks in the window, also
\* while several results are being applied and right after a restart.
THEOREM CacheExactHolds == ASSUME SafeConfiguration PROVE Spec => []CacheExact
<1>1. IInv => CacheExact
  BY DEF IInv, CacheInv
<1> QED
  BY <1>1, InvariantHolds, PTL

(***************************************************************************)
(* The checker remembers at most BlockLimit blocks, also when the results   *)
(* of two blocks arrive out of order: the cached blocks that lie before     *)
(* the last BlockLimit ones take the places of blocks that have yet to be  *)
(* applied.                                                                *)
(***************************************************************************)
THEOREM CacheBoundedHolds == ASSUME SafeConfiguration PROVE Spec => []CacheBounded
<1>1. IInv => CacheBounded
  <2> SUFFICES ASSUME IInv PROVE CacheBounded
    OBVIOUS
  <2> DEFINE D == DOMAIN m_blockNonceCache
             window == (height - BlockLimit + 1) .. height
             place == [b \in D |-> IF b > height - BlockLimit THEN b ELSE b + BlockLimit]
  <2>1. /\ BlockLimit \in Nat /\ BlockLimit > 0 /\ height \in Nat /\ MaxLag \in Nat
        /\ MaxLag <= BlockLimit /\ MaxBlock \in Nat
    BY LedgerAssumption DEF SafeConfiguration, IInv, TypeOK
  <2>2. \A b \in D : b \in Blocks /\ b \in Applied /\ b + BlockLimit \notin Applied
    BY DEF IInv, CacheInv, MapInv, Applied
  <2>3. \A b \in Blocks : b <= height /\ b <= height - MaxLag => b \in Applied
    BY <2>1 DEF IInv, LedgerInv, ChainInv, LagInv, Applied, Blocks
  <2>4. \A b \in Applied : b <= height
    BY <2>1 DEF IInv, LedgerInv, ChainInv, Applied, Blocks
  <2>5. \A b \in D : height - MaxLag - BlockLimit < b /\ b <= height
    <3> SUFFICES ASSUME NEW b \in D, ~(height - MaxLag - BlockLimit < b)
                 PROVE  FALSE
      BY <2>2, <2>4
    <3>1. /\ b + BlockLimit \in Blocks
          /\ b + BlockLimit <= height - MaxLag /\ b + BlockLimit <= height
      BY <2>1, <2>2 DEF IInv, TypeOK, Blocks
    <3> QED
      BY <2>2, <2>3, <3>1
  <2>6. \A b \in D : b \in Int /\ place[b] \in window
    BY <2>1, <2>2, <2>5 DEF Blocks
  <2>7. \A b, c \in D : place[b] = place[c] => b = c
    <3> SUFFICES ASSUME NEW b \in D, NEW c \in D, place[b] = place[c], b # c
                 PROVE  FALSE
      OBVIOUS
    <3>1. c = b + BlockLimit \/ b = c + BlockLimit
      BY <2>1, <2>6
    <3> QED
      BY <3>1, <2>2
  <2>8. place \in Injection(D, window)
    <3>1. place \in [D -> window]
      BY <2>6
    <3> HIDE DEF place, D, window
    <3> QED
      BY <2>7, <3>1 DEF Injection, IsInjective
  <2>9. IsFiniteSet(window) /\ Cardinality(window) = BlockLimit
    BY <2>1, FS_Interval
  <2> HIDE DEF place, D, window
  <2>10. Cardinality(D) <= BlockLimit
    BY <2>8, <2>9, FS_Injection
  <2> QED
    BY <2>10 DEF CacheBounded, D
<1> QED
  BY <1>1, InvariantHolds, PTL

-----------------------------------------------------------------------------
(***************************************************************************)
(* The checker implements the guard.                                       *)
(***************************************************************************)
\* While neither the applied blocks nor their contents change, the registered
\* transactions are the same.
LEMMA SameRegistered ==
    ASSUME Applied' = Applied, \A b \in Applied : chain'[b] = chain[b]
    PROVE  TxsOf(Applied)' = TxsOf(Applied)
BY DEF TxsOf

LEMMA SameBefore ==
    ASSUME IInv, \A b \in Applied : chain'[b] = chain[b], seen' = seen
    PROVE  [k \in Checkers |-> TxsOf(seen[k])]' = [k \in Checkers |-> TxsOf(seen[k])]
<1>1. \A k \in Checkers : TxsOf(seen[k])' = TxsOf(seen[k])
  BY DEF TxsOf, IInv, ReplayInv, CheckInv
<1> QED
  BY <1>1

LEMMA InitImplements == Init => Guard!Init
BY DEF Init, Guard!Init, TxsOf, Applied

\* Every step of the checker is a step of the guard or leaves it unchanged.
LEMMA StepImplements ==
    ASSUME SafeConfiguration
    PROVE  IInv /\ IInv' /\ [Next]_vars => [Guard!Next]_(Guard!vars)
<1> SUFFICES ASSUME IInv, IInv', Step PROVE [Guard!Next]_(Guard!vars)
  BY NextIsStep
<1> DEFINE reg == TxsOf(Applied)
           bef == [k \in Checkers |-> TxsOf(seen[k])]
<1>0. TypeOK
  BY DEF IInv
<1>1. CASE \E S \in SUBSET Txs : Commit(S)
  <2> PICK S \in SUBSET Txs : Commit(S)
    BY <1>1
  <2>1. /\ stage' = [stage EXCEPT ![height + 1] = "committed"]
        /\ chain' = [chain EXCEPT ![height + 1] = S]
        /\ UNCHANGED checkVars
        /\ height + 1 \in Blocks
    BY <1>0, LedgerAssumption DEF Commit, CommitBlock, TypeOK, Blocks
  <2>2. stage[height + 1] = "absent"
    BY <2>1, <1>0 DEF IInv, LedgerInv, ChainInv, TypeOK, Blocks
  <2>3. Applied' = Applied /\ \A b \in Applied : chain'[b] = chain[b]
    BY <2>1, <2>2, <1>0 DEF Applied, TypeOK
  <2> QED
    BY <2>1, <2>3, SameRegistered, SameBefore DEF Guard!vars, checkVars
<1>2. CASE \E b \in Blocks : CheckNumber(b) \/ StoreNumber(b) \/ Insert(b)
  <2>1. /\ Applied' = Applied /\ chain' = chain
        /\ UNCHANGED checkVars
    BY <1>2, <1>0 DEF CheckNumber, StoreNumber, Insert, Applied, TypeOK, ledgerVars
  <2> QED
    BY <2>1, SameRegistered, SameBefore DEF Guard!vars, checkVars
<1>3. CASE \E b \in Blocks : Rotate(b)
  <2> PICK b \in Blocks : Rotate(b)
    BY <1>3
  <2>1. Applied' = Applied \cup {b} /\ chain' = chain /\ UNCHANGED checkVars
    BY <1>0 DEF Rotate, Applied, TypeOK, ledgerVars
  <2>2. reg' = reg \cup chain[b] /\ chain[b] \in SUBSET Txs
    BY <2>1, <1>0 DEF TxsOf, TypeOK
  <2>3. bef' = bef
    BY <2>1, SameBefore DEF checkVars
  <2>4. Guard!Register(chain[b])
    BY <2>1, <2>2, <2>3 DEF Guard!Register, checkVars
  <2> QED
    BY <2>2, <2>4 DEF Guard!Next
<1>4. CASE \E k \in Checkers, t \in Txs : CheckNonce(k, t)
  <2> PICK k \in Checkers, t \in Txs : CheckNonce(k, t)
    BY <1>4
  <2>1. Applied' = Applied /\ chain' = chain
    BY DEF CheckNonce, ledgerVars, Applied
  <2>2. reg' = reg
    BY <2>1, SameRegistered
  <2>3. bef' = [bef EXCEPT ![k] = reg]
    <3>1. \A j \in Checkers : TxsOf(seen[j])' = IF j = k THEN reg ELSE TxsOf(seen[j])
      BY <2>1, <1>0 DEF CheckNonce, TypeOK, TxsOf
    <3> HIDE DEF reg
    <3> QED
      BY <3>1
  <2>4. Guard!Begin(k, t)
    BY <2>2, <2>3 DEF CheckNonce, Guard!Begin
  <2> QED
    BY <2>4 DEF Guard!Next
<1>5. CASE \E k \in Checkers : CheckBlockLimit(k)
  <2> PICK k \in Checkers : CheckBlockLimit(k)
    BY <1>5
  <2>1. Applied' = Applied /\ chain' = chain /\ seen' = seen
    BY DEF CheckBlockLimit, ledgerVars, Applied
  <2>2. reg' = reg /\ bef' = bef
    BY <2>1, SameRegistered, SameBefore
  <2>3. CASE BlockLimitOK(subject[k])
    <3>1. pc'[k] = "accepted" /\ subject'[k] = subject[k]
      BY <2>3, <1>0 DEF CheckBlockLimit, TypeOK
    <3>2. subject[k] \notin TxsOf(seen[k])
      BY <3>1, <2>1 DEF IInv, ReplayInv, NoReplay, TxsOf
    <3>3. Guard!Accept(k)
      BY <2>2, <2>3, <3>2 DEF CheckBlockLimit, Guard!Accept
    <3> QED
      BY <3>3 DEF Guard!Next
  <2>4. CASE ~BlockLimitOK(subject[k])
    <3>1. Guard!Refuse(k)
      BY <2>2, <2>4 DEF CheckBlockLimit, Guard!Refuse
    <3> QED
      BY <3>1 DEF Guard!Next
  <2> QED
    BY <2>3, <2>4
<1>6. CASE \E k \in Checkers : EndCheck(k)
  <2> PICK k \in Checkers : EndCheck(k)
    BY <1>6
  <2>1. Applied' = Applied /\ chain' = chain
    BY DEF EndCheck, ledgerVars, Applied
  <2>2. reg' = reg
    BY <2>1, SameRegistered
  <2>3. bef' = [bef EXCEPT ![k] = {}]
    <3>1. \A j \in Checkers : TxsOf(seen[j])' = IF j = k THEN {} ELSE TxsOf(seen[j])
      BY <2>1, <1>0 DEF EndCheck, TypeOK, TxsOf
    <3> QED
      BY <3>1
  <2>4. Guard!End(k)
    BY <2>2, <2>3 DEF EndCheck, Guard!End
  <2> QED
    BY <2>4 DEF Guard!Next
<1>7. CASE Restart
  <2> DEFINE all == TxsOf(Applied')
  <2>1. chain' = chain /\ Applied \subseteq Applied'
    BY <1>7, <1>0 DEF Restart, ledgerVars, Applied, IInv, LedgerInv, ChainInv, TypeOK, Blocks
  <2>2. Applied' \subseteq Blocks
    BY DEF Applied
  <2>3. all \in SUBSET Txs
    BY <2>2, <1>0 DEF TxsOf, TypeOK
  <2>4. reg' = reg \cup all
    BY <2>1 DEF TxsOf
  <2>5. bef' = [k \in Checkers |-> {}]
    BY <1>7 DEF Restart, TxsOf
  <2>6. Guard!Crash(all)
    BY <1>7, <2>4, <2>5 DEF Restart, Guard!Crash
  <2> QED
    BY <2>3, <2>6 DEF Guard!Next
<1>8. CASE UNCHANGED vars
  <2>1. Applied' = Applied /\ chain' = chain /\ UNCHANGED checkVars
    BY <1>8 DEF vars, ledgerVars, Applied
  <2> QED
    BY <2>1, SameRegistered, SameBefore DEF Guard!vars, checkVars
<1> QED
  BY <1>1, <1>2, <1>3, <1>4, <1>5, <1>6, <1>7, <1>8 DEF Step

\* The concurrent checker with its two caches implements the guard that
\* remembers every registered transaction.
THEOREM CheckerImplementsGuard == ASSUME SafeConfiguration PROVE Spec => ImplementsGuard
<1>1. Init => Guard!Init
  BY InitImplements
<1>2. IInv /\ IInv' /\ [Next]_vars => [Guard!Next]_(Guard!vars)
  BY StepImplements
<1>3. Spec => []IInv
  BY InvariantHolds
<1> QED
  BY <1>1, <1>2, <1>3, PTL DEF Spec, ImplementsGuard, Guard!Spec
=============================================================================
