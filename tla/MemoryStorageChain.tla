------------------------- MODULE MemoryStorageChain -------------------------
(***************************************************************************)
(* Proofs about MemoryStorage and the chain, for every chain and window:   *)
(* the sealer comes to no transaction whose block it could know of, unless *)
(* it is past its block limit, and what leaves the pool leaves it for a    *)
(* cause.                                                                  *)
(***************************************************************************)
EXTENDS MemoryStorageProofs

\* The last block whose nonces are in the checker's cache, and the last one
\* for which the window was moved.
Inserted == IF blockStage \in {"inserted", "rotated", "done"} THEN height ELSE height - 1
Rotated == IF blockStage \in {"rotated", "done"} THEN height ELSE height - 1

NumberInv ==
    m_blockNumber = IF blockStage \in {"committed", "removed"} THEN height - 1 ELSE height

\* What consensus puts on the chain.
EligibleInv ==
    /\ \A b \in Blocks : height < b => chain[b] = {}
    /\ \A b \in Blocks : \A t \in chain[b] : LimitOf[t] < b + BlockLimit
    /\ \A b, d \in Blocks, n \in Nonces :
         b < d /\ n \in NoncesOf(chain[b]) /\ n \in NoncesOf(chain[d]) => b + BlockLimit < d

\* The checker remembers the blocks of the window, and at least their nonces.
WindowInv ==
    /\ DOMAIN m_blockNonceCache = {b \in Blocks : Rotated - BlockLimit < b /\ b <= Rotated}
    /\ \A b \in DOMAIN m_blockNonceCache : m_blockNonceCache[b] = NoncesOf(chain[b])
    /\ \A b \in Blocks : Rotated - BlockLimit < b /\ b <= Inserted
            => NoncesOf(chain[b]) \subseteq m_nonceCache

\* What waits to be dropped has a cause to leave.
CauseInv == \A t \in m_invalidTxs : NonceOf[t] \in NoncesOf(Committed) \/ LimitOf[t] <= height

\* No limit lies beyond the reach of the first block.
LimitsInReach == \A t \in Txs : LimitOf[t] <= BlockLimit
-----------------------------------------------------------------------------
(***************************************************************************)
(* The chain and the window.                                               *)
(***************************************************************************)
WindowAll == NumberInv /\ EligibleInv /\ WindowInv

LEMMA WindowStays ==
    ASSUME WindowAll, UNCHANGED <<ledgerVars, checkerVars, blockStage>>
    PROVE  WindowAll'
BY DEF WindowAll, NumberInv, EligibleInv, WindowInv, Inserted, Rotated, NoncesOf, ledgerVars,
   checkerVars

LEMMA InitWindow == Init => WindowAll
BY LedgerAssumption
   DEF Init, LedgerInit, CheckerInit, WindowAll, NumberInv, EligibleInv, WindowInv, Inserted,
       Rotated, NoncesOf, Blocks

LEMMA CommitWindow ==
    ASSUME TypeOK, WindowAll, NEW S \in SUBSET Txs, Commit(S)
    PROVE  WindowAll'
<1> USE LedgerAssumption
<1>1. /\ blockStage = "done" /\ blockStage' = "committed"
      /\ height \in Nat /\ height' = height + 1 /\ height + 1 \in Blocks
      /\ chain' = [chain EXCEPT ![height + 1] = S] /\ Eligible(S)
      /\ UNCHANGED checkerVars
  BY DEF Commit, CommitBlock, TypeOK, Blocks
<1>2. \A b \in Blocks : chain'[b] = IF b = height + 1 THEN S ELSE chain[b]
  BY <1>1 DEF TypeOK
<1>3. \A b \in Blocks : NoncesOf(chain'[b]) = IF b = height + 1 THEN NoncesOf(S) ELSE NoncesOf(chain[b])
  BY <1>2
<1>4. \A b \in Blocks : NoncesOf(chain[b])' = NoncesOf(chain'[b])
  BY DEF NoncesOf
<1>5. NumberInv'
  BY <1>1 DEF WindowAll, NumberInv, checkerVars
<1>6. EligibleInv'
  <2>1. \A b \in Blocks : height' < b => chain'[b] = {}
    BY <1>1, <1>2 DEF WindowAll, EligibleInv, Blocks
  <2>2. \A b \in Blocks : \A t \in chain'[b] : LimitOf[t] < b + BlockLimit
    BY <1>1, <1>2 DEF WindowAll, EligibleInv, Eligible, Blocks
  <2>3. ASSUME NEW b \in Blocks, NEW d \in Blocks, NEW n \in Nonces, b < d,
               n \in NoncesOf(chain'[b]), n \in NoncesOf(chain'[d])
        PROVE  b + BlockLimit < d
    <3>1. CASE d = height + 1
      <4>1. n \in NoncesOf(S) /\ b \in 1 .. height /\ n \in NoncesOf(chain[b])
        BY <1>1, <1>3, <2>3, <3>1 DEF Blocks
      <4>2. PICK t \in S : n = NonceOf[t]
        BY <4>1 DEF NoncesOf
      <4>3. b + BlockLimit + MaxLag <= height + 1
        BY <1>1, <4>1, <4>2 DEF Eligible
      <4> QED
        BY <1>1, <3>1, <4>1, <4>3, StorageAssumption
    <3>2. CASE d # height + 1
      <4>1. d <= height
        BY <1>1, <1>2, <2>3, <3>2 DEF WindowAll, EligibleInv, NoncesOf, Blocks
      <4>2. b # height + 1
        BY <1>1, <2>3, <4>1 DEF Blocks
      <4> QED
        BY <1>3, <2>3, <3>2, <4>2 DEF WindowAll, EligibleInv
    <3> QED
      BY <3>1, <3>2
  <2> QED
    BY <1>4, <2>1, <2>2, <2>3 DEF EligibleInv
<1>7. WindowInv'
  <2>1. Rotated' = Rotated /\ Inserted' = Inserted /\ Rotated = height /\ Inserted = height
    BY <1>1 DEF Rotated, Inserted
  <2>2. \A b \in Blocks : b <= height => NoncesOf(chain[b])' = NoncesOf(chain[b])
    BY <1>1, <1>3, <1>4 DEF Blocks
  <2> QED
    BY <1>1, <2>1, <2>2 DEF WindowAll, WindowInv, checkerVars
<1> QED
  BY <1>5, <1>6, <1>7 DEF WindowAll

LEMMA AdvanceWindow ==
    ASSUME TypeOK, BlockInv, WindowAll, AdvanceNumber
    PROVE  WindowAll'
<1> USE LedgerAssumption
<1>1. height \in Nat /\ height > 0 /\ m_blockNumber = height - 1
  BY DEF AdvanceNumber, BlockInv, Blocks, WindowAll, NumberInv
<1>2. m_blockNumber' = height /\ UNCHANGED <<ledgerVars, m_nonceCache, m_blockNonceCache>>
  BY <1>1 DEF AdvanceNumber, NumberIsOlder, StoreBlockNumber
<1>3. blockStage = "removed" /\ blockStage' = "numbered"
  BY DEF AdvanceNumber
<1> QED
  BY <1>2, <1>3
     DEF WindowAll, NumberInv, EligibleInv, WindowInv, Inserted, Rotated, NoncesOf, ledgerVars

LEMMA RegisterWindow ==
    ASSUME TypeOK, BlockInv, WindowAll, RegisterNonces
    PROVE  WindowAll'
<1> USE LedgerAssumption
<1>1. height \in Blocks /\ height \in Nat /\ Blocks \subseteq Nat
  BY DEF RegisterNonces, BlockInv, Blocks
<1>2. /\ m_nonceCache' = m_nonceCache \cup NoncesOf(chain[height])
      /\ UNCHANGED <<ledgerVars, m_blockNumber, m_blockNonceCache>>
      /\ blockStage = "numbered" /\ blockStage' = "inserted"
  BY DEF RegisterNonces, InsertNonces
<1>3. Inserted = height - 1 /\ Inserted' = height /\ Rotated' = Rotated /\ Rotated = height - 1
  BY <1>2 DEF Inserted, Rotated, ledgerVars
<1>4. \A b \in Blocks : NoncesOf(chain[b])' = NoncesOf(chain[b])
  BY <1>2 DEF NoncesOf, ledgerVars
<1>5. WindowInv'
  <2>1. \A b \in Blocks : b <= Inserted' => b <= Inserted \/ b = height
    BY <1>1, <1>3
  <2>2. \A b \in Blocks : Rotated' - BlockLimit < b /\ b <= Inserted'
            => NoncesOf(chain[b])' \subseteq m_nonceCache'
    BY <1>2, <1>3, <1>4, <2>1 DEF WindowAll, WindowInv
  <2> QED
    BY <1>2, <1>3, <1>4, <2>2 DEF WindowAll, WindowInv
<1>6. NumberInv' /\ EligibleInv'
  BY <1>2, <1>4 DEF WindowAll, NumberInv, EligibleInv, ledgerVars
<1> QED
  BY <1>5, <1>6 DEF WindowAll

\* Forgetting a block takes no nonce of the window away.
LEMMA ForgetWindow ==
    ASSUME TypeOK, BlockInv, WindowAll, ForgetNonces
    PROVE  WindowAll'
<1> USE LedgerAssumption
<1> DEFINE old == height - BlockLimit
<1>1. height \in Blocks /\ height \in Nat /\ Blocks \subseteq Nat
  BY DEF ForgetNonces, BlockInv, Blocks
<1>2. /\ RotateNonceCache(height, NoncesOf(chain[height]))
      /\ UNCHANGED <<ledgerVars, m_blockNumber>>
      /\ blockStage = "inserted" /\ blockStage' = "rotated"
  BY DEF ForgetNonces
<1>3. Inserted = height /\ Inserted' = height /\ Rotated = height - 1 /\ Rotated' = height
  BY <1>2 DEF Inserted, Rotated, ledgerVars
<1>4. \A b \in Blocks : NoncesOf(chain[b])' = NoncesOf(chain[b])
  BY <1>2 DEF NoncesOf, ledgerVars
<1>5. \A b \in DOMAIN m_blockNonceCache :
        b \in Blocks /\ height - 1 - BlockLimit < b /\ b <= height - 1
  BY <1>3 DEF WindowAll, WindowInv
<1>6. Expired(height) = {b \in DOMAIN m_blockNonceCache : b = old}
  BY DEF Expired
<1>7. DOMAIN m_blockNonceCache' = (DOMAIN m_blockNonceCache \cup {height}) \ Expired(height)
  BY <1>2 DEF RotateNonceCache
<1>8. DOMAIN m_blockNonceCache' = {b \in Blocks : height - BlockLimit < b /\ b <= height}
  <2>1. \A b \in Blocks : b \in DOMAIN m_blockNonceCache <=>
          height - 1 - BlockLimit < b /\ b <= height - 1
    BY <1>3 DEF WindowAll, WindowInv
  <2>2. \A b \in Blocks : b \in DOMAIN m_blockNonceCache' <=>
          (b \in DOMAIN m_blockNonceCache \/ b = height) /\ ~(b \in DOMAIN m_blockNonceCache /\ b = old)
    BY <1>6, <1>7
  <2>3. \A b \in Blocks : b \in DOMAIN m_blockNonceCache' <=>
          height - BlockLimit < b /\ b <= height
    BY <1>1, <2>1, <2>2
  <2>4. DOMAIN m_blockNonceCache' \subseteq Blocks
    BY <1>1, <1>5, <1>7
  <2> QED
    BY <2>3, <2>4
<1>9. \A b \in DOMAIN m_blockNonceCache' : m_blockNonceCache'[b] = NoncesOf(chain[b])
  BY <1>2, <1>7 DEF RotateNonceCache, WindowAll, WindowInv
<1>10. ASSUME NEW b \in Blocks, height - BlockLimit < b, b <= height,
              NEW n \in NoncesOf(chain[b])
       PROVE  n \in m_nonceCache'
  <2>1. n \in m_nonceCache
    BY <1>1, <1>3, <1>10 DEF WindowAll, WindowInv
  <2>2. ASSUME NEW x \in Expired(height), n \in m_blockNonceCache[x]
        PROVE  FALSE
    <3>1. x \in Blocks /\ x = old /\ n \in NoncesOf(chain[x])
      BY <1>5, <1>6, <2>2 DEF WindowAll, WindowInv
    <3>2. n \in Nonces /\ x < b
      <4>1. chain[b] \in SUBSET Txs
        BY DEF TypeOK
      <4> QED
        BY <4>1, <1>10, <1>1, <3>1, NoncesTyped
    <3>3. x + BlockLimit < b
      BY <3>1, <3>2, <1>10 DEF WindowAll, EligibleInv
    <3> QED
      BY <1>1, <1>10, <3>1, <3>3
  <2>3. m_nonceCache' = m_nonceCache \ UNION {m_blockNonceCache[x] : x \in Expired(height)}
    BY <1>2 DEF RotateNonceCache
  <2> QED
    BY <2>1, <2>2, <2>3
<1>11. WindowInv'
  <2>1. \A b \in DOMAIN m_blockNonceCache' : b \in Blocks
    BY <1>8
  <2> QED
    BY <1>3, <1>4, <1>8, <1>9, <1>10, <2>1 DEF WindowInv
<1>12. NumberInv' /\ EligibleInv'
  BY <1>2, <1>4 DEF WindowAll, NumberInv, EligibleInv, ledgerVars
<1> QED
  BY <1>11, <1>12 DEF WindowAll

LEMMA StageWindow ==
    ASSUME WindowAll, UNCHANGED <<ledgerVars, checkerVars>>,
           \/ blockStage = "committed" /\ blockStage' = "removed"
           \/ blockStage = "rotated" /\ blockStage' = "done"
    PROVE  WindowAll'
<1>1. Rotated' = Rotated /\ Inserted' = Inserted
  BY DEF Rotated, Inserted, ledgerVars
<1>2. \A b \in Blocks : NoncesOf(chain[b])' = NoncesOf(chain[b])
  BY DEF NoncesOf, ledgerVars
<1>3. NumberInv'
  BY DEF WindowAll, NumberInv, ledgerVars, checkerVars
<1>4. EligibleInv'
  BY <1>2 DEF WindowAll, EligibleInv, ledgerVars
<1>5. WindowInv'
  BY <1>1, <1>2 DEF WindowAll, WindowInv, ledgerVars, checkerVars
<1> QED
  BY <1>3, <1>4, <1>5 DEF WindowAll

LEMMA StepWindow ==
    ASSUME TypeOK, BlockInv, WindowAll, [Next]_vars
    PROVE  WindowAll'
<1>0. Step
  BY NextIsStep
<1>1. CASE UNCHANGED <<ledgerVars, checkerVars, blockStage>>
  BY <1>1, WindowStays
<1>2. CASE RemoveBatch \/ ReleaseNonces
  BY <1>2, StageWindow DEF RemoveBatch, ReleaseNonces
<1>3. CASE CheckStep
  BY <1>1, <1>3, CheckMoves DEF OnlyCall
<1>4. CASE \E S \in SUBSET Txs : Commit(S)
  BY <1>4, CommitWindow
<1>5. CASE AdvanceNumber \/ RegisterNonces \/ ForgetNonces
  BY <1>5, AdvanceWindow, RegisterWindow, ForgetWindow
<1> QED
  BY <1>0, <1>1, <1>2, <1>3, <1>4, <1>5, SealIsQuiet, LookUpIsQuiet
     DEF Step, ReserveNonce, Store, Cleanup, vars

LEMMA WindowAlways == Spec => []WindowAll
<1>1. TypeOK /\ BlockInv /\ WindowAll /\ [Next]_vars => WindowAll'
  BY StepWindow
<1> QED
  BY <1>1, InitWindow, TypeCorrect, PTL DEF Spec
-----------------------------------------------------------------------------
(***************************************************************************)
(* The sealer and the chain.                                               *)
(***************************************************************************)
\* A nonce that is not found is in no applied block, but for a block so old that
\* the limits of its transactions have been reached: the nonces of the blocks of
\* the window are in the cache.
LEMMA FreeIsOld ==
    ASSUME TypeOK, BlockInv, WindowAll, NEW t \in Txs, NonceFree(t), t \in AppliedTxs
    PROVE  LimitOf[t] <= m_blockNumber
<1> USE LedgerAssumption
<1> DEFINE applied == IF blockStage = "done" THEN height ELSE height - 1
<1> PICK b \in 1 .. applied : t \in chain[b]
  BY DEF AppliedTxs, TxsOf
<1>1. height \in Nat /\ height <= MaxBlock
  BY DEF TypeOK
<1>2. b \in Blocks /\ b \in Nat /\ b <= Inserted
  BY <1>1 DEF Blocks, Inserted
<1>3. m_blockNumber \in Int /\ Rotated \in Int /\ Rotated <= m_blockNumber
  BY <1>1 DEF WindowAll, NumberInv, Rotated
<1>4. NonceOf[t] \in NoncesOf(chain[b])
  BY DEF NoncesOf
<1>5. b <= Rotated - BlockLimit
  BY <1>2, <1>3, <1>4 DEF WindowAll, WindowInv, NonceFree
<1>6. LimitOf[t] \in Nat /\ LimitOf[t] < b + BlockLimit
  BY <1>2 DEF WindowAll, EligibleInv
<1> QED
  BY <1>2, <1>3, <1>5, <1>6

LEMMA NumberGrows ==
    ASSUME TypeOK, BlockInv, WindowAll, [Next]_vars
    PROVE  m_blockNumber \in Int /\ m_blockNumber' \in Int /\ m_blockNumber <= m_blockNumber'
<1>0. Step
  BY NextIsStep
<1>1. height \in Nat /\ m_blockNumber \in Int
  BY LedgerAssumption DEF TypeOK, WindowAll, NumberInv
<1>2. CASE AdvanceNumber
  BY <1>1, <1>2 DEF AdvanceNumber, NumberIsOlder, StoreBlockNumber
<1>3. CASE UNCHANGED m_blockNumber
  BY <1>1, <1>3
<1> QED
  BY <1>0, <1>2, <1>3, CheckMoves, SealIsQuiet, LookUpIsQuiet
     DEF Step, OnlyCall, ReserveNonce, Store, Cleanup, Commit, RemoveBatch, RegisterNonces,
         InsertNonces, ForgetNonces, RotateNonceCache, ReleaseNonces, checkerVars, vars

\* What the sealer's loop holds past its look-up of the nonce.
FreshInv ==
    sealer.at \in {"limit", "flag"} /\ sealer.applied => LimitOf[sealer.tx] <= m_blockNumber

LEMMA StepFresh ==
    ASSUME TypeOK, BlockInv, WindowAll, FreshInv, [Next]_vars
    PROVE  FreshInv'
<1>0. Step
  BY NextIsStep
<1>1. m_blockNumber \in Int /\ m_blockNumber' \in Int /\ m_blockNumber <= m_blockNumber'
  BY NumberGrows
<1>2. sealer.at \in {"limit", "flag"} => LimitOf[sealer.tx] \in Nat
  BY LedgerAssumption DEF TypeOK, NotAtTx
<1>3. CASE sealer'.at \in NotAtTx
  BY <1>3 DEF FreshInv, NotAtTx
<1>4. CASE /\ sealer'.at = sealer.at /\ sealer'.tx = sealer.tx
           /\ sealer'.applied = sealer.applied
  BY <1>1, <1>2, <1>4 DEF FreshInv
<1>5. CASE \E c \in Calls : Store(c)
  BY <1>4, <1>5 DEF Store, StoreObject, TypeOK
<1>6. CASE \E t \in Txs : Visit(t)
  BY <1>6 DEF Visit, FreshInv, TypeOK
<1>7. CASE \E t \in Txs : LookUpNonce(t)
  <2> PICK t \in Txs : LookUpNonce(t)
    BY <1>7
  <2>1. CASE SealerAt("between")
    BY <1>3, <2>1 DEF SealerAt, NotAtTx
  <2>2. CASE ~OnChain(t) /\ sealer' = [sealer EXCEPT !.at = "limit", !.applied = t \in AppliedTxs]
    <3>1. sealer'.tx = t /\ sealer'.applied = (t \in AppliedTxs)
      BY <2>2 DEF LookUpNonce, TypeOK
    <3>2. NonceFree(t)
      BY <2>2 DEF OnChain
    <3>3. m_blockNumber' = m_blockNumber
      BY LookUpIsQuiet DEF checkerVars
    <3> QED
      BY <3>1, <3>2, <3>3, FreeIsOld DEF FreshInv
  <2> QED
    BY <2>1, <2>2 DEF LookUpNonce
<1>8. CASE \E t \in Txs : TestLimit(t)
  <2>1. SealerAt("between") \/ sealer' = [sealer EXCEPT !.at = "flag"]
    BY <1>8 DEF TestLimit
  <2>2. sealer.at = "limit"
    BY <1>8 DEF TestLimit
  <2>3. CASE SealerAt("between")
    BY <1>3, <2>3 DEF SealerAt, NotAtTx
  <2>4. CASE sealer' = [sealer EXCEPT !.at = "flag"]
    <3>1. sealer'.tx = sealer.tx /\ sealer'.applied = sealer.applied
      BY <2>4 DEF TypeOK
    <3> QED
      BY <1>1, <1>2, <2>2, <3>1 DEF FreshInv
  <2> QED
    BY <2>1, <2>3, <2>4
<1>9. CASE BeginSeal \/ TestFlag \/ EndSeal
  BY <1>3, <1>9 DEF BeginSeal, TestFlag, EndSeal, SealerAt, NotAtTx
<1> QED
  BY <1>0, <1>4, <1>5, <1>6, <1>7, <1>8, <1>9, CheckMoves
     DEF Step, QuietSealStep, OnlyCall, ReserveNonce, Cleanup, Commit, RemoveBatch, AdvanceNumber,
         RegisterNonces, ForgetNonces, ReleaseNonces, vars

(***************************************************************************)
(* What the sealer's loop takes is in no block that was applied when the   *)
(* loop looked its nonce up, even when an import brought it back into the   *)
(* pool or later blocks are applied meanwhile, unless its block limit is    *)
(* reached.                                                                *)
(***************************************************************************)
THEOREM NeverSealsCommittedHolds == Spec => []NeverSealsCommitted
<1>1. Init => FreshInv
  BY DEF Init, FreshInv
<1>2. TypeOK /\ BlockInv /\ WindowAll /\ FreshInv /\ [Next]_vars => FreshInv'
  BY StepFresh
<1>3. FreshInv => NeverSealsCommitted
  BY DEF FreshInv, NeverSealsCommitted
<1> QED
  BY <1>1, <1>2, <1>3, TypeCorrect, WindowAlways, PTL DEF Spec
-----------------------------------------------------------------------------
(***************************************************************************)
(* Leaving the pool.                                                       *)
(***************************************************************************)
LEMMA HeightGrows ==
    ASSUME TypeOK, [Next]_vars
    PROVE  height \in Nat /\ height' \in Nat /\ height <= height'
<1>1. Step /\ height \in Nat
  BY NextIsStep, LedgerAssumption DEF TypeOK
<1>2. height' = height \/ height' = height + 1
  BY <1>1, CheckMoves, SealIsQuiet, LookUpIsQuiet
     DEF Step, OnlyCall, ReserveNonce, Store, Cleanup, Commit, CommitBlock, RemoveBatch,
         AdvanceNumber, RegisterNonces, ForgetNonces, ReleaseNonces, vars, ledgerVars
<1> QED
  BY <1>1, <1>2

\* A cause to leave stays one.
LEMMA CauseStays ==
    ASSUME TypeOK, CauseInv, [Next]_vars, m_invalidTxs' \subseteq m_invalidTxs
    PROVE  CauseInv'
<1>1. NoncesOf(Committed) \subseteq NoncesOf(Committed)'
  BY CommittedGrows, NoncesOfMonotone DEF NoncesOf
<1>2. height \in Nat /\ height' \in Nat /\ height <= height'
  BY HeightGrows
<1>3. \A t \in m_invalidTxs : LimitOf[t] \in Nat
  BY LedgerAssumption DEF TypeOK
<1> QED
  BY <1>1, <1>2, <1>3 DEF CauseInv

LEMMA StepCause ==
    ASSUME LimitsInReach, TypeOK, CacheInv, WindowAll, CauseInv, [Next]_vars
    PROVE  CauseInv'
<1>0. Step
  BY NextIsStep
<1>1. CASE m_invalidTxs' \subseteq m_invalidTxs
  BY <1>1, CauseStays
<1>2. ASSUME NEW t \in Txs, m_invalidTxs' = m_invalidTxs \cup {t}, UNCHANGED ledgerVars,
             NonceOf[t] \in NoncesOf(Committed) \/ LimitOf[t] <= height
      PROVE  CauseInv'
  <2>1. NoncesOf(Committed)' = NoncesOf(Committed) /\ height' = height
    BY <1>2, UnchangedCommitted DEF NoncesOf, ledgerVars
  <2> QED
    BY <1>2, <2>1 DEF CauseInv
<1>4. CASE \E t \in Txs : LookUpNonce(t)
  <2> PICK t \in Txs : LookUpNonce(t)
    BY <1>4
  <2>1. CASE OnChain(t)
    BY <1>1, <1>2, <2>1, OnChainIsCommitted DEF LookUpNonce
  <2>2. CASE ~OnChain(t)
    BY <1>1, <2>2 DEF LookUpNonce
  <2> QED
    BY <2>1, <2>2
<1>5. CASE \E t \in Txs : TestLimit(t)
  <2> PICK t \in Txs : TestLimit(t)
    BY <1>5
  <2>1. CASE ~PastLimit(t)
    BY <1>1, <2>1 DEF TestLimit
  <2>2. CASE PastLimit(t)
    <3>1. ~BlockLimitOK(t) /\ LimitOf[t] \in Nat /\ BlockLimit \in Nat
      BY <2>2, LedgerAssumption DEF PastLimit
    <3>2. height \in Nat /\ m_blockNumber \in Nat /\ m_blockNumber <= height
      BY LedgerAssumption DEF TypeOK, CheckerTypeOK, WindowAll, NumberInv
    <3>3. LimitOf[t] <= m_blockNumber + BlockLimit
      BY <3>1, <3>2 DEF LimitsInReach
    <3>4. LimitOf[t] <= height
      BY <3>1, <3>2, <3>3 DEF BlockLimitOK
    <3> QED
      BY <1>1, <1>2, <3>4 DEF TestLimit
  <2> QED
    BY <2>1, <2>2
<1>3. CASE Cleanup
  BY <1>1, <1>3 DEF Cleanup
<1> QED
  BY <1>0, <1>1, <1>3, <1>4, <1>5, CheckMoves
     DEF Step, QuietSealStep, BeginSeal, Visit, TestFlag, EndSeal, OnlySealer, OnlyCall,
         ReserveNonce, Store, Commit, RemoveBatch, AdvanceNumber, RegisterNonces, ForgetNonces,
         ReleaseNonces, vars, cleanupVars

LEMMA CauseAlways == ASSUME LimitsInReach PROVE Spec => []CauseInv
<1>1. Init => CauseInv
  BY DEF Init, CauseInv
<1>2. TypeOK /\ CacheInv /\ WindowAll /\ CauseInv /\ [Next]_vars => CauseInv'
  BY StepCause
<1> QED
  BY <1>1, <1>2, TypeCorrect, CacheOfChain, WindowAlways, PTL DEF Spec

(***************************************************************************)
(* A transaction leaves the pool only when it, or its nonce, is on the     *)
(* chain, or when its block limit has been reached; the sealer may drop    *)
(* what it thinks unfit, but never what is still fit.                      *)
(***************************************************************************)
THEOREM LeavesOnlyForCauseHolds ==
    ASSUME LimitsInReach
    PROVE  Spec => LeavesOnlyForCause
<1> DEFINE Caused == \A t \in m_txsTable \ m_txsTable' :
                       NonceOf[t] \in NoncesOf(Committed) \/ LimitOf[t] <= height
<1>1. TypeOK /\ BlockInv /\ CauseInv /\ [Next]_vars => Caused
  <2> SUFFICES ASSUME TypeOK, BlockInv, CauseInv, [Next]_vars PROVE Caused
    OBVIOUS
  <2>0. Step
    BY NextIsStep
  <2>1. CASE m_txsTable \subseteq m_txsTable'
    BY <2>1
  <2>2. CASE Cleanup
    <3>1. \/ m_txsTable' = m_txsTable
          \/ m_txsTable' = m_txsTable \ (m_invalidTxs \cap m_txsTable)
      BY <2>2 DEF Cleanup, Drop, tableVars
    <3> QED
      BY <3>1 DEF CauseInv
  <2>3. CASE RemoveBatch
    <3>1. m_txsTable' = m_txsTable \ (chain[height] \cap m_txsTable)
      BY <2>3 DEF RemoveBatch, Drop
    <3>2. chain[height] \subseteq Committed
      BY <2>3, LatestIsCommitted DEF RemoveBatch, BlockInv
    <3> QED
      BY <3>1, <3>2 DEF NoncesOf
  <2> QED
    BY <2>0, <2>1, <2>2, <2>3, CheckMoves, SealIsQuiet, LookUpIsQuiet
       DEF Step, OnlyCall, ReserveNonce, Store, StoreObject, Commit, AdvanceNumber,
           RegisterNonces, ForgetNonces, ReleaseNonces, tableVars, vars
<1>2. Caused => [Caused]_vars
  OBVIOUS
<1> HIDE DEF Caused
<1>3. Spec => [][Caused]_vars
  BY <1>1, <1>2, TypeCorrect, CauseAlways, PTL DEF Spec
<1> QED
  BY <1>3 DEF LeavesOnlyForCause, Caused
=============================================================================
