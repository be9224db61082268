------------------------ MODULE LedgerNonceChecker ------------------------
(***************************************************************************)
(* bcos-txpool/txpool/validator/LedgerNonceChecker.cpp: the check that a   *)
(* transaction is not on the chain already.  The checker remembers the     *)
(* nonces of the last BlockLimit blocks; a transaction of an older block   *)
(* is refused by its block limit.  This module holds the checker's state   *)
(* and what its functions compute; the modules that extend it decide       *)
(* between which of these steps other threads can run.                     *)
(***************************************************************************)
EXTENDS Ledger

VARIABLES
    m_blockNumber,      \* the atomic block number the block limit is tested with
    m_nonceCache,       \* the nonces of the cached blocks, what checkNonce reads
    m_blockNonceCache   \* cached block |-> its nonces

checkerVars == <<m_blockNumber, m_nonceCache, m_blockNonceCache>>

CheckerTypeOK ==
    /\ m_blockNumber \in 0 .. MaxBlock
    /\ m_nonceCache \subseteq Nonces
    /\ DOMAIN m_blockNonceCache \subseteq Blocks
    /\ \A b \in DOMAIN m_blockNonceCache : m_blockNonceCache[b] \subseteq Nonces

CheckerInit ==
    /\ m_blockNumber = 0
    /\ m_nonceCache = {}
    /\ m_blockNonceCache = [b \in {} |-> {}]

\* TxPoolNonceChecker::checkNonce on the ledger's nonces, without update.
NonceFree(t) == NonceOf[t] \notin m_nonceCache

\* Variant, a slip: the limit may have been reached.
BlockLimitOKInclusive(t) ==
    /\ m_blockNumber <= LimitOf[t]
    /\ LimitOf[t] <= m_blockNumber + BlockLimit

\* Variant, a slip: only limits too far ahead are refused.
BlockLimitOKUpperOnly(t) == LimitOf[t] <= m_blockNumber + BlockLimit

\* checkBlockLimit: the limit lies ahead, and not too far ahead.
BlockLimitOK(t) ==
    /\ m_blockNumber < LimitOf[t]
    /\ LimitOf[t] <= m_blockNumber + BlockLimit

\* batchInsert, first statement: does block b move the number forward?
NumberIsOlder(b) == m_blockNumber < b

\* Variant, a slip: the number of the block to come is stored.
StoreNextNumber(b) == m_blockNumber' = b + 1

StoreBlockNumber(b) == m_blockNumber' = b

\* batchInsert, TxPoolNonceChecker::batchInsert of the block's nonces.
InsertNonces(ns) == m_nonceCache' = m_nonceCache \cup ns

\* Variant, a slip: one block too many is kept.
ExpiredLate(b) == {x \in DOMAIN m_blockNonceCache : x = b - BlockLimit - 1}

\* The block whose nonces batchInsert(b) forgets, if there is one.
Expired(b) == {x \in DOMAIN m_blockNonceCache : x = b - BlockLimit}

\* Variant, a slip: the block is forgotten but its nonces stay in the cache.
RotateWithoutRemove(b, ns) ==
    /\ m_blockNonceCache' =
         [x \in (DOMAIN m_blockNonceCache \cup {b}) \ Expired(b) |->
            IF x \in DOMAIN m_blockNonceCache THEN m_blockNonceCache[x] ELSE ns]
    /\ UNCHANGED m_nonceCache

(***************************************************************************)
(* batchInsert, the section under x_blockNonceCache: remember block b's    *)
(* nonces unless they are there, then forget block b - BlockLimit and      *)
(* remove its nonces from the cache.                                       *)
(***************************************************************************)
RotateNonceCache(b, ns) ==
    /\ m_blockNonceCache' =
         [x \in (DOMAIN m_blockNonceCache \cup {b}) \ Expired(b) |->
            IF x \in DOMAIN m_blockNonceCache THEN m_blockNonceCache[x] ELSE ns]
    /\ m_nonceCache' = m_nonceCache \ UNION {m_blockNonceCache[x] : x \in Expired(b)}

(***************************************************************************)
(* TxPool::init: the blocks whose nonces a starting node reads from the    *)
(* ledger.  A chain no longer than the block limit gives startNumber 0,    *)
(* and then nothing is read.                                               *)
(***************************************************************************)
HistoryWindow ==
    IF height > BlockLimit THEN (height - BlockLimit + 1) .. height ELSE {}

\* TxPool::init and initNonceCache: the checker of a node that starts at height.
InitNonceCache ==
    /\ m_blockNumber' = height
    /\ m_blockNonceCache' = [b \in HistoryWindow |-> NoncesOf(chain[b])]
    /\ m_nonceCache' = NoncesOf(TxsOf(HistoryWindow))
===========================================================================
