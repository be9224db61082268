---------------------------- MODULE NonceReplay ----------------------------
(***************************************************************************)
(* LedgerNonceChecker under concurrency.  Threads that verify a            *)
(* transaction run checkNonce; threads that deliver block results run      *)
(* batchInsert, several at a time when several blocks have committed; the  *)
(* process may restart.  Each action is one step between two of the        *)
(* synchronisation points of the code: an atomic load or store, or a       *)
(* section under a lock.                                                   *)
(***************************************************************************)
EXTENDS LedgerNonceChecker

CONSTANTS
    Checkers,      \* the threads that verify transactions
    NoTx,          \* no transaction
    RestartFloor   \* the node restarts on a chain at least this long

ASSUME ReplayAssumption ==
    /\ NoTx \notin Txs
    /\ RestartFloor \in Nat

VARIABLES
    stage,    \* stage[b]: how far the result of block b has been applied
    pc,       \* pc[k]: what check k is doing
    subject,  \* subject[k]: the transaction it looks at
    seen      \* seen[k]: history variable, the blocks applied when it began

checkVars == <<pc, subject, seen>>
vars == <<ledgerVars, checkerVars, stage, checkVars>>

Stages == {"absent", "committed", "storing", "numbered", "inserted", "done"}
Phases == {"idle", "checking", "accepted", "refused"}

\* The blocks whose result has been applied completely.
Applied == {b \in Blocks : stage[b] = "done"}

TypeOK ==
    /\ height \in 0 .. MaxBlock
    /\ chain \in [Blocks -> SUBSET Txs]
    /\ CheckerTypeOK
    /\ stage \in [Blocks -> Stages]
    /\ pc \in [Checkers -> Phases]
    /\ subject \in [Checkers -> Txs \cup {NoTx}]
    /\ seen \in [Checkers -> SUBSET Blocks]

Init ==
    /\ LedgerInit
    /\ CheckerInit
    /\ stage = [b \in Blocks |-> "absent"]
    /\ pc = [k \in Checkers |-> "idle"]
    /\ subject = [k \in Checkers |-> NoTx]
    /\ seen = [k \in Checkers |-> {}]
-----------------------------------------------------------------------------
(***************************************************************************)
(* The results of committed blocks.                                        *)
(***************************************************************************)
\* Consensus commits a block while at most MaxLag - 1 results are outstanding.
Commit(S) ==
    /\ CommitBlock(S)
    /\ \A b \in Blocks : b <= height + 1 - MaxLag => stage[b] = "done"
    /\ stage' = [stage EXCEPT ![height + 1] = "committed"]
    /\ UNCHANGED <<checkerVars, checkVars>>

\* batchInsert compares m_blockNumber with the block; another thread may run
\* before it stores.
CheckNumber(b) ==
    /\ stage[b] = "committed"
    /\ stage' = [stage EXCEPT ![b] = IF NumberIsOlder(b) THEN "storing" ELSE "numbered"]
    /\ UNCHANGED <<ledgerVars, checkerVars, checkVars>>

StoreNumber(b) ==
    /\ stage[b] = "storing"
    /\ StoreBlockNumber(b)
    /\ stage' = [stage EXCEPT ![b] = "numbered"]
    /\ UNCHANGED <<ledgerVars, m_nonceCache, m_blockNonceCache, checkVars>>

Insert(b) ==
    /\ stage[b] = "numbered"
    /\ InsertNonces(NoncesOf(chain[b]))
    /\ stage' = [stage EXCEPT ![b] = "inserted"]
    /\ UNCHANGED <<ledgerVars, m_blockNumber, m_blockNonceCache, checkVars>>

Rotate(b) ==
    /\ stage[b] = "inserted"
    /\ RotateNonceCache(b, NoncesOf(chain[b]))
    /\ stage' = [stage EXCEPT ![b] = "done"]
    /\ UNCHANGED <<ledgerVars, m_blockNumber, checkVars>>
-----------------------------------------------------------------------------
(***************************************************************************)
(* The verification of a transaction, and the restart.                     *)
(***************************************************************************)
\* checkNonce reads the cached nonces under their lock.
CheckNonce(k, t) ==
    /\ pc[k] = "idle"
    /\ pc' = [pc EXCEPT ![k] = IF NonceFree(t) THEN "checking" ELSE "refused"]
    /\ subject' = [subject EXCEPT ![k] = t]
    /\ seen' = [seen EXCEPT ![k] = Applied]
    /\ UNCHANGED <<ledgerVars, checkerVars, stage>>

\* checkBlockLimit loads m_blockNumber.
CheckBlockLimit(k) ==
    /\ pc[k] = "checking"
    /\ pc' = [pc EXCEPT ![k] = IF BlockLimitOK(subject[k]) THEN "accepted" ELSE "refused"]
    /\ UNCHANGED <<ledgerVars, checkerVars, stage, subject, seen>>

\* The caller takes the result.
EndCheck(k) ==
    /\ pc[k] \in {"accepted", "refused"}
    /\ pc' = [pc EXCEPT ![k] = "idle"]
    /\ subject' = [subject EXCEPT ![k] = NoTx]
    /\ seen' = [seen EXCEPT ![k] = {}]
    /\ UNCHANGED <<ledgerVars, checkerVars, stage>>

(***************************************************************************)
(* The process stops in any state and starts again (TxPool::init): the     *)
(* memory is lost, and the checker is built from the ledger's last blocks. *)
(***************************************************************************)
Restart ==
    /\ height >= RestartFloor
    /\ InitNonceCache
    /\ stage' = [b \in Blocks |-> IF b <= height THEN "done" ELSE "absent"]
    /\ pc' = [k \in Checkers |-> "idle"]
    /\ subject' = [k \in Checkers |-> NoTx]
    /\ seen' = [k \in Checkers |-> {}]
    /\ UNCHANGED ledgerVars

Next ==
    \/ \E S \in SUBSET Txs : Commit(S)
    \/ \E b \in Blocks : CheckNumber(b) \/ StoreNumber(b) \/ Insert(b) \/ Rotate(b)
    \/ \E k \in Checkers :
         \/ \E t \in Txs : CheckNonce(k, t)
         \/ CheckBlockLimit(k)
         \/ EndCheck(k)
    \/ Restart

Spec == Init /\ [][Next]_vars

\* What NoReplay and CacheExact need: at most two results outstanding, no more
\* than the cached blocks, and no restart before the chain has outgrown the
\* window that TxPool::init reads back.
SafeConfiguration ==
    /\ MaxLag <= 2
    /\ MaxLag <= BlockLimit
    /\ BlockLimit < RestartFloor
-----------------------------------------------------------------------------
(***************************************************************************)
(* Properties.                                                             *)
(***************************************************************************)
\* Block b's nonces belong in the cache: they were inserted, and the block
\* that makes the checker forget them has not been applied.
Held(b) ==
    /\ stage[b] \in {"inserted", "done"}
    /\ b + BlockLimit \notin Applied

\* checkNonce never accepts a transaction of a block whose result had been
\* applied when the check began, although the nonces of old blocks are
\* forgotten, the block number may step back when two results race, and the
\* two halves of the check read the checker at different times.
NoReplay ==
    \A k \in Checkers :
        pc[k] = "accepted" => subject[k] \notin TxsOf(seen[k])

\* m_nonceCache holds the nonces of the blocks that belong there and no
\* others: forgetting a block never takes away a nonce that a later block
\* needs, and never leaves one behind that blocks new transactions for ever.
CacheExact ==
    \A n \in Nonces :
        n \in m_nonceCache <=> \E b \in Blocks : Held(b) /\ n \in NoncesOf(chain[b])

\* m_blockNonceCache never holds more than BlockLimit blocks ("we cache at
\* most m_blockLimit entries", LedgerNonceChecker.h:60), even when the
\* results of several blocks arrive out of order.
CacheBounded == Cardinality(DOMAIN m_blockNonceCache) <= BlockLimit

Guard == INSTANCE ReplayGuard WITH
    registered <- TxsOf(Applied),
    before <- [k \in Checkers |-> TxsOf(seen[k])]

\* The checker, with its caches and races, implements the guard that simply
\* remembers every registered transaction.
ImplementsGuard == Guard!Spec
=============================================================================
