--------------------------- MODULE MemoryStorage ---------------------------
(***************************************************************************)
(* bcos-txpool/txpool/storage/MemoryStorage.cpp with the validator it      *)
(* calls: the table of pending transactions, the nonces reserved by pooled *)
(* transactions, the queue of transactions to drop, and the callbacks      *)
(* through which a client learns what became of its transaction.           *)
(*                                                                         *)
(* Each action is a section of code under one lock, or the code between    *)
(* two accesses to shared state.  x_txpoolMutex is a readers-writer lock:  *)
(* a thread in "storing" and the sealer in its loop hold it for reading,   *)
(* one in "upgrading" holds it upgradable.  m_txPoolNonceChecker's lock is *)
(* held for reading by a thread in "reserving".  The other sections take   *)
(* one action.                                                             *)
(*                                                                         *)
(* The sealed flags, the batch hashes and the counter of sealed            *)
(* transactions are the subject of SealRaces.  Marks, unmarks and resets   *)
(* change nothing else, and here every reading of a flag or a hash may     *)
(* find any value.                                                         *)
(***************************************************************************)
EXTENDS LedgerNonceChecker

CONSTANTS
    Rpc,          \* the submissions of clients, each with a callback
    Gossip,       \* the imports of transactions received from other nodes
    Enforces,     \* the imports of transactions of a proposal under verification
    CallTx,       \* CallTx[c]: the transaction of call c
    NoCallback,   \* no callback
    NoTx,         \* no transaction
    PoolLimit,    \* m_config->poolLimit()
    Workers       \* bound: calls that run at the same time

Submits == Rpc \cup Gossip
Calls == Submits \cup Enforces

ASSUME StorageAssumption ==
    /\ Rpc \cap Gossip = {} /\ Submits \cap Enforces = {}
    /\ CallTx \in [Calls -> Txs]
    /\ NoCallback \notin Rpc
    /\ NoTx \notin Txs
    /\ PoolLimit \in Nat
    /\ IsFiniteSet(Txs)
    /\ MaxLag = 1

VARIABLES
    m_txsTable,       \* the pooled transactions
    callback,         \* callback[t]: whose callback t carries
    m_poolNonces,     \* m_txPoolNonceChecker's nonces
    m_invalidTxs,     \* transactions to be dropped
    m_invalidNonces,  \* nonces to be released with them
    cleanupQueued,    \* removeInvalidTxs waits in m_notifier
    sealer,           \* where the sealer's loop over the table is
    pc,               \* pc[c]: where call c is
    answers,          \* answers[s]: how often client call s was answered
    blockStage        \* how far the result of block height has been applied

tableVars == <<m_txsTable, callback>>
cleanupVars == <<m_invalidTxs, m_invalidNonces, cleanupQueued>>
vars == <<ledgerVars, checkerVars, tableVars, m_poolNonces, cleanupVars, sealer,
          pc, answers, blockStage>>

SubmitPhases == {"sized", "unknown", "nonced", "verified", "reserving"}
EnforcePhases == {"looking", "upgrading"}
InsertPhases == {"inserting", "storing"}
Running == SubmitPhases \cup EnforcePhases \cup InsertPhases
Phases == Running \cup {"idle", "accepted", "refused"}
BlockStages == {"committed", "removed", "numbered", "inserted", "rotated", "done"}

\* The sealer waits, or is between two transactions, or is about to look up the
\* nonce, to test the block limit, or to test the flag of transaction tx.
SealPhases == {"idle", "between", "nonce", "limit", "flag"}
NotAtTx == {"idle", "between"}

TypeOK ==
    /\ height \in 0 .. MaxBlock
    /\ chain \in [Blocks -> SUBSET Txs]
    /\ CheckerTypeOK
    /\ m_txsTable \subseteq Txs
    /\ callback \in [Txs -> Rpc \cup {NoCallback}]
    /\ \A t \in Txs \ m_txsTable : callback[t] = NoCallback
    /\ m_poolNonces \subseteq Nonces
    /\ m_invalidTxs \subseteq Txs
    /\ m_invalidNonces \subseteq Nonces
    /\ cleanupQueued \in BOOLEAN
    /\ sealer \in [at : SealPhases, tx : Txs \cup {NoTx}, replaced : BOOLEAN, applied : BOOLEAN]
    /\ IF sealer.at \in NotAtTx THEN sealer.tx = NoTx ELSE sealer.tx \in m_txsTable
    /\ pc \in [Calls -> Phases]
    /\ \A e \in Enforces : pc[e] = "upgrading" => CallTx[e] \in m_txsTable
    /\ answers \in [Rpc -> Nat]
    /\ blockStage \in BlockStages

Init ==
    /\ LedgerInit
    /\ CheckerInit
    /\ m_txsTable = {}
    /\ callback = [t \in Txs |-> NoCallback]
    /\ m_poolNonces = {}
    /\ m_invalidTxs = {}
    /\ m_invalidNonces = {}
    /\ cleanupQueued = FALSE
    /\ sealer = [at |-> "idle", tx |-> NoTx, replaced |-> FALSE, applied |-> FALSE]
    /\ pc = [c \in Calls |-> "idle"]
    /\ answers = [s \in Rpc |-> 0]
    /\ blockStage = "done"
-----------------------------------------------------------------------------
(***************************************************************************)
(* Locks, callbacks and the table.                                         *)
(***************************************************************************)
InPhase(P) == {c \in Calls : pc[c] \in P}

\* Variant, a slip: an import gives up its lock to upgrade it.
CanWriteBeforeUpgrade == InPhase({"storing"}) = {} /\ sealer.at = "idle"

\* Variant, a slip: the sealer's loop runs without the lock.
CanWriteWhileSealing == InPhase({"storing", "upgrading"}) = {}

\* WriteGuard on x_txpoolMutex: no reader, no upgradable holder.
CanWriteTable == InPhase({"storing", "upgrading"}) = {} /\ sealer.at = "idle"

\* WriteGuard on the pool nonces' lock.
CanWriteNonces == InPhase({"reserving"}) = {}

\* Variant, a slip: what is dropped as unfit is dropped without a result.
ClientsOfFit(S) == {callback[t] : t \in S \ m_invalidTxs} \ {NoCallback}

\* The clients that hold a callback on the transactions S.
Clients(S) == {callback[t] : t \in S} \ {NoCallback}

\* Each client of C is answered once more.
Answer(C) == answers' = [s \in Rpc |-> IF s \in C THEN answers[s] + 1 ELSE answers[s]]

\* The transactions R leave the table with their callbacks.
Drop(R) ==
    /\ m_txsTable' = m_txsTable \ R
    /\ callback' = [t \in Txs |-> IF t \in R THEN NoCallback ELSE callback[t]]

Goto(c, p) == pc' = [pc EXCEPT ![c] = p]
-----------------------------------------------------------------------------
(***************************************************************************)
(* Submissions (asyncSubmitTransaction, verifyAndSubmitTransaction).       *)
(***************************************************************************)
InProgress == InPhase(Running)

\* A worker takes up call c.
MayBegin(c) ==
    /\ pc[c] = "idle"
    /\ Cardinality(InProgress) < Workers

\* The call returns an error; a client is told at once (notifyInvalidReceipt).
Refuse(s) ==
    /\ Goto(s, "refused")
    /\ Answer({s} \cap Rpc)

\* One check of a submission: the next phase if it passes, else the refusal.
Check(s, passes, next) ==
    \/ passes /\ Goto(s, next) /\ UNCHANGED answers
    \/ ~passes /\ Refuse(s)

\* The checks change nothing but the call itself.
OnlyCall ==
    UNCHANGED <<ledgerVars, checkerVars, tableVars, m_poolNonces, cleanupVars, sealer, blockStage>>

\* The node is not in the group (checkExistsInGroup), or the bytes do not
\* decode: refused before the storage is consulted.
RefuseOutside(s) ==
    /\ MayBegin(s)
    /\ Refuse(s)
    /\ OnlyCall

\* Variant, a slip: size() > poolLimit().
CheckSizeLate(s) ==
    /\ MayBegin(s)
    /\ Check(s, Cardinality(m_txsTable) <= PoolLimit, "sized")
    /\ OnlyCall

\* size() >= poolLimit(): TxPoolIsFull.
CheckSize(s) ==
    /\ MayBegin(s)
    /\ Check(s, Cardinality(m_txsTable) < PoolLimit, "sized")
    /\ OnlyCall

\* txpoolStorageCheck: AlreadyInTxPool.
CheckExist(s) ==
    /\ pc[s] = "sized"
    /\ Check(s, CallTx[s] \notin m_txsTable, "unknown")
    /\ OnlyCall

\* TxValidator::verify, submittedToChain, the nonces of the chain.
CheckLedgerNonce(s) ==
    /\ pc[s] = "unknown"
    /\ Check(s, NonceFree(CallTx[s]), "nonced")
    /\ OnlyCall

\* submittedToChain, the block limit; then the signature, which (like the group
\* and the chain identifiers, tested before) may be wrong.
CheckLimitAndSignature(s) ==
    /\ pc[s] = "nonced"
    /\ \/ BlockLimitOK(CallTx[s]) /\ Goto(s, "verified") /\ UNCHANGED answers
       \/ Refuse(s)
    /\ OnlyCall

\* The pool's checkNonce looks the nonce up under its lock, held for reading.
CheckPoolNonce(s) ==
    /\ pc[s] = "verified"
    /\ Check(s, NonceOf[CallTx[s]] \notin m_poolNonces, "reserving")
    /\ OnlyCall

\* Still under that lock, it inserts the nonce.
ReserveNonce(s) ==
    /\ pc[s] = "reserving"
    /\ m_poolNonces' = m_poolNonces \cup {NonceOf[CallTx[s]]}
    /\ Goto(s, "inserting")
    /\ UNCHANGED <<ledgerVars, checkerVars, tableVars, cleanupVars, sealer, answers, blockStage>>

(***************************************************************************)
(* insert: looks the transaction up again under the table's lock, held for *)
(* reading.  A submission reports AlreadyInTxPool; an import for a proposal *)
(* ignores what insert returns.                                            *)
(***************************************************************************)
CheckAgain(c) ==
    /\ pc[c] = "inserting"
    /\ \/ CallTx[c] \notin m_txsTable /\ Goto(c, "storing") /\ UNCHANGED answers
       \/ CallTx[c] \in m_txsTable /\ c \in Submits /\ Refuse(c)
       \/ CallTx[c] \in m_txsTable /\ c \in Enforces /\ Goto(c, "accepted")
          /\ UNCHANGED answers
    /\ OnlyCall

(***************************************************************************)
(* The object that call c brings takes its place in the table.  An object  *)
(* stored for the same transaction in between is replaced, with its        *)
(* callback; the sealer's loop, if it is at that transaction, goes on with  *)
(* the old object.                                                         *)
(***************************************************************************)
StoreObject(c) ==
    LET t == CallTx[c] IN
    /\ m_txsTable' = m_txsTable \cup {t}
    /\ callback' = [callback EXCEPT ![t] = IF c \in Rpc THEN c ELSE NoCallback]
    /\ sealer' = [sealer EXCEPT !.replaced = @ \/ sealer.tx = t]

\* Variant, a slip: the table is looked up after the object is stored.
StoreThenCheck(c) ==
    /\ pc[c] = "storing"
    /\ StoreObject(c)
    /\ Refuse(c)
    /\ UNCHANGED <<ledgerVars, checkerVars, m_poolNonces, cleanupVars, blockStage>>

\* insert, still under that lock.
Store(c) ==
    /\ pc[c] = "storing"
    /\ StoreObject(c)
    /\ Goto(c, "accepted")
    /\ UNCHANGED <<ledgerVars, checkerVars, m_poolNonces, cleanupVars, answers, blockStage>>
-----------------------------------------------------------------------------
(***************************************************************************)
(* Imports for a proposal (enforceSubmitTransaction).                      *)
(***************************************************************************)
\* submittedToChain: only a nonce on the chain counts, not the block limit.
EnforceCheckNonce(e) ==
    /\ MayBegin(e)
    /\ Goto(e, IF NonceFree(CallTx[e]) THEN "looking" ELSE "refused")
    /\ UNCHANGED answers
    /\ OnlyCall

(***************************************************************************)
(* UpgradableGuard: one holder at a time, together with readers.  A pooled *)
(* transaction that is not sealed for a proposal is to be marked; one that *)
(* is belongs to this proposal or to another.  An unknown one is inserted, *)
(* marked, without the lock.                                               *)
(***************************************************************************)
Lookup(e) ==
    /\ pc[e] = "looking"
    /\ InPhase({"upgrading"}) = {}
    /\ \/ CallTx[e] \notin m_txsTable /\ Goto(e, "inserting")
       \/ CallTx[e] \in m_txsTable /\ \E p \in {"upgrading", "accepted", "refused"} : Goto(e, p)
    /\ UNCHANGED answers
    /\ OnlyCall

\* UpgradeGuard, once the readers have left: the transaction is marked.
MarkForProposal(e) ==
    /\ pc[e] = "upgrading"
    /\ InPhase({"storing"}) = {} /\ sealer.at = "idle"
    /\ Goto(e, "accepted")
    /\ UNCHANGED answers
    /\ OnlyCall
-----------------------------------------------------------------------------
(***************************************************************************)
(* The sealer (asyncSealTxs, batchFetchTxs).  Its loop holds the table's   *)
(* lock for reading and visits transactions in an order that only the      *)
(* table's hashing knows, until it has as many as it was asked for; how     *)
(* many that is, and which ones it was asked to avoid, is left open.       *)
(***************************************************************************)
SealerAt(p) == sealer' = [at |-> p, tx |-> NoTx, replaced |-> FALSE, applied |-> FALSE]

\* Of the sealer's steps these two change nothing but the sealer.
OnlySealer ==
    UNCHANGED <<ledgerVars, checkerVars, tableVars, m_poolNonces, m_invalidTxs,
                m_invalidNonces, pc, answers, blockStage>>

BeginSeal ==
    /\ sealer.at = "idle"
    /\ SealerAt("between")
    /\ OnlySealer
    /\ UNCHANGED cleanupQueued

\* What was queued to be dropped is passed over.
Visit(t) ==
    /\ sealer.at = "between"
    /\ t \in m_txsTable \ m_invalidTxs
    /\ sealer' = [sealer EXCEPT !.at = "nonce", !.tx = t]
    /\ OnlySealer
    /\ UNCHANGED cleanupQueued

\* The transactions of the blocks applied here.
AppliedTxs == TxsOf(1 .. (IF blockStage = "done" THEN height ELSE height - 1))

\* Variant, a slip: the chain is not consulted again.
NeverOnChain(t) == FALSE

\* submittedToChain, the nonces of the chain.
OnChain(t) == ~NonceFree(t)

(***************************************************************************)
(* What turns out to be on the chain loses its callback, unless another    *)
(* object has taken its place in the table, and is queued to be dropped;   *)
(* its nonce goes into the set of transactions, where no one looks for it. *)
(***************************************************************************)
LookUpNonce(t) ==
    /\ sealer.at = "nonce" /\ sealer.tx = t
    /\ \/ /\ OnChain(t)
          /\ callback' = IF sealer.replaced THEN callback
                                            ELSE [callback EXCEPT ![t] = NoCallback]
          /\ m_invalidTxs' = m_invalidTxs \cup {t}
          /\ SealerAt("between")
       \/ /\ ~OnChain(t)
          /\ sealer' = [sealer EXCEPT !.at = "limit", !.applied = t \in AppliedTxs]
          /\ UNCHANGED <<callback, m_invalidTxs>>
    /\ UNCHANGED <<ledgerVars, checkerVars, m_txsTable, m_poolNonces, m_invalidNonces,
                   cleanupQueued, pc, answers, blockStage>>

\* Variant, a slip: the limit of the block to come.
PastLimitEarly(t) == LimitOf[t] <= m_blockNumber + 1

\* submittedToChain, the block limit.
PastLimit(t) == ~BlockLimitOK(t)

\* Variant, a slip: no nonce is queued to be released.
KeepNonces(t) == {}

\* The nonces queued to be released with t, which is past its block limit.
NoncesToRelease(t) == {NonceOf[t]}

\* What is past its block limit is queued to be dropped, with its nonce, unless
\* its flag was found to be set.
TestLimit(t) ==
    /\ sealer.at = "limit" /\ sealer.tx = t
    /\ \/ /\ PastLimit(t)
          /\ m_invalidTxs' = m_invalidTxs \cup {t}
          /\ m_invalidNonces' = m_invalidNonces \cup NoncesToRelease(t)
          /\ SealerAt("between")
       \/ /\ sealer' = [sealer EXCEPT !.at = "flag"]
          /\ UNCHANGED <<m_invalidTxs, m_invalidNonces>>
    /\ UNCHANGED <<ledgerVars, checkerVars, tableVars, m_poolNonces, cleanupQueued, pc,
                   answers, blockStage>>

\* The transaction is taken, or passed over because it is to be avoided or was
\* found to be sealed.
TestFlag ==
    /\ sealer.at = "flag"
    /\ SealerAt("between")
    /\ OnlySealer
    /\ UNCHANGED cleanupQueued

\* The loop ends and the removal of what it queued is handed to m_notifier.
EndSeal ==
    /\ sealer.at = "between"
    /\ SealerAt("idle")
    /\ cleanupQueued' = TRUE
    /\ OnlySealer

(***************************************************************************)
(* removeInvalidTxs, run by m_notifier.  Tasks queued more than once do    *)
(* nothing after the first.                                                *)
(***************************************************************************)
Cleanup ==
    /\ cleanupQueued
    /\ cleanupQueued' = FALSE
    /\ \/ /\ m_invalidTxs = {}
          /\ UNCHANGED <<tableVars, m_poolNonces, m_invalidTxs, m_invalidNonces, answers>>
       \/ LET R == m_invalidTxs \cap m_txsTable IN
          /\ m_invalidTxs # {}
          /\ CanWriteTable /\ CanWriteNonces
          /\ Drop(R)
          /\ Answer(Clients(R))
          /\ m_poolNonces' = m_poolNonces \ m_invalidNonces
          /\ m_invalidTxs' = {}
          /\ m_invalidNonces' = {}
    /\ UNCHANGED <<ledgerVars, checkerVars, sealer, pc, blockStage>>
-----------------------------------------------------------------------------
(***************************************************************************)
(* The result of a block (asyncNotifyBlockResult, batchRemove).            *)
(***************************************************************************)
\* Consensus commits a block when the previous one has been applied here.
Commit(S) ==
    /\ blockStage = "done"
    /\ CommitBlock(S)
    /\ blockStage' = "committed"
    /\ UNCHANGED <<checkerVars, tableVars, m_poolNonces, cleanupVars, sealer, pc, answers>>

\* The section under the table's write lock: the block's transactions leave
\* the table and their clients are answered.
RemoveBatch ==
    LET R == chain[height] \cap m_txsTable IN
    /\ blockStage = "committed"
    /\ CanWriteTable
    /\ Drop(R)
    /\ Answer(Clients(R))
    /\ blockStage' = "removed"
    /\ UNCHANGED <<ledgerVars, checkerVars, m_poolNonces, cleanupVars, sealer, pc>>

\* The ledger nonce checker's batchInsert: its number, its nonces, its window.
AdvanceNumber ==
    /\ blockStage = "removed"
    /\ IF NumberIsOlder(height) THEN StoreBlockNumber(height) ELSE UNCHANGED m_blockNumber
    /\ blockStage' = "numbered"
    /\ UNCHANGED <<ledgerVars, m_nonceCache, m_blockNonceCache, tableVars,
                   m_poolNonces, cleanupVars, sealer, pc, answers>>

RegisterNonces ==
    /\ blockStage = "numbered"
    /\ InsertNonces(NoncesOf(chain[height]))
    /\ blockStage' = "inserted"
    /\ UNCHANGED <<ledgerVars, m_blockNumber, m_blockNonceCache, tableVars,
                   m_poolNonces, cleanupVars, sealer, pc, answers>>

ForgetNonces ==
    /\ blockStage = "inserted"
    /\ RotateNonceCache(height, NoncesOf(chain[height]))
    /\ blockStage' = "rotated"
    /\ UNCHANGED <<ledgerVars, m_blockNumber, tableVars, m_poolNonces,
                   cleanupVars, sealer, pc, answers>>

\* The pool's nonce checker forgets the nonces of the block.
ReleaseNonces ==
    /\ blockStage = "rotated"
    /\ CanWriteNonces
    /\ m_poolNonces' = m_poolNonces \ NoncesOf(chain[height])
    /\ blockStage' = "done"
    /\ UNCHANGED <<ledgerVars, checkerVars, tableVars, cleanupVars, sealer, pc, answers>>
-----------------------------------------------------------------------------
SubmitStep(s) ==
    \/ RefuseOutside(s)
    \/ CheckSize(s)
    \/ CheckExist(s)
    \/ CheckLedgerNonce(s)
    \/ CheckLimitAndSignature(s)
    \/ CheckPoolNonce(s)
    \/ ReserveNonce(s)
    \/ CheckAgain(s)
    \/ Store(s)

EnforceStep(e) ==
    \/ EnforceCheckNonce(e)
    \/ Lookup(e)
    \/ MarkForProposal(e)
    \/ CheckAgain(e)
    \/ Store(e)

SealStep ==
    \/ BeginSeal
    \/ \E t \in Txs : Visit(t) \/ LookUpNonce(t) \/ TestLimit(t)
    \/ TestFlag
    \/ EndSeal

BlockStep ==
    RemoveBatch \/ AdvanceNumber \/ RegisterNonces \/ ForgetNonces \/ ReleaseNonces

Next ==
    \/ \E s \in Submits : SubmitStep(s)
    \/ \E e \in Enforces : EnforceStep(e)
    \/ SealStep
    \/ Cleanup
    \/ \E S \in SUBSET Txs : Commit(S)
    \/ BlockStep

Spec == Init /\ [][Next]_vars
-----------------------------------------------------------------------------
(***************************************************************************)
(* Properties.                                                             *)
(***************************************************************************)
\* The transactions on the chain.
Committed == TxsOf(1 .. height)

\* No client is answered twice, whatever answers it: the refusal of its call,
\* the result of a block, or the removal of its transaction.
OneAnswer == \A s \in Rpc : answers[s] <= 1

\* A client whose call is over was answered, or its transaction is pooled with
\* its callback, or the transaction's nonce was used on the chain.
NoSilentLoss ==
    \A s \in Rpc :
        pc[s] \in {"accepted", "refused"} /\ answers[s] = 0
            => \/ callback[CallTx[s]] = s
               \/ NonceOf[CallTx[s]] \in NoncesOf(Committed)

\* The pool exceeds its limit by no more than the calls that passed the size
\* check together, and the imports for proposals, which are not limited.
PoolBound ==
    Cardinality(m_txsTable) < PoolLimit + Workers
        + Cardinality({e \in Enforces : pc[e] = "accepted"})

\* A reserved nonce has a reason: a pooled transaction carries it, a call that
\* reserved it is about to pool its transaction, or it is on the chain.  Else
\* no transaction with the nonce could ever enter the pool again.
NonceNotLeaked ==
    \A n \in m_poolNonces :
        \/ n \in NoncesOf(m_txsTable)
        \/ \E s \in InPhase(InsertPhases) : NonceOf[CallTx[s]] = n
        \/ n \in NoncesOf(Committed)

\* The sealer comes to no transaction whose block was applied here when the loop
\* looked its nonce up, although an import may bring the transaction back while
\* the result is being applied and later blocks may be applied during the loop:
\* only one past its block limit, whose flag was found to be set, gets that far.
NeverSealsCommitted ==
    sealer.at = "flag" /\ sealer.applied => LimitOf[sealer.tx] <= m_blockNumber

\* A transaction leaves the pool only when it is on the chain, its nonce is,
\* or its block limit has been reached.
LeavesOnlyForCause ==
    [][\A t \in m_txsTable \ m_txsTable' :
         NonceOf[t] \in NoncesOf(Committed) \/ LimitOf[t] <= height]_vars

\* insert never replaces a pooled transaction ("check again to ensure the same
\* transaction not be imported many times", MemoryStorage.cpp:202).
ImportedOnce == [][\A c \in Calls : Store(c) => CallTx[c] \notin m_txsTable]_vars

\* Whoever is accepted hears of the result: its transaction is pooled with its
\* callback until it is answered.  The sealer takes the callback of a transaction
\* with a nonce of the chain, since such a transaction is "already-committed,
\* but have not been dropped" (MemoryStorage.cpp:490).
AcceptedIsAnswered ==
    \A s \in Rpc : pc[s] = "accepted" /\ answers[s] = 0 => callback[CallTx[s]] = s

\* Where the submission of client s is.
Place(s) ==
    IF callback[CallTx[s]] = s THEN "pool"
    ELSE IF pc[s] \in {"accepted", "refused"} THEN "over" ELSE "call"

Promise == INSTANCE ClientPromise WITH
    place <- [s \in Rpc |-> Place(s)],
    used <- {s \in Rpc : NonceOf[CallTx[s]] \in NoncesOf(Committed)},
    expired <- {s \in Rpc : LimitOf[CallTx[s]] <= height}

\* The storage, with its locks, its queue of what to drop and its callbacks,
\* keeps the promise to the clients.
KeepsPromise == Promise!Spec
=============================================================================
