------------------------------ MODULE Ledger ------------------------------
(***************************************************************************)
(* The chain as the transaction pool sees it.  Consensus and the ledger    *)
(* are other services: the pool reads the block number and the nonces of   *)
(* past blocks when it starts (LedgerConfigFetcher, used by TxPool::init)   *)
(* and is told of every block that commits (asyncNotifyBlockResult).       *)
(* A transaction is its identity, its nonce and its block limit.           *)
(***************************************************************************)
EXTENDS Integers, FiniteSets

CONSTANTS
    Txs,         \* the transactions
    Nonces,      \* their nonces
    NonceOf,     \* NonceOf[t]: the nonce t carries
    LimitOf,     \* LimitOf[t]: the last block number t may still be pooled before
    BlockLimit,  \* m_blockLimit, how far ahead a block limit may lie
    MaxBlock,    \* bound: the chain stops growing here
    MaxLag       \* how many block results may be outstanding at a time

ASSUME LedgerAssumption ==
    /\ NonceOf \in [Txs -> Nonces]
    /\ LimitOf \in [Txs -> Nat]
    /\ BlockLimit \in Nat \ {0}
    /\ MaxBlock \in Nat
    /\ MaxLag \in Nat \ {0}

VARIABLES
    height,      \* the number of the latest committed block
    chain        \* chain[b]: the transactions of block b

ledgerVars == <<height, chain>>

Blocks == 1 .. MaxBlock

NoncesOf(S) == {NonceOf[t] : t \in S}

\* The transactions of the blocks in B.
TxsOf(B) == UNION {chain[b] : b \in B}

LedgerInit ==
    /\ height = 0
    /\ chain = [b \in Blocks |-> {}]

(***************************************************************************)
(* What consensus agrees to put into the next block: transactions within   *)
(* the block limit when they were first pooled, none of them on the chain   *)
(* already, and a nonce that occurs on the chain only once the nodes have  *)
(* had time to forget it.  Honest nodes refuse a proposal with a nonce     *)
(* they know from the chain (enforceSubmitTransaction); that they refuse   *)
(* early enough is an assumption about consensus.  Nothing is assumed of   *)
(* the nonces within one block.                                            *)
(***************************************************************************)
Eligible(S) ==
    \A t \in S :
        /\ LimitOf[t] <= height + BlockLimit
        /\ \A b \in 1 .. height :
             /\ t \notin chain[b]
             /\ NonceOf[t] \in NoncesOf(chain[b])
                    => b + BlockLimit + MaxLag <= height + 1

\* Block height + 1 commits with the transactions S.
CommitBlock(S) ==
    /\ height < MaxBlock
    /\ Eligible(S)
    /\ height' = height + 1
    /\ chain' = [chain EXCEPT ![height + 1] = S]
===========================================================================
