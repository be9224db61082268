-------------------------- MODULE ProposalPromise --------------------------
(***************************************************************************)
(* What the pool promises consensus about the proposals of other nodes.    *)
(* Consensus may have a proposal verified, and its block filled once it    *)
(* was told yes; each request is answered once.  A yes to the first means  *)
(* that the pool has every transaction of the proposal, but for those that *)
(* no node can pool any more; a yes to the second that it has them all at  *)
(* that moment; and a no to the second that one of them is gone for good.  *)
(* In between the pool takes and drops transactions as it likes, but drops *)
(* none that is not gone.                                                  *)
(***************************************************************************)
EXTENDS Naturals

CONSTANTS
    Txs,         \* the transactions
    Proposals,   \* the proposals
    TxsIn        \* TxsIn[p]: the transactions of proposal p

VARIABLES
    pooled,      \* the transactions the pool has
    gone,        \* those that no node can pool any more
    told,        \* told[r]: what consensus was told of request r
    calls        \* calls[r]: how often it was told

vars == <<pooled, gone, told, calls>>

Requests == Proposals \X {"verify", "fill"}

Init ==
    /\ pooled = {}
    /\ gone \in SUBSET Txs
    /\ told = [r \in Requests |-> "none"]
    /\ calls = [r \in Requests |-> 0]

\* The pool and the chain go on.
Advance ==
    /\ UNCHANGED <<told, calls>>
    /\ gone' \in {G \in SUBSET Txs : gone \subseteq G}
    /\ pooled' \in SUBSET Txs
    /\ \A t \in pooled \ pooled' : t \in gone'

Answer(r, verdict) ==
    /\ calls[r] = 0
    /\ told' = [told EXCEPT ![r] = verdict]
    /\ calls' = [calls EXCEPT ![r] = 1]
    /\ UNCHANGED <<pooled, gone>>

Verify(p) ==
    \/ Answer(<<p, "verify">>, "no")
    \/ TxsIn[p] \subseteq pooled \cup gone /\ Answer(<<p, "verify">>, "yes")

Fill(p) ==
    /\ told[<<p, "verify">>] = "yes"
    /\ \/ TxsIn[p] \cap gone # {} /\ Answer(<<p, "fill">>, "no")
       \/ TxsIn[p] \subseteq pooled /\ Answer(<<p, "fill">>, "yes")

Next ==
    \/ Advance
    \/ \E p \in Proposals : Verify(p) \/ Fill(p)

Spec == Init /\ [][Next]_vars
============================================================================
