------------------------------- MODULE Gossip -------------------------------
(***************************************************************************)
(* How transactions may spread through a group.  A node pools one only     *)
(* because a client submitted it there or because a node told it, perhaps  *)
(* again after a block brought it.  A node tells others only of what it    *)
(* has, only consensus nodes, and never itself.  Blocks bring only what    *)
(* some node has.                                                          *)
(***************************************************************************)
CONSTANTS
    Nodes,       \* the nodes
    Consensus,   \* those that take part in consensus
    Txs          \* the transactions

VARIABLES
    pooled,      \* pooled[n]: the transactions that node n pools
    committed,   \* committed[n]: those of the blocks it applied
    submitted,   \* <<n, t>>: a client submitted t to node n
    told         \* <<n, m, t>>: n told m of t

vars == <<pooled, committed, submitted, told>>

Init ==
    /\ pooled = [n \in Nodes |-> {}]
    /\ committed = [n \in Nodes |-> {}]
    /\ submitted = {}
    /\ told = {}

Has(n) == pooled[n] \cup committed[n]

\* A client submits t to n, which may refuse it.
Submit(n, t) ==
    /\ <<n, t>> \notin submitted
    /\ submitted' = submitted \cup {<<n, t>>}
    /\ UNCHANGED <<pooled, committed, told>>

\* Node n pools what was submitted to it, or what a node told it of.
Pool(n, t) ==
    /\ <<n, t>> \in submitted \/ \E m \in Nodes : <<m, n, t>> \in told
    /\ pooled' = [pooled EXCEPT ![n] = @ \cup {t}]
    /\ UNCHANGED <<committed, submitted, told>>

\* Node n tells others: the pairs A of a node and a transaction.
Tell(n, A) ==
    /\ A \subseteq (Consensus \ {n}) \X Has(n)
    /\ told' = told \cup {<<n, a[1], a[2]>> : a \in A}
    /\ UNCHANGED <<pooled, committed, submitted>>

\* Node n applies a block with t.
Apply(n, t) ==
    /\ t \notin committed[n] /\ \E m \in Nodes : t \in Has(m)
    /\ committed' = [committed EXCEPT ![n] = @ \cup {t}]
    /\ pooled' = [pooled EXCEPT ![n] = @ \ {t}]
    /\ UNCHANGED <<submitted, told>>

Next ==
    \/ \E n \in Nodes, t \in Txs : Submit(n, t) \/ Pool(n, t) \/ Apply(n, t)
    \/ \E n \in Nodes, A \in SUBSET (Consensus \X Txs) : Tell(n, A)

Spec == Init /\ [][Next]_vars
=============================================================================
