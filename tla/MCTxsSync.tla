----------------------------- MODULE MCTxsSync -----------------------------
(***************************************************************************)
(* Instances of TxsSync.                                                   *)
(***************************************************************************)
EXTENDS TxsSync, TLC

CONSTANTS n1, n2, n3, n4, a, b

ListOfThree == <<n1, n2, n3>>
AllConnected == [n \in Nodes |-> Nodes]
NoneUnwanted == [n \in Nodes |-> {}]
LargePools == [n \in Nodes |-> 9]

\* A client submits a; n2 applies a block with it.
OneSubmission == {<<n1, a>>}
MCApplies == {<<n2, a>>}

\* A client submits a to a node that is not a consensus node.
FromOutside == {<<n4, a>>}

\* Two clients submit to n1.
SameNode == {<<n1, a>>, <<n1, b>>}
ListOfTwo == <<n1, n2>>
============================================================================
