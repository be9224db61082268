----------------------------- MODULE MCStorage -----------------------------
(***************************************************************************)
(* Instances of MemoryStorage.  a and b carry the same nonce, c another;   *)
(* a's block limit is reached with the first block.                        *)
(***************************************************************************)
EXTENDS MemoryStorage, TLC

CONSTANTS a, b, c, n1, n2, r1, r2, g1, e1, e2

MCNonceOf == (a :> n1) @@ (b :> n1) @@ (c :> n2)
MCLimitOf == (a :> 1) @@ (b :> 2) @@ (c :> 2)

\* Clients and nodes submit three transactions.
SubmitCallTx == (r1 :> a) @@ (r2 :> b) @@ (g1 :> c)

\* A client submits a; proposals of other nodes bring a and b.
ConsensusNonceOf == (a :> n1) @@ (b :> n1)
ConsensusLimitOf == (a :> 1) @@ (b :> 2)
ConsensusCallTx == (r1 :> a) @@ (e1 :> a) @@ (e2 :> b)

\* A client submits a while a node sends it.
TwiceCallTx == (r1 :> a) @@ (g1 :> a)

\* A client submits a; a proposal brings b, with the same nonce.
RivalLimitOf == (a :> 2) @@ (b :> 2)
RivalCallTx == (r1 :> a) @@ (e1 :> b)
============================================================================
