------------------------- MODULE MCProposalVerify -------------------------
(***************************************************************************)
(* An instance of ProposalVerify.  Proposal p has two transactions with    *)
(* the same nonce, and the limit of one is reached with the first block.   *)
(* Proposal q has a transaction whose signature is wrong.                  *)
(***************************************************************************)
EXTENDS ProposalVerify, TLC

CONSTANTS a, b, c, n1, n2, p, q

MCNonceOf == (a :> n1) @@ (b :> n1) @@ (c :> n2)
MCLimitOf == (a :> 1) @@ (b :> 2) @@ (c :> 2)
MCTxsIn == (p :> {a, b}) @@ (q :> {c})
===========================================================================
