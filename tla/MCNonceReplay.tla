---------------------------- MODULE MCNonceReplay ----------------------------
(***************************************************************************)
(* Three transactions.  a and b carry the same nonce, c another one.  a's  *)
(* limit is soon reached, so the checker relies on it; b can return the    *)
(* nonce to the chain once a is forgotten.                                 *)
(***************************************************************************)
EXTENDS NonceReplay, TLC

CONSTANTS a, b, c, n1, n2

MCNonceOf == (a :> n1) @@ (b :> n1) @@ (c :> n2)
MCLimitOf == (a :> 2) @@ (b :> 6) @@ (c :> 4)
==============================================================================
