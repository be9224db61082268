--------------------------- MODULE ClientPromise ---------------------------
(***************************************************************************)
(* What the storage promises the clients that submit transactions: each    *)
(* submission ends in one answer.  A client is told at once that it is     *)
(* refused, or its transaction is pooled and it is told later, but not     *)
(* before the transaction has a reason to leave: its nonce is used on the  *)
(* chain, or its block limit is reached.  A client is only forgotten when  *)
(* the nonce of its transaction is used.                                   *)
(***************************************************************************)
EXTENDS Naturals

CONSTANT Rpc     \* the submissions of clients

VARIABLES
    place,       \* place[s]: where submission s is
    answers,     \* answers[s]: how often its client was answered
    used,        \* the submissions whose nonce is used on the chain
    expired      \* those whose block limit is reached

vars == <<place, answers, used, expired>>

Init ==
    /\ place = [s \in Rpc |-> "call"]
    /\ answers = [s \in Rpc |-> 0]
    /\ used = {}
    /\ expired \in SUBSET Rpc

Pooled == {s \in Rpc : place[s] = "pool"}

\* The submissions S are over, and their clients forgotten.
End(S) == place' = [s \in Rpc |-> IF s \in S THEN "over" ELSE place[s]]

Answer(S) == answers' = [s \in Rpc |-> IF s \in S THEN answers[s] + 1 ELSE answers[s]]

Refuse(s) ==
    /\ place[s] = "call"
    /\ End({s})
    /\ Answer({s})
    /\ UNCHANGED <<used, expired>>

Accept(s) ==
    /\ place[s] = "call"
    /\ place' = [place EXCEPT ![s] = "pool"]
    /\ UNCHANGED <<answers, used, expired>>

Settle(S) ==
    /\ S \subseteq used \cup expired
    /\ End(S)
    /\ Answer(S)
    /\ UNCHANGED <<used, expired>>

Forget(S) ==
    /\ S \subseteq used
    /\ End(S)
    /\ UNCHANGED <<answers, used, expired>>

\* The chain grows.
Advance ==
    /\ used \subseteq used' /\ used' \subseteq Rpc
    /\ expired \subseteq expired' /\ expired' \subseteq Rpc
    /\ UNCHANGED <<place, answers>>

Next ==
    \/ \E s \in Rpc : Refuse(s) \/ Accept(s)
    \/ \E S \in SUBSET Pooled : Settle(S) \/ Forget(S)
    \/ Advance

Spec == Init /\ [][Next]_vars
============================================================================
