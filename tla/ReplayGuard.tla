---------------------------- MODULE ReplayGuard ----------------------------
(***************************************************************************)
(* What the check against the chain promises the rest of the pool: a       *)
(* transaction is never accepted when it had been registered, as part of a *)
(* block whose result the node finished applying, before its check began.  *)
(* A transaction registered while the check runs may still be accepted.    *)
(***************************************************************************)
CONSTANTS Txs, Checkers, NoTx

VARIABLES
    registered,  \* the transactions of the blocks applied so far
    pc,          \* pc[k]: what check k is doing
    subject,     \* subject[k]: the transaction it looks at
    before       \* before[k]: the transactions registered when it began

vars == <<registered, pc, subject, before>>

Init ==
    /\ registered = {}
    /\ pc = [k \in Checkers |-> "idle"]
    /\ subject = [k \in Checkers |-> NoTx]
    /\ before = [k \in Checkers |-> {}]

Register(S) ==
    /\ registered' = registered \cup S
    /\ UNCHANGED <<pc, subject, before>>

Begin(k, t) ==
    /\ pc[k] = "idle"
    /\ \E p \in {"checking", "refused"} : pc' = [pc EXCEPT ![k] = p]
    /\ subject' = [subject EXCEPT ![k] = t]
    /\ before' = [before EXCEPT ![k] = registered]
    /\ UNCHANGED registered

Accept(k) ==
    /\ pc[k] = "checking"
    /\ subject[k] \notin before[k]
    /\ pc' = [pc EXCEPT ![k] = "accepted"]
    /\ UNCHANGED <<registered, subject, before>>

Refuse(k) ==
    /\ pc[k] = "checking"
    /\ pc' = [pc EXCEPT ![k] = "refused"]
    /\ UNCHANGED <<registered, subject, before>>

End(k) ==
    /\ pc[k] \in {"accepted", "refused"}
    /\ pc' = [pc EXCEPT ![k] = "idle"]
    /\ subject' = [subject EXCEPT ![k] = NoTx]
    /\ before' = [before EXCEPT ![k] = {}]
    /\ UNCHANGED registered

\* A restart ends every check; the node comes back knowing at least as much.
Crash(S) ==
    /\ registered' = registered \cup S
    /\ pc' = [k \in Checkers |-> "idle"]
    /\ subject' = [k \in Checkers |-> NoTx]
    /\ before' = [k \in Checkers |-> {}]

Next ==
    \/ \E S \in SUBSET Txs : Register(S) \/ Crash(S)
    \/ \E k \in Checkers :
         \/ \E t \in Txs : Begin(k, t)
         \/ Accept(k)
         \/ Refuse(k)
         \/ End(k)

Spec == Init /\ [][Next]_vars
===========================================================================
