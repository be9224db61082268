------------------------ MODULE MemoryStoragePromise ------------------------
(***************************************************************************)
(* Proof that the storage implements ClientPromise, when no transaction is *)
(* submitted twice and no block limit lies beyond the reach of the first   *)
(* block: every step of the storage is a step of the promise.              *)
(***************************************************************************)
EXTENDS MemoryStorageChain

\* What the steps rely on.
PromiseInv ==
    /\ TypeOK /\ BlockInv /\ CacheInv
    /\ CallbackInv /\ PendingInv /\ OneAnswer
    /\ CauseInv

Used == {s \in Rpc : NonceOf[CallTx[s]] \in NoncesOf(Committed)}
Overdue == {s \in Rpc : LimitOf[CallTx[s]] <= height}
LedgerUnchanged == UNCHANGED <<Used, Overdue>>
-----------------------------------------------------------------------------
(***************************************************************************)
(* What changes a part of the mapped state.                                *)
(***************************************************************************)
LEMMA UsedStays == UNCHANGED ledgerVars => LedgerUnchanged
BY UnchangedCommitted DEF LedgerUnchanged, Used, Overdue, NoncesOf, ledgerVars

LEMMA UsedGrows ==
    ASSUME TypeOK, [Next]_vars
    PROVE  Used \subseteq Used' /\ Overdue \subseteq Overdue'
<1>1. NoncesOf(Committed) \subseteq NoncesOf(Committed)'
  BY CommittedGrows, NoncesOfMonotone DEF NoncesOf
<1>2. height \in Nat /\ height' \in Nat /\ height <= height'
  BY HeightGrows
<1>3. \A s \in Rpc : LimitOf[CallTx[s]] \in Nat
  BY StorageAssumption, LedgerAssumption DEF Calls, Submits
<1> QED
  BY <1>1, <1>2, <1>3 DEF Used, Overdue

\* Only the chain moves, or nothing that clients see.
LEMMA AdvanceMaps ==
    ASSUME TypeOK, [Next]_vars, \A s \in Rpc : Place(s)' = Place(s), UNCHANGED answers
    PROVE  Promise!Advance
<1>1. Used' \subseteq Rpc /\ Overdue' \subseteq Rpc
  BY DEF Used, Overdue
<1>2. [s \in Rpc |-> Place(s)]' = [s \in Rpc |-> Place(s)]
  OBVIOUS
<1> QED
  BY <1>1, <1>2, UsedGrows DEF Promise!Advance, Used, Overdue

LEMMA EndMaps ==
    ASSUME NEW S \in SUBSET Rpc,
           \A s \in Rpc : Place(s)' = IF s \in S THEN "over" ELSE Place(s)
    PROVE  Promise!End(S)
BY DEF Promise!End

LEMMA AnswerMaps ==
    ASSUME NEW S \in SUBSET Rpc, Answer(S)
    PROVE  Promise!Answer(S)
BY DEF Promise!Answer, Answer

LEMMA PooledMaps == \A s \in Rpc : callback[CallTx[s]] = s => s \in Promise!Pooled
BY DEF Promise!Pooled, Place

\* Whoever's callback is pooled was accepted and waits for the answer.
LEMMA PooledWaits ==
    ASSUME TypeOK, CallbackInv, NEW s \in Rpc, callback[CallTx[s]] = s
    PROVE  pc[s] = "accepted" /\ answers[s] = 0
BY StorageAssumption DEF CallbackInv, Calls, Submits
-----------------------------------------------------------------------------
(***************************************************************************)
(* The steps.                                                              *)
(***************************************************************************)
LEMMA QuietMaps ==
    ASSUME TypeOK, [Next]_vars, UNCHANGED <<callback, pc, answers>>
    PROVE  Promise!Next
BY AdvanceMaps DEF Place, Promise!Next

\* A call that moves on is refused, or its client notices nothing.
LEMMA MovesMaps ==
    ASSUME PromiseInv, [Next]_vars, NEW c \in Calls, NEW p \in Phases, Moves(c, p),
           UNCHANGED <<callback, ledgerVars>>
    PROVE  Promise!Next
<1>1. pc \in [Calls -> Phases] /\ Rpc \subseteq Calls /\ TypeOK
  BY DEF PromiseInv, TypeOK, Calls, Submits
<1>2. \A s \in Rpc : pc'[s] = IF s = c THEN p ELSE pc[s]
  BY <1>1 DEF Moves, Goto
<1>3. c \in Rpc => callback[CallTx[c]] # c /\ Place(c) = "call"
  BY PooledWaits
     DEF PromiseInv, Moves, Place, Running, SubmitPhases, EnforcePhases, InsertPhases
<1>4. CASE c \in Rpc /\ p = "refused" /\ Answer({c} \cap Rpc)
  <2>1. \A s \in Rpc : Place(s)' = IF s \in {c} THEN "over" ELSE Place(s)
    BY <1>2, <1>3, <1>4 DEF Place
  <2>2. Promise!End({c}) /\ Promise!Answer({c})
    <3>1. {c} \in SUBSET Rpc /\ {c} \cap Rpc = {c}
      BY <1>4
    <3>2. Answer({c})
      BY <1>4, <3>1
    <3> QED
      BY <2>1, <3>1, <3>2, EndMaps, AnswerMaps
  <2>3. Promise!Refuse(c)
    BY <1>3, <1>4, <2>2, UsedStays DEF Promise!Refuse, LedgerUnchanged, Used, Overdue
  <2> QED
    BY <1>4, <2>3 DEF Promise!Next
<1>5. CASE UNCHANGED answers /\ \A s \in Rpc : Place(s)' = Place(s)
  BY <1>1, <1>5, AdvanceMaps DEF Promise!Next
<1>6. CASE c \in Rpc /\ UNCHANGED answers
  <2>1. p \notin {"accepted", "refused"}
    <3>1. answers \in [Rpc -> Nat] /\ {c} \cap Rpc = {c}
      BY <1>1, <1>6 DEF TypeOK
    <3>2. Answer({c}) => answers'[c] = answers[c] + 1
      BY <1>6 DEF Answer
    <3> QED
      BY <1>6, <3>1, <3>2 DEF Moves
  <2> QED
    BY <1>2, <1>3, <1>5, <1>6, <2>1 DEF Place
<1>7. CASE c \notin Rpc
  <2>1. UNCHANGED answers
    BY <1>7 DEF Moves, Answer, PromiseInv, TypeOK
  <2> QED
    BY <1>2, <1>5, <1>7, <2>1 DEF Place
<1> QED
  BY <1>4, <1>6, <1>7 DEF Moves

\* What a client brings into the table is pooled with its callback.
LEMMA StoreMaps ==
    ASSUME \A s \in Rpc : Alone(s), PromiseInv, [Next]_vars, NEW c \in Calls, Store(c)
    PROVE  Promise!Next
<1>1. /\ pc \in [Calls -> Phases] /\ Rpc \subseteq Calls /\ TypeOK /\ CallTx[c] \in Txs
      /\ callback \in [Txs -> Rpc \cup {NoCallback}]
      /\ \A s \in Rpc : CallTx[s] \in Txs
  BY StorageAssumption DEF PromiseInv, TypeOK, Calls, Submits
<1>2. /\ pc[c] = "storing" /\ answers' = answers /\ pc' = [pc EXCEPT ![c] = "accepted"]
      /\ callback' = [callback EXCEPT ![CallTx[c]] = IF c \in Rpc THEN c ELSE NoCallback]
      /\ UNCHANGED ledgerVars
  BY DEF Store, StoreObject, Goto
<1>3. \A s \in Rpc : s # c => CallTx[s] # CallTx[c]
  BY DEF Alone
<1>4. \A s \in Rpc : s # c => Place(s)' = Place(s)
  BY <1>1, <1>2, <1>3 DEF Place
<1>5. CASE c \in Rpc
  <2>1. Place(c) = "call" /\ Place(c)' = "pool"
    BY <1>1, <1>2, <1>5, PooledWaits DEF Place, PromiseInv
  <2>2. [s \in Rpc |-> Place(s)]' = [[s \in Rpc |-> Place(s)] EXCEPT ![c] = "pool"]
    BY <1>4, <2>1
  <2>3. Promise!Accept(c)
    BY <1>2, <1>5, <2>1, <2>2, UsedStays DEF Promise!Accept, LedgerUnchanged, Used, Overdue
  <2> QED
    BY <1>5, <2>3 DEF Promise!Next
<1>6. CASE c \notin Rpc
  BY <1>1, <1>2, <1>4, <1>6, AdvanceMaps DEF Promise!Next
<1> QED
  BY <1>5, <1>6

\* The sealer forgets the client whose callback it takes; its nonce is used.
LEMMA LookUpMaps ==
    ASSUME PromiseInv, [Next]_vars, NEW t \in Txs, LookUpNonce(t)
    PROVE  Promise!Next
<1> DEFINE S == {s \in Rpc : callback[CallTx[s]] = s /\ CallTx[s] = t}
<1>1. \A s \in Rpc : CallTx[s] \in Txs /\ s # NoCallback
  BY StorageAssumption DEF Calls, Submits
<1>2. UNCHANGED <<pc, answers, ledgerVars>>
  BY DEF LookUpNonce
<1>3. CASE UNCHANGED callback
  BY <1>2, <1>3, QuietMaps DEF PromiseInv
<1>4. CASE OnChain(t) /\ callback' = [callback EXCEPT ![t] = NoCallback]
  <2>1. \A s \in S : pc[s] = "accepted"
    BY PooledWaits DEF PromiseInv
  <2>2. \A s \in Rpc : callback'[CallTx[s]] = IF CallTx[s] = t THEN NoCallback ELSE callback[CallTx[s]]
    BY <1>1, <1>4 DEF PromiseInv, TypeOK
  <2>3. \A s \in Rpc : Place(s)' = IF s \in S THEN "over" ELSE Place(s)
    BY <1>1, <1>2, <2>1, <2>2 DEF Place
  <2>4. S \subseteq Promise!Pooled /\ S \in SUBSET Rpc
    BY PooledMaps
  <2>5. S \subseteq Used
    BY <1>4, OnChainIsCommitted DEF Used, PromiseInv
  <2> HIDE DEF S
  <2>6. Promise!Forget(S)
    BY <1>2, <2>3, <2>4, <2>5, EndMaps, UsedStays
       DEF Promise!Forget, LedgerUnchanged, Used, Overdue
  <2> QED
    BY <2>4, <2>6 DEF Promise!Next
<1> HIDE DEF S
<1>5. CASE OnChain(t)
  BY <1>3, <1>4, <1>5 DEF LookUpNonce
<1>6. CASE ~OnChain(t)
  BY <1>3, <1>6 DEF LookUpNonce
<1> QED
  BY <1>5, <1>6

\* What leaves the table with a cause settles its clients.
LEMMA DropMaps ==
    ASSUME PromiseInv, [Next]_vars, NEW R \in SUBSET Txs, Drop(R), Answer(Clients(R)),
           UNCHANGED <<pc, ledgerVars>>,
           \A t \in R : NonceOf[t] \in NoncesOf(Committed) \/ LimitOf[t] <= height
    PROVE  Promise!Next
<1>1. \A s \in Rpc : CallTx[s] \in Txs /\ s # NoCallback
  BY StorageAssumption DEF Calls, Submits
<1>2. \A s \in Clients(R) : s \in Rpc /\ CallTx[s] \in R /\ callback[CallTx[s]] = s
  BY DEF Clients, PromiseInv, CallbackInv, TypeOK
<1>3. \A s \in Clients(R) : pc[s] = "accepted"
  BY <1>2, PooledWaits DEF PromiseInv
<1>4. \A s \in Rpc : callback[CallTx[s]] = s /\ CallTx[s] \in R => s \in Clients(R)
  BY <1>1 DEF Clients
<1>5. \A s \in Rpc : Place(s)' = IF s \in Clients(R) THEN "over" ELSE Place(s)
  BY <1>1, <1>2, <1>3, <1>4 DEF Drop, Place
<1>6. Clients(R) \in SUBSET Rpc /\ Clients(R) \subseteq Promise!Pooled
  BY <1>2, PooledMaps
<1>7. Clients(R) \subseteq Used \cup Overdue
  BY <1>2 DEF Used, Overdue
<1>8. Promise!Settle(Clients(R))
  BY <1>5, <1>6, <1>7, EndMaps, AnswerMaps, UsedStays
     DEF Promise!Settle, LedgerUnchanged, Used, Overdue
<1> QED
  BY <1>6, <1>8 DEF Promise!Next

LEMMA StepMaps ==
    ASSUME \A s \in Rpc : Alone(s), PromiseInv, [Next]_vars
    PROVE  Promise!Next
<1>0. Step /\ TypeOK
  BY NextIsStep DEF PromiseInv
<1>1. CASE CheckStep
  BY <1>1, CheckMoves, MovesMaps DEF OnlyCall, tableVars
<1>2. CASE \E s \in Submits : ReserveNonce(s)
  BY <1>2, ReserveMoves, MovesMaps
<1>3. CASE \E c \in Calls : Store(c)
  BY <1>3, StoreMaps
<1>4. CASE \E t \in Txs : LookUpNonce(t)
  BY <1>4, LookUpMaps
<1>5. CASE Cleanup
  <2>1. CASE m_invalidTxs = {}
    BY <1>0, <1>5, <2>1, QuietMaps DEF Cleanup, tableVars
  <2>2. CASE m_invalidTxs # {}
    BY <1>5, <2>2, DropMaps DEF Cleanup, PromiseInv, TypeOK, CauseInv
  <2> QED
    BY <2>1, <2>2
<1>6. CASE RemoveBatch
  <2> DEFINE R == chain[height] \cap m_txsTable
  <2>1. R \in SUBSET Txs /\ Drop(R) /\ Answer(Clients(R)) /\ UNCHANGED <<pc, ledgerVars>>
    BY <1>0, <1>6 DEF RemoveBatch, TypeOK
  <2>2. chain[height] \subseteq Committed
    BY <1>6, LatestIsCommitted DEF RemoveBatch, PromiseInv, BlockInv
  <2>3. \A t \in R : NonceOf[t] \in NoncesOf(Committed)
    BY <2>2 DEF NoncesOf
  <2> QED
    BY <2>1, <2>3, DropMaps
<1>7. CASE UNCHANGED <<callback, pc, answers>>
  BY <1>0, <1>7, QuietMaps
<1> QED
  BY <1>0, <1>1, <1>2, <1>3, <1>4, <1>5, <1>6, <1>7, SealIsQuiet
     DEF Step, Commit, AdvanceNumber, RegisterNonces, ForgetNonces, ReleaseNonces, tableVars, vars

LEMMA InitMaps == Init => Promise!Init
<1> SUFFICES ASSUME Init PROVE Promise!Init
  OBVIOUS
<1>1. \A s \in Rpc : s \in Calls /\ CallTx[s] \in Txs /\ s # NoCallback
  BY StorageAssumption DEF Calls, Submits
<1>2. \A s \in Rpc : Place(s) = "call"
  BY <1>1 DEF Init, Place
<1>3. Used = {}
  BY DEF Init, LedgerInit, Used, Committed, TxsOf, NoncesOf
<1>4. Overdue \in SUBSET Rpc
  BY DEF Overdue
<1> QED
  BY <1>2, <1>3, <1>4 DEF Promise!Init, Init, Used, Overdue

(***************************************************************************)
(* The storage keeps the promise to its clients, although calls, results   *)
(* of blocks, the sealer and the removal of invalid transactions race: a   *)
(* submission ends in one answer, given at once or when the transaction    *)
(* has a reason to leave, and a client is forgotten only when the nonce    *)
(* of its transaction is used on the chain.                                *)
(***************************************************************************)
THEOREM KeepsPromiseHolds ==
    ASSUME LimitsInReach, \A s \in Rpc : Alone(s)
    PROVE  Spec => KeepsPromise
<1>1. Spec => []PromiseInv
  BY TypeCorrect, CacheOfChain, AnswersAlways, CauseAlways, PTL DEF PromiseInv
<1>2. PromiseInv /\ [Next]_vars => [Promise!Next]_(Promise!vars)
  BY StepMaps
<1> QED
  BY <1>1, <1>2, InitMaps, PTL DEF Spec, KeepsPromise, Promise!Spec
=============================================================================
