------------------------ MODULE MemoryStorageProofs ------------------------
(***************************************************************************)
(* Proofs about MemoryStorage for every set of transactions and calls,     *)
(* with every interleaving of the threads: types; no client is answered    *)
(* twice; no client is forgotten, and no nonce is reserved for    *)
(* ever, but for transactions whose nonce is used on the chain.            *)
(***************************************************************************)
EXTENDS MemoryStorage, FiniteSetTheorems, TLAPS

\* The steps of submissions and imports that change the call alone.
CheckStep ==
    \/ \E s \in Submits : RefuseOutside(s) \/ CheckSize(s) \/ CheckExist(s)
                          \/ CheckLedgerNonce(s) \/ CheckLimitAndSignature(s)
                          \/ CheckPoolNonce(s)
    \/ \E e \in Enforces : EnforceCheckNonce(e) \/ Lookup(e) \/ MarkForProposal(e)
    \/ \E c \in Calls : CheckAgain(c)

\* The steps of the sealer that take no callback.
QuietSealStep ==
    \/ BeginSeal
    \/ \E t \in Txs : Visit(t)
    \/ \E t \in Txs : TestLimit(t)
    \/ TestFlag
    \/ EndSeal

\* Case split of the next-state relation, for the proofs below.
Step ==
    \/ CheckStep
    \/ \E s \in Submits : ReserveNonce(s)
    \/ \E c \in Calls : Store(c)
    \/ QuietSealStep
    \/ \E t \in Txs : LookUpNonce(t)
    \/ Cleanup
    \/ \E S \in SUBSET Txs : Commit(S)
    \/ RemoveBatch
    \/ AdvanceNumber \/ RegisterNonces \/ ForgetNonces
    \/ ReleaseNonces
    \/ UNCHANGED vars

LEMMA NextIsStep == [Next]_vars => Step
BY Zenon DEF Next, Step, CheckStep, QuietSealStep, SubmitStep, EnforceStep, SealStep, BlockStep, Calls

-----------------------------------------------------------------------------
(***************************************************************************)
(* Types.                                                                  *)
(***************************************************************************)
LEMMA NoncesTyped == \A S \in SUBSET Txs : NoncesOf(S) \subseteq Nonces
BY LedgerAssumption DEF NoncesOf

\* What leaves the table leaves no callback behind.
LEMMA DropTyped ==
    ASSUME TypeOK, NEW R \in SUBSET Txs, Drop(R)
    PROVE  /\ m_txsTable' \subseteq Txs
           /\ callback' \in [Txs -> Rpc \cup {NoCallback}]
           /\ \A t \in Txs \ m_txsTable' : callback'[t] = NoCallback
BY DEF TypeOK, Drop

\* Answering and refusing keep the counts and the phases.
LEMMA AnswerTyped ==
    ASSUME TypeOK, NEW C, Answer(C)
    PROVE  answers' \in [Rpc -> Nat]
BY DEF TypeOK, Answer

\* What a step of the checks does: call c goes on to phase p, or is refused.
\* It waits for the upgrade of its lock only if its transaction is pooled.
Moves(c, p) ==
    /\ pc[c] \in Running \cup {"idle"}
    /\ Goto(c, p)
    /\ p = "upgrading" => CallTx[c] \in m_txsTable
    /\ UNCHANGED answers \/ (p = "refused" /\ Answer({c} \cap Rpc))
    /\ c \in Rpc /\ p \in {"accepted", "refused"} => Answer({c} \cap Rpc)

LEMMA CheckMoves ==
    ASSUME CheckStep
    PROVE  OnlyCall /\ \E c \in Calls, p \in Phases : Moves(c, p)
<1> USE DEF Phases, Running, SubmitPhases, EnforcePhases, InsertPhases
<1>1. ASSUME NEW s \in Calls, pc[s] \in Running \cup {"idle"}, Refuse(s)
      PROVE  \E c \in Calls, p \in Phases : Moves(c, p)
  BY <1>1 DEF Refuse, Moves
<1>2. ASSUME NEW s \in Calls, pc[s] \in Running \cup {"idle"},
             NEW passes, NEW next \in SubmitPhases \cup {"inserting"}, Check(s, passes, next)
      PROVE  \E c \in Calls, p \in Phases : Moves(c, p)
  BY <1>1, <1>2 DEF Check, Moves
<1>3. CASE \E s \in Submits : RefuseOutside(s)
  BY <1>1, <1>3 DEF RefuseOutside, MayBegin, Calls
<1>4. CASE \E s \in Submits : CheckSize(s)
  BY <1>2, <1>4 DEF CheckSize, MayBegin, Calls
<1>5. CASE \E s \in Submits : CheckExist(s)
  BY <1>2, <1>5 DEF CheckExist, Calls
<1>6. CASE \E s \in Submits : CheckLedgerNonce(s)
  BY <1>2, <1>6 DEF CheckLedgerNonce, Calls
<1>7. CASE \E s \in Submits : CheckLimitAndSignature(s)
  BY <1>1, <1>7 DEF CheckLimitAndSignature, Moves, Calls
<1>8. CASE \E s \in Submits : CheckPoolNonce(s)
  BY <1>2, <1>8 DEF CheckPoolNonce, Calls
<1>9. CASE \E e \in Enforces : EnforceCheckNonce(e)
  BY <1>9, StorageAssumption DEF EnforceCheckNonce, MayBegin, Moves, Calls, Submits
<1>10. CASE \E e \in Enforces : Lookup(e)
  BY <1>10, StorageAssumption DEF Lookup, Moves, Calls, Submits
<1>11. CASE \E c \in Calls : CheckAgain(c)
  BY <1>1, <1>11, StorageAssumption DEF CheckAgain, Moves, Submits
<1>12. CASE \E e \in Enforces : MarkForProposal(e)
  BY <1>12, StorageAssumption DEF MarkForProposal, Moves, Calls, Submits
<1> QED
  BY <1>3, <1>4, <1>5, <1>6, <1>7, <1>8, <1>9, <1>10, <1>11, <1>12 DEF CheckStep

\* Reserving a nonce moves the call on and changes no callback.
LEMMA ReserveMoves ==
    ASSUME \E s \in Submits : ReserveNonce(s)
    PROVE  UNCHANGED <<callback, ledgerVars>> /\ \E c \in Calls, p \in Phases : Moves(c, p)
BY StorageAssumption
   DEF ReserveNonce, Moves, tableVars, Calls, Submits, Phases, Running, SubmitPhases, InsertPhases

\* What the sealer leaves alone.
LEMMA SealIsQuiet ==
    ASSUME QuietSealStep
    PROVE  UNCHANGED <<ledgerVars, checkerVars, tableVars, m_txsTable, callback, m_poolNonces, pc,
                       answers, blockStage>>
BY DEF QuietSealStep, BeginSeal, Visit, TestLimit, TestFlag, EndSeal, OnlySealer, tableVars

LEMMA LookUpIsQuiet ==
    ASSUME \E t \in Txs : LookUpNonce(t)
    PROVE  UNCHANGED <<ledgerVars, checkerVars, m_txsTable, m_poolNonces, m_invalidNonces, pc,
                       answers, blockStage>>
BY DEF LookUpNonce

LEMMA CheckEffect ==
    ASSUME TypeOK, CheckStep
    PROVE  /\ OnlyCall /\ pc' \in [Calls -> Phases] /\ answers' \in [Rpc -> Nat]
           /\ \A e \in Enforces : pc'[e] = "upgrading" => CallTx[e] \in m_txsTable
<1>1. OnlyCall
  BY CheckMoves
<1>2. PICK c \in Calls, p \in Phases : Moves(c, p)
  BY CheckMoves
<1>3. pc' \in [Calls -> Phases]
  BY <1>2 DEF Moves, Goto, TypeOK
<1>4. answers' \in [Rpc -> Nat]
  BY <1>2, AnswerTyped DEF Moves, TypeOK
<1>5. \A e \in Enforces : pc'[e] = "upgrading" => CallTx[e] \in m_txsTable
  BY <1>2 DEF Moves, Goto, TypeOK, Calls
<1> QED
  BY <1>1, <1>3, <1>4, <1>5

\* The sealer's loop is at no transaction, or at one of the table.
SealerTypeOK ==
    /\ sealer \in [at : SealPhases, tx : Txs \cup {NoTx}, replaced : BOOLEAN, applied : BOOLEAN]
    /\ IF sealer.at \in NotAtTx THEN sealer.tx = NoTx ELSE sealer.tx \in m_txsTable

LEMMA SealerAtTyped ==
    ASSUME NEW p \in NotAtTx, SealerAt(p)
    PROVE  SealerTypeOK'
BY DEF SealerAt, SealerTypeOK, NotAtTx, SealPhases

LEMMA InitTypeOK == Init => TypeOK
<1> SUFFICES ASSUME Init PROVE TypeOK
  OBVIOUS
<1>1. CheckerTypeOK /\ height \in 0 .. MaxBlock /\ chain \in [Blocks -> SUBSET Txs]
  BY LedgerAssumption DEF Init, LedgerInit, CheckerInit, CheckerTypeOK, Blocks
<1>2. SealerTypeOK
  BY DEF Init, SealerTypeOK, NotAtTx, SealPhases
<1> QED
  BY <1>1, <1>2 DEF Init, TypeOK, SealerTypeOK, Phases, BlockStages, Calls

\* A result that is being applied is that of a block.
BlockInv == blockStage # "done" => height \in Blocks

\* The steps of the sealer.
LEMMA SealTypeOK ==
    ASSUME TypeOK, QuietSealStep \/ \E t \in Txs : LookUpNonce(t)
    PROVE  TypeOK'
<1>1. /\ UNCHANGED <<ledgerVars, checkerVars, m_txsTable, m_poolNonces, pc, answers, blockStage>>
      /\ cleanupQueued' \in BOOLEAN
  BY DEF QuietSealStep, BeginSeal, Visit, TestLimit, TestFlag, EndSeal, LookUpNonce, OnlySealer,
     tableVars, TypeOK
<1>2. m_invalidTxs' \subseteq Txs /\ m_invalidNonces' \subseteq Nonces
  <2>1. CASE \E t \in Txs : TestLimit(t)
    <3> PICK t \in Txs : TestLimit(t)
      BY <2>1
    <3>1. m_invalidTxs' \subseteq m_invalidTxs \cup {t}
      BY DEF TestLimit
    <3>2. m_invalidNonces' \subseteq m_invalidNonces \cup {NonceOf[t]}
      BY DEF TestLimit, NoncesToRelease
    <3>3. NonceOf[t] \in Nonces
      BY LedgerAssumption
    <3> QED
      BY <3>1, <3>2, <3>3 DEF TypeOK
  <2>2. CASE \E t \in Txs : LookUpNonce(t)
    <3> PICK t \in Txs : LookUpNonce(t)
      BY <2>2
    <3>1. m_invalidTxs' \subseteq m_invalidTxs \cup {t} /\ UNCHANGED m_invalidNonces
      BY DEF LookUpNonce
    <3> QED
      BY <3>1 DEF TypeOK
  <2>3. CASE UNCHANGED <<m_invalidTxs, m_invalidNonces>>
    BY <2>3 DEF TypeOK
  <2> QED
    BY <2>1, <2>2, <2>3 DEF QuietSealStep, BeginSeal, Visit, TestFlag, EndSeal, OnlySealer
<1>3. callback' \in [Txs -> Rpc \cup {NoCallback}] /\ \A t \in Txs \ m_txsTable : callback'[t] = NoCallback
  BY DEF QuietSealStep, BeginSeal, Visit, TestLimit, TestFlag, EndSeal, LookUpNonce, OnlySealer,
     tableVars, TypeOK
<1>4. SealerTypeOK'
  <2>1. CASE SealerAt("idle") \/ SealerAt("between")
    BY <2>1, SealerAtTyped DEF NotAtTx
  <2>2. CASE \E t \in Txs : Visit(t)
    BY <1>1, <2>2 DEF Visit, TypeOK, SealerTypeOK, NotAtTx, SealPhases
  <2>3. ASSUME NEW t \in Txs, sealer.tx = t, sealer.at \notin NotAtTx,
               NEW p \in SealPhases \ NotAtTx, NEW f \in BOOLEAN,
               sealer' = [sealer EXCEPT !.at = p, !.applied = f]
        PROVE  SealerTypeOK'
    BY <1>1, <2>3 DEF TypeOK, SealerTypeOK
  <2>4. CASE \E t \in Txs : LookUpNonce(t)
    <3> PICK t \in Txs : LookUpNonce(t)
      BY <2>4
    <3>1. sealer.tx = t /\ sealer.at \notin NotAtTx /\ "limit" \in SealPhases \ NotAtTx
      BY DEF LookUpNonce, NotAtTx, SealPhases
    <3>2. (t \in AppliedTxs) \in BOOLEAN
      OBVIOUS
    <3>3. CASE sealer' = [sealer EXCEPT !.at = "limit", !.applied = t \in AppliedTxs]
      BY <2>3, <3>1, <3>2, <3>3
    <3> QED
      BY <2>1, <3>3 DEF LookUpNonce
  <2>5. CASE \E t \in Txs : TestLimit(t)
    <3> PICK t \in Txs : TestLimit(t)
      BY <2>5
    <3>1. sealer.tx = t /\ sealer.at \notin NotAtTx /\ "flag" \in SealPhases \ NotAtTx
      BY DEF TestLimit, NotAtTx, SealPhases
    <3>2. CASE sealer' = [sealer EXCEPT !.at = "flag"]
      BY <1>1, <3>1, <3>2 DEF TypeOK, SealerTypeOK
    <3> QED
      BY <2>1, <3>2 DEF TestLimit
  <2> QED
    BY <2>1, <2>2, <2>4, <2>5 DEF QuietSealStep, BeginSeal, TestFlag, EndSeal
<1> QED
  BY <1>1, <1>2, <1>3, <1>4 DEF TypeOK, SealerTypeOK, CheckerTypeOK, ledgerVars, checkerVars

\* Whoever writes the table finds neither the sealer nor an import at a
\* transaction of it.
LEMMA WriteTyped ==
    ASSUME TypeOK, CanWriteTable, UNCHANGED <<pc, sealer>>
    PROVE  SealerTypeOK' /\ \A e \in Enforces : pc'[e] # "upgrading"
BY DEF TypeOK, SealerTypeOK, CanWriteTable, InPhase, Calls, NotAtTx

\* Every step keeps every variable in its range.
LEMMA StepTypeOK == TypeOK /\ BlockInv /\ [Next]_vars => TypeOK'
<1> SUFFICES ASSUME TypeOK, BlockInv, Step PROVE TypeOK'
  BY NextIsStep
<1> USE LedgerAssumption
<1>0. \A c \in Calls : CallTx[c] \in Txs
  BY StorageAssumption
<1>1. CASE CheckStep
  BY <1>1, CheckEffect
     DEF OnlyCall, TypeOK, CheckerTypeOK, ledgerVars, checkerVars, tableVars, cleanupVars
<1>2. CASE \E s \in Submits : ReserveNonce(s)
  <2> PICK s \in Submits : ReserveNonce(s)
    BY <1>2
  <2>1. pc' \in [Calls -> Phases] /\ \A e \in Enforces : pc'[e] = "upgrading" => pc[e] = "upgrading"
    BY DEF ReserveNonce, Goto, TypeOK, Calls, Phases, Running, InsertPhases
  <2> QED
    BY <1>0, <2>1
       DEF ReserveNonce, TypeOK, CheckerTypeOK, ledgerVars, checkerVars, tableVars, cleanupVars, Calls
<1>3. CASE \E c \in Calls : Store(c)
  <2> PICK c \in Calls : Store(c)
    BY <1>3
  <2>1. CallTx[c] \in Txs
    BY <1>0
  <2>2. /\ m_txsTable' \subseteq Txs /\ m_txsTable \subseteq m_txsTable'
        /\ callback' \in [Txs -> Rpc \cup {NoCallback}]
        /\ \A t \in Txs \ m_txsTable' : callback'[t] = NoCallback
    BY <2>1 DEF Store, StoreObject, TypeOK
  <2>3. sealer' \in [at : SealPhases, tx : Txs \cup {NoTx}, replaced : BOOLEAN, applied : BOOLEAN]
    BY DEF Store, StoreObject, TypeOK
  <2>4. sealer'.at = sealer.at /\ sealer'.tx = sealer.tx
    BY DEF Store, StoreObject, TypeOK
  <2>5. /\ pc' \in [Calls -> Phases]
        /\ \A e \in Enforces : pc'[e] = "upgrading" => pc[e] = "upgrading"
    BY DEF Store, Goto, TypeOK, Calls, Phases
  <2> QED
    BY <2>2, <2>3, <2>4, <2>5
       DEF Store, TypeOK, CheckerTypeOK, ledgerVars, checkerVars, cleanupVars
<1>4. CASE QuietSealStep \/ \E t \in Txs : LookUpNonce(t)
  BY <1>4, SealTypeOK
<1>5. CASE Cleanup
  <2>1. CASE UNCHANGED <<tableVars, m_poolNonces, m_invalidTxs, m_invalidNonces, answers>>
    BY <1>5, <2>1 DEF Cleanup, TypeOK, CheckerTypeOK, tableVars, ledgerVars, checkerVars
  <2>2. CASE m_invalidTxs # {}
    <3> DEFINE R == m_invalidTxs \cap m_txsTable
    <3>1. /\ CanWriteTable /\ Drop(R) /\ Answer(Clients(R))
          /\ m_poolNonces' = m_poolNonces \ m_invalidNonces
          /\ m_invalidTxs' = {} /\ m_invalidNonces' = {} /\ cleanupQueued' = FALSE
          /\ UNCHANGED <<pc, sealer>>
      BY <1>5, <2>2 DEF Cleanup
    <3>2. R \in SUBSET Txs
      BY DEF TypeOK
    <3>3. answers' \in [Rpc -> Nat]
      BY <3>1, AnswerTyped
    <3>4. SealerTypeOK' /\ \A e \in Enforces : pc'[e] # "upgrading"
      BY <3>1, WriteTyped
    <3> HIDE DEF R
    <3> QED
      BY <1>5, <3>1, <3>2, <3>3, <3>4, DropTyped
         DEF Cleanup, TypeOK, SealerTypeOK, CheckerTypeOK, ledgerVars, checkerVars
  <2> QED
    BY <1>5, <2>1, <2>2 DEF Cleanup
<1>6. CASE \E S \in SUBSET Txs : Commit(S)
  <2> PICK S \in SUBSET Txs : Commit(S)
    BY <1>6
  <2>1. height' \in 0 .. MaxBlock /\ chain' \in [Blocks -> SUBSET Txs]
    BY DEF Commit, CommitBlock, TypeOK, Blocks
  <2> QED
    BY <2>1 DEF Commit, TypeOK, CheckerTypeOK, checkerVars, tableVars, cleanupVars, BlockStages
<1>7. CASE RemoveBatch
  <2> DEFINE R == chain[height] \cap m_txsTable
  <2>1. R \in SUBSET Txs
    BY DEF TypeOK
  <2>2. answers' \in [Rpc -> Nat]
    BY <1>7, AnswerTyped DEF RemoveBatch
  <2>3. Drop(R) /\ CanWriteTable /\ UNCHANGED <<pc, sealer>>
    BY <1>7 DEF RemoveBatch
  <2>4. SealerTypeOK' /\ \A e \in Enforces : pc'[e] # "upgrading"
    BY <2>3, WriteTyped
  <2> HIDE DEF R
  <2> QED
    BY <1>7, <2>1, <2>2, <2>3, <2>4, DropTyped
       DEF RemoveBatch, TypeOK, SealerTypeOK, CheckerTypeOK, ledgerVars, checkerVars, cleanupVars,
           BlockStages
<1>8. CASE AdvanceNumber \/ RegisterNonces \/ ForgetNonces
  <2>1. NoncesOf(chain[height]) \subseteq Nonces \/ height \notin Blocks
    BY NoncesTyped DEF TypeOK
  <2>2. CASE AdvanceNumber
    BY <2>2 DEF AdvanceNumber, StoreBlockNumber, TypeOK, CheckerTypeOK, ledgerVars, tableVars,
       cleanupVars, BlockStages
  <2>3. CASE RegisterNonces
    BY <2>3, <2>1 DEF RegisterNonces, InsertNonces, TypeOK, CheckerTypeOK, ledgerVars, tableVars,
       cleanupVars, BlockStages, BlockInv
  <2>4. CASE ForgetNonces
    <3>1. CheckerTypeOK'
      BY <2>4, <2>1 DEF ForgetNonces, RotateNonceCache, TypeOK, CheckerTypeOK, Expired, BlockInv
    <3> QED
      BY <2>4, <3>1 DEF ForgetNonces, TypeOK, ledgerVars, tableVars, cleanupVars, BlockStages
  <2> QED
    BY <1>8, <2>2, <2>3, <2>4
<1>9. CASE ReleaseNonces
  BY <1>9 DEF ReleaseNonces, TypeOK, CheckerTypeOK, ledgerVars, checkerVars, tableVars,
     cleanupVars, BlockStages
<1>10. CASE UNCHANGED vars
  BY <1>10 DEF vars, TypeOK, CheckerTypeOK, ledgerVars, checkerVars, tableVars, cleanupVars
<1> QED
  BY <1>1, <1>2, <1>3, <1>4, <1>5, <1>6, <1>7, <1>8, <1>9, <1>10 DEF Step

LEMMA StepBlockInv == TypeOK /\ BlockInv /\ [Next]_vars => BlockInv'
<1> SUFFICES ASSUME TypeOK, BlockInv, Step PROVE BlockInv'
  BY NextIsStep
<1>1. CASE \E S \in SUBSET Txs : Commit(S)
  BY <1>1, LedgerAssumption DEF Commit, CommitBlock, BlockInv, TypeOK, Blocks
<1>2. CASE UNCHANGED <<height, blockStage>>
  BY <1>2 DEF BlockInv
<1>3. CASE RemoveBatch \/ AdvanceNumber \/ RegisterNonces \/ ForgetNonces \/ ReleaseNonces
  BY <1>3 DEF RemoveBatch, AdvanceNumber, RegisterNonces, ForgetNonces, ReleaseNonces, BlockInv,
     ledgerVars
<1>4. CASE CheckStep
  BY <1>2, <1>4, CheckMoves DEF OnlyCall, ledgerVars
<1> QED
  BY <1>1, <1>2, <1>3, <1>4
     DEF Step, ReserveNonce, Store, QuietSealStep, BeginSeal, Visit, TestLimit, TestFlag, EndSeal,
         OnlySealer, LookUpNonce, Cleanup, vars, ledgerVars

(***************************************************************************)
(* Type correctness: whatever the interleaving, callbacks belong to pooled *)
(* transactions, and who holds the table's lock, the sealer in its loop or *)
(* an import that upgrades it, finds its transaction in the table.         *)
(***************************************************************************)
THEOREM TypeCorrect == Spec => [](TypeOK /\ BlockInv)
<1>1. Init => TypeOK /\ BlockInv
  BY InitTypeOK DEF Init, BlockInv
<1>2. TypeOK /\ BlockInv /\ [Next]_vars => (TypeOK /\ BlockInv)'
  BY StepTypeOK, StepBlockInv
<1> QED
  BY <1>1, <1>2, PTL DEF Spec

-----------------------------------------------------------------------------
(***************************************************************************)
(* Answers.  The inductive invariant: a callback is held by one pooled      *)
(* transaction, the one of the accepted call that brought it, and only      *)
(* until the client is answered; a call under way has not been answered.   *)
(***************************************************************************)
CallbackInv ==
    \A t \in Txs : callback[t] # NoCallback =>
        /\ CallTx[callback[t]] = t
        /\ pc[callback[t]] = "accepted"
        /\ answers[callback[t]] = 0

PendingInv == \A s \in Rpc : pc[s] \in Running \cup {"idle"} => answers[s] = 0

AnswerInv == TypeOK /\ CallbackInv /\ PendingInv /\ OneAnswer

\* A call that moves on by itself.
LEMMA MovesAnswer ==
    ASSUME AnswerInv, NEW c \in Calls, NEW p \in Phases, Moves(c, p), UNCHANGED callback
    PROVE  CallbackInv' /\ PendingInv' /\ OneAnswer'
<1>1. pc \in [Calls -> Phases] /\ answers \in [Rpc -> Nat] /\ Rpc \subseteq Calls
  BY DEF AnswerInv, TypeOK, Calls, Submits
<1>2. pc[c] # "accepted" /\ pc[c] # "refused"
  BY DEF Moves, Running, SubmitPhases, EnforcePhases, InsertPhases
<1>3. \A t \in Txs : callback[t] # NoCallback => callback[t] \in Rpc /\ callback[t] # c
  BY <1>2 DEF AnswerInv, CallbackInv, TypeOK
<1>4. \A s \in Rpc \ {c} : pc'[s] = pc[s] /\ answers'[s] = answers[s]
  BY <1>1 DEF Moves, Goto, Answer
<1>5. CallbackInv'
  BY <1>1, <1>3, <1>4 DEF CallbackInv, AnswerInv
<1>6. c \in Rpc => answers[c] = 0
  BY DEF Moves, AnswerInv, PendingInv
<1>7. CASE UNCHANGED answers
  BY <1>1, <1>4, <1>5, <1>6, <1>7 DEF PendingInv, OneAnswer, AnswerInv
<1>8. CASE p = "refused" /\ Answer({c} \cap Rpc)
  <2>1. c \in Rpc => answers'[c] <= 1 /\ pc'[c] = "refused"
    BY <1>1, <1>6, <1>8 DEF Moves, Goto, Answer
  <2> QED
    BY <1>1, <1>4, <1>5, <2>1
       DEF PendingInv, OneAnswer, AnswerInv, Running, SubmitPhases, EnforcePhases, InsertPhases
<1> QED
  BY <1>7, <1>8 DEF Moves

\* Callbacks are only taken away, nobody is answered.
LEMMA QuietAnswer ==
    ASSUME AnswerInv, UNCHANGED <<pc, answers>>,
           \A t \in Txs : callback'[t] \in {callback[t], NoCallback}
    PROVE  CallbackInv' /\ PendingInv' /\ OneAnswer'
BY DEF AnswerInv, CallbackInv, PendingInv, OneAnswer

\* What leaves the table answers the clients whose callbacks it carries.
LEMMA DropAnswer ==
    ASSUME AnswerInv, NEW R \in SUBSET Txs, Drop(R), Answer(Clients(R)), UNCHANGED pc
    PROVE  CallbackInv' /\ PendingInv' /\ OneAnswer'
<1>1. answers \in [Rpc -> Nat] /\ callback \in [Txs -> Rpc \cup {NoCallback}]
  BY DEF AnswerInv, TypeOK
<1>2. \A t \in Txs : callback'[t] = IF t \in R THEN NoCallback ELSE callback[t]
  BY DEF Drop
<1>3. \A s \in Rpc : answers'[s] = IF s \in Clients(R) THEN answers[s] + 1 ELSE answers[s]
  BY DEF Answer
<1>4. \A s \in Clients(R) : s \in Rpc /\ pc[s] = "accepted" /\ answers[s] = 0 /\ CallTx[s] \in R
  BY <1>1 DEF Clients, AnswerInv, CallbackInv
<1>5. CallbackInv'
  <2> SUFFICES ASSUME NEW t \in Txs, callback'[t] # NoCallback
               PROVE  /\ CallTx[callback'[t]] = t
                      /\ pc'[callback'[t]] = "accepted"
                      /\ answers'[callback'[t]] = 0
    BY DEF CallbackInv
  <2>1. t \notin R /\ callback'[t] = callback[t] /\ callback[t] \in Rpc
    BY <1>1, <1>2
  <2>2. CallTx[callback[t]] = t /\ pc[callback[t]] = "accepted" /\ answers[callback[t]] = 0
    BY <2>1 DEF AnswerInv, CallbackInv
  <2>3. callback[t] \notin Clients(R)
    BY <1>4, <2>1, <2>2
  <2> QED
    BY <1>3, <2>1, <2>2, <2>3
<1>6. PendingInv'
  BY <1>3, <1>4 DEF PendingInv, AnswerInv, Running, SubmitPhases, EnforcePhases, InsertPhases
<1>7. OneAnswer'
  BY <1>1, <1>3, <1>4 DEF OneAnswer, AnswerInv
<1> QED
  BY <1>5, <1>6, <1>7

\* The object of call c enters the table with the callback of c.
LEMMA StoreAnswer ==
    ASSUME AnswerInv, NEW c \in Calls, Store(c)
    PROVE  CallbackInv' /\ PendingInv' /\ OneAnswer'
<1>1. pc \in [Calls -> Phases] /\ Rpc \subseteq Calls
      /\ callback \in [Txs -> Rpc \cup {NoCallback}] /\ CallTx[c] \in Txs
  BY StorageAssumption DEF AnswerInv, TypeOK, Calls, Submits
<1>2. pc[c] = "storing" /\ answers' = answers /\ pc' = [pc EXCEPT ![c] = "accepted"]
  BY DEF Store, Goto
<1>3. \A t \in Txs : callback'[t] = IF t = CallTx[c] THEN IF c \in Rpc THEN c ELSE NoCallback
                                                    ELSE callback[t]
  BY <1>1 DEF Store, StoreObject
<1>4. c \in Rpc => answers[c] = 0
  BY <1>2 DEF AnswerInv, PendingInv, Running, InsertPhases
<1>5. CallbackInv'
  BY <1>1, <1>2, <1>3, <1>4 DEF CallbackInv, AnswerInv
<1>6. PendingInv' /\ OneAnswer'
  BY <1>1, <1>2 DEF PendingInv, OneAnswer, AnswerInv, Running, SubmitPhases, EnforcePhases,
     InsertPhases
<1> QED
  BY <1>5, <1>6

LEMMA StepAnswer == AnswerInv /\ [Next]_vars => CallbackInv' /\ PendingInv' /\ OneAnswer'
<1> SUFFICES ASSUME AnswerInv, Step PROVE CallbackInv' /\ PendingInv' /\ OneAnswer'
  BY NextIsStep
<1>1. CASE CheckStep
  BY <1>1, CheckMoves, MovesAnswer DEF OnlyCall, tableVars
<1>2. CASE \E s \in Submits : ReserveNonce(s)
  BY <1>2, ReserveMoves, MovesAnswer
<1>3. CASE \E c \in Calls : Store(c)
  BY <1>3, StoreAnswer
<1>4. CASE \E t \in Txs : LookUpNonce(t)
  BY <1>4, QuietAnswer DEF LookUpNonce, AnswerInv, TypeOK
<1>5. CASE Cleanup
  <2>1. CASE m_invalidTxs = {}
    BY <1>5, <2>1, QuietAnswer DEF Cleanup, tableVars
  <2>2. CASE m_invalidTxs # {}
    BY <1>5, <2>2, DropAnswer DEF Cleanup, AnswerInv, TypeOK
  <2> QED
    BY <2>1, <2>2
<1>6. CASE RemoveBatch
  BY <1>6, DropAnswer DEF RemoveBatch, AnswerInv, TypeOK
<1>7. CASE UNCHANGED <<callback, pc, answers>>
  BY <1>7, QuietAnswer
<1> QED
  BY <1>1, <1>2, <1>3, <1>4, <1>5, <1>6, <1>7, SealIsQuiet
     DEF Step, Commit, AdvanceNumber, RegisterNonces, ForgetNonces, ReleaseNonces, tableVars, vars

LEMMA AnswersAlways == Spec => [](CallbackInv /\ PendingInv /\ OneAnswer)
<1>1. Init => CallbackInv /\ PendingInv /\ OneAnswer
  BY DEF Init, CallbackInv, PendingInv, OneAnswer
<1>2. TypeOK /\ CallbackInv /\ PendingInv /\ OneAnswer /\ [Next]_vars
        => (CallbackInv /\ PendingInv /\ OneAnswer)'
  BY StepAnswer DEF AnswerInv
<1> QED
  BY <1>1, <1>2, TypeCorrect, PTL DEF Spec

(***************************************************************************)
(* No client is answered twice, although a refusal, the result of a block  *)
(* and the removal of invalid transactions may race: each answers only     *)
(* whoever's callback it takes out of the table.                           *)
(***************************************************************************)
THEOREM OneAnswerHolds == Spec => []OneAnswer
BY AnswersAlways, PTL

-----------------------------------------------------------------------------
(***************************************************************************)
(* What the pool knows of the chain.  The checker remembers nonces of the   *)
(* chain only, and a transaction that waits to be dropped has its nonce    *)
(* queued to be released, unless that nonce is on the chain.               *)
(***************************************************************************)
CacheInv == m_nonceCache \subseteq NoncesOf(Committed)

InvalidInv == \A t \in m_invalidTxs : NonceOf[t] \in m_invalidNonces \cup NoncesOf(Committed)

ChainInv == TypeOK /\ BlockInv /\ CacheInv /\ InvalidInv

LEMMA NoncesOfMonotone == \A S, T : S \subseteq T => NoncesOf(S) \subseteq NoncesOf(T)
BY DEF NoncesOf

LEMMA UnchangedCommitted == UNCHANGED ledgerVars => Committed' = Committed
BY DEF ledgerVars, Committed, TxsOf

\* The chain only grows.
LEMMA CommittedGrows == TypeOK /\ [Next]_vars => Committed \subseteq Committed'
<1> SUFFICES ASSUME TypeOK, Step PROVE Committed \subseteq Committed'
  BY NextIsStep
<1>1. CASE \E S \in SUBSET Txs : Commit(S)
  <2>1. height \in Nat /\ height' = height + 1 /\ height < MaxBlock /\ MaxBlock \in Nat
    BY <1>1, LedgerAssumption DEF Commit, CommitBlock, TypeOK
  <2>2. \A b \in 1 .. height : b \in 1 .. height' /\ chain'[b] = chain[b]
    BY <1>1, <2>1 DEF Commit, CommitBlock, TypeOK, Blocks
  <2> QED
    BY <2>2 DEF Committed, TxsOf
<1>2. CASE UNCHANGED ledgerVars
  BY <1>2, UnchangedCommitted
<1> QED
  BY <1>1, <1>2, CheckMoves, SealIsQuiet, LookUpIsQuiet
     DEF Step, OnlyCall, ReserveNonce, Store, Cleanup, RemoveBatch, AdvanceNumber, RegisterNonces,
         ForgetNonces, ReleaseNonces, vars

LEMMA LatestIsCommitted ==
    ASSUME TypeOK, height \in Blocks
    PROVE  chain[height] \subseteq Committed
BY LedgerAssumption DEF TypeOK, Blocks, Committed, TxsOf

\* What the sealer finds to be on the chain is.
LEMMA OnChainIsCommitted ==
    ASSUME CacheInv, NEW t, OnChain(t)
    PROVE  NonceOf[t] \in NoncesOf(Committed)
BY DEF CacheInv, OnChain, NonceFree

LEMMA StepChainInv == ChainInv /\ [Next]_vars => CacheInv' /\ InvalidInv'
<1> SUFFICES ASSUME ChainInv, [Next]_vars PROVE CacheInv' /\ InvalidInv'
  OBVIOUS
<1>0. Step
  BY NextIsStep
<1>1. NoncesOf(Committed) \subseteq NoncesOf(Committed')
  BY CommittedGrows, NoncesOfMonotone DEF ChainInv
<1>2. NoncesOf(Committed)' = NoncesOf(Committed')
  BY DEF NoncesOf
<1>3. CASE UNCHANGED <<m_nonceCache, m_invalidTxs, m_invalidNonces>>
  BY <1>1, <1>2, <1>3 DEF ChainInv, CacheInv, InvalidInv
<1>4. CASE RegisterNonces
  <2>1. NoncesOf(chain[height]) \subseteq NoncesOf(Committed)
    BY <1>4, LatestIsCommitted, NoncesOfMonotone DEF RegisterNonces, ChainInv, BlockInv
  <2> QED
    BY <1>1, <1>2, <1>4, <2>1
       DEF RegisterNonces, InsertNonces, cleanupVars, ChainInv, CacheInv, InvalidInv
<1>5. CASE ForgetNonces
  BY <1>1, <1>2, <1>5
     DEF ForgetNonces, RotateNonceCache, cleanupVars, ChainInv, CacheInv, InvalidInv
<1>6. CASE QuietSealStep
  <2>1. UNCHANGED m_nonceCache
    BY <1>6, SealIsQuiet DEF checkerVars
  <2>2. \/ UNCHANGED <<m_invalidTxs, m_invalidNonces>>
        \/ \E t \in Txs : /\ m_invalidTxs' = m_invalidTxs \cup {t}
                          /\ m_invalidNonces' = m_invalidNonces \cup {NonceOf[t]}
    BY <1>6
       DEF QuietSealStep, BeginSeal, Visit, TestLimit, TestFlag, EndSeal, OnlySealer, NoncesToRelease
  <2> QED
    BY <1>1, <1>2, <2>1, <2>2 DEF ChainInv, CacheInv, InvalidInv
<1>8. CASE \E t \in Txs : LookUpNonce(t)
  <2> PICK t \in Txs : LookUpNonce(t)
    BY <1>8
  <2>1. UNCHANGED <<m_nonceCache, m_invalidNonces>>
    BY DEF LookUpNonce, checkerVars
  <2>2. \/ m_invalidTxs' = m_invalidTxs
        \/ OnChain(t) /\ m_invalidTxs' = m_invalidTxs \cup {t}
    <3>1. CASE OnChain(t)
      BY <3>1 DEF LookUpNonce
    <3>2. CASE ~OnChain(t)
      BY <3>2 DEF LookUpNonce
    <3> QED
      BY <3>1, <3>2
  <2>3. OnChain(t) => NonceOf[t] \in NoncesOf(Committed)
    BY OnChainIsCommitted DEF ChainInv
  <2> QED
    BY <1>1, <1>2, <2>1, <2>2, <2>3 DEF ChainInv, CacheInv, InvalidInv
<1>7. CASE Cleanup
  BY <1>1, <1>2, <1>7 DEF Cleanup, checkerVars, ChainInv, CacheInv, InvalidInv
<1> QED
  BY <1>0, <1>3, <1>4, <1>5, <1>6, <1>7, <1>8, CheckMoves
     DEF Step, OnlyCall, ReserveNonce, Store, Commit, RemoveBatch, AdvanceNumber, ReleaseNonces,
         vars, checkerVars, cleanupVars

LEMMA InitChainInv == Init => CacheInv /\ InvalidInv
BY DEF Init, CheckerInit, CacheInv, InvalidInv

(***************************************************************************)
(* The sealer's check never drops a transaction for its nonce, nor takes   *)
(* its client's callback, unless the nonce is on the chain.                *)
(***************************************************************************)
THEOREM CacheOfChain == Spec => [](CacheInv /\ InvalidInv)
<1>1. TypeOK /\ BlockInv /\ CacheInv /\ InvalidInv /\ [Next]_vars => (CacheInv /\ InvalidInv)'
  BY StepChainInv DEF ChainInv
<1> QED
  BY <1>1, InitChainInv, TypeCorrect, PTL DEF Spec

-----------------------------------------------------------------------------
(***************************************************************************)
(* Reserved nonces.                                                        *)
(***************************************************************************)
\* Nothing is reserved, and no reason is lost.
LEMMA ReasonsStay ==
    ASSUME NonceNotLeaked, m_poolNonces' \subseteq m_poolNonces,
           m_txsTable \subseteq m_txsTable', Committed \subseteq Committed',
           \A c \in InPhase(InsertPhases) : c \in InPhase(InsertPhases)'
                                         \/ CallTx[c] \in m_txsTable'
    PROVE  NonceNotLeaked'
<1>1. \A c \in Calls : CallTx[c] \in m_txsTable' => NonceOf[CallTx[c]] \in NoncesOf(m_txsTable')
  BY DEF NoncesOf
<1>2. /\ NoncesOf(m_txsTable) \subseteq NoncesOf(m_txsTable')
      /\ NoncesOf(Committed) \subseteq NoncesOf(Committed')
  BY NoncesOfMonotone
<1>3. NoncesOf(m_txsTable)' = NoncesOf(m_txsTable') /\ NoncesOf(Committed)' = NoncesOf(Committed')
  BY DEF NoncesOf
<1>4. InPhase(InsertPhases) \subseteq Calls
  BY DEF InPhase
<1> QED
  BY <1>1, <1>2, <1>3, <1>4 DEF NonceNotLeaked

\* Every step keeps a reason for every reserved nonce.
LEMMA StepNonceNotLeaked ==
    ChainInv /\ NonceNotLeaked /\ [Next]_vars => NonceNotLeaked'
<1> SUFFICES ASSUME ChainInv, NonceNotLeaked, [Next]_vars PROVE NonceNotLeaked'
  OBVIOUS
<1>0. Step /\ Committed \subseteq Committed'
  BY NextIsStep, CommittedGrows DEF ChainInv
<1>1. pc \in [Calls -> Phases]
  BY DEF ChainInv, TypeOK
<1>2. CASE UNCHANGED <<m_poolNonces, m_txsTable, pc>>
  BY <1>0, <1>2, ReasonsStay DEF InPhase
<1>3. CASE CheckStep
  <2>1. UNCHANGED <<m_poolNonces, m_txsTable>>
    BY <1>3, CheckMoves DEF OnlyCall, tableVars
  <2>2. \A c \in InPhase(InsertPhases) : c \in InPhase(InsertPhases)' \/ CallTx[c] \in m_txsTable
    BY <1>1, <1>3
       DEF CheckStep, RefuseOutside, CheckSize, CheckExist, CheckLedgerNonce,
           CheckLimitAndSignature, CheckPoolNonce, EnforceCheckNonce, Lookup, MarkForProposal,
           CheckAgain, Check, Refuse, Goto, MayBegin, InPhase, InsertPhases
  <2> QED
    BY <1>0, <2>1, <2>2, ReasonsStay
<1>4. CASE \E s \in Submits : ReserveNonce(s)
  <2> PICK s \in Submits : ReserveNonce(s)
    BY <1>4
  <2>1. s \in InPhase(InsertPhases)' /\ InPhase(InsertPhases) \subseteq InPhase(InsertPhases)'
    BY <1>1 DEF ReserveNonce, Goto, InPhase, InsertPhases, Calls
  <2>2. m_poolNonces' = m_poolNonces \cup {NonceOf[CallTx[s]]}
    BY DEF ReserveNonce
  <2>3. UNCHANGED <<m_txsTable, ledgerVars>>
    BY DEF ReserveNonce, tableVars
  <2>4. NoncesOf(m_txsTable)' = NoncesOf(m_txsTable) /\ NoncesOf(Committed)' = NoncesOf(Committed)
    BY <2>3, UnchangedCommitted DEF NoncesOf
  <2> QED
    BY <2>1, <2>2, <2>4 DEF NonceNotLeaked
<1>5. CASE \E c \in Calls : Store(c)
  <2>1. m_poolNonces' = m_poolNonces /\ m_txsTable \subseteq m_txsTable'
    BY <1>5 DEF Store, StoreObject
  <2>2. \A c \in InPhase(InsertPhases) : c \in InPhase(InsertPhases)' \/ CallTx[c] \in m_txsTable'
    BY <1>1, <1>5 DEF Store, StoreObject, Goto, InPhase
  <2> QED
    BY <1>0, <2>1, <2>2, ReasonsStay
<1>6. CASE QuietSealStep \/ \E t \in Txs : LookUpNonce(t)
  BY <1>2, <1>6, SealIsQuiet, LookUpIsQuiet
<1>7. CASE Cleanup
  <2>1. CASE m_invalidTxs = {}
    BY <1>2, <1>7, <2>1 DEF Cleanup, tableVars
  <2>2. CASE m_invalidTxs # {}
    <3>1. /\ m_txsTable' = m_txsTable \ m_invalidTxs
          /\ m_poolNonces' = m_poolNonces \ m_invalidNonces
          /\ UNCHANGED <<pc, ledgerVars>>
      BY <1>7, <2>2 DEF Cleanup, Drop
    <3>2. \A n \in NoncesOf(m_txsTable) :
            n \in NoncesOf(m_txsTable') \cup m_invalidNonces \cup NoncesOf(Committed)
      BY <3>1 DEF NoncesOf, ChainInv, InvalidInv
    <3>3. /\ InPhase(InsertPhases)' = InPhase(InsertPhases)
          /\ NoncesOf(m_txsTable)' = NoncesOf(m_txsTable')
          /\ NoncesOf(Committed)' = NoncesOf(Committed)
      BY <3>1, UnchangedCommitted DEF InPhase, NoncesOf
    <3> QED
      BY <3>1, <3>2, <3>3 DEF NonceNotLeaked
  <2> QED
    BY <2>1, <2>2
<1>8. CASE RemoveBatch
  <2>1. /\ m_txsTable' = m_txsTable \ (chain[height] \cap m_txsTable)
        /\ UNCHANGED <<pc, ledgerVars, m_poolNonces>>
    BY <1>8 DEF RemoveBatch, Drop
  <2>2. chain[height] \subseteq Committed
    BY <1>8, LatestIsCommitted DEF RemoveBatch, ChainInv, BlockInv
  <2>3. \A n \in NoncesOf(m_txsTable) : n \in NoncesOf(m_txsTable') \cup NoncesOf(Committed)
    BY <2>1, <2>2 DEF NoncesOf
  <2>4. /\ InPhase(InsertPhases)' = InPhase(InsertPhases)
        /\ NoncesOf(m_txsTable)' = NoncesOf(m_txsTable')
        /\ NoncesOf(Committed)' = NoncesOf(Committed)
    BY <2>1, UnchangedCommitted DEF InPhase, NoncesOf
  <2> QED
    BY <2>1, <2>3, <2>4 DEF NonceNotLeaked
<1>9. CASE ReleaseNonces
  BY <1>0, <1>9, ReasonsStay DEF ReleaseNonces, tableVars, InPhase
<1> QED
  BY <1>0, <1>2, <1>3, <1>4, <1>5, <1>6, <1>7, <1>8, <1>9
     DEF Step, Commit, AdvanceNumber, RegisterNonces, ForgetNonces, tableVars, vars

(***************************************************************************)
(* A nonce stays reserved only as long as a pooled transaction or a call    *)
(* under way needs it, or because it is on the chain: otherwise no         *)
(* transaction with that nonce could ever enter the pool again.            *)
(***************************************************************************)
THEOREM NonceNotLeakedHolds == Spec => []NonceNotLeaked
<1>1. Init => NonceNotLeaked
  BY DEF Init, NonceNotLeaked
<1>2. (TypeOK /\ BlockInv /\ CacheInv /\ InvalidInv) /\ NonceNotLeaked /\ [Next]_vars => NonceNotLeaked'
  BY StepNonceNotLeaked DEF ChainInv
<1> QED
  BY <1>1, <1>2, TypeCorrect, CacheOfChain, PTL DEF Spec

-----------------------------------------------------------------------------
(***************************************************************************)
(* Forgotten clients.                                                      *)
(***************************************************************************)
Alone(s) == \A c \in Calls \ {s} : CallTx[c] # CallTx[s]

\* NoSilentLoss of one client.
NoLoss(s) ==
    pc[s] \in {"accepted", "refused"} /\ answers[s] = 0
        => callback[CallTx[s]] = s \/ NonceOf[CallTx[s]] \in NoncesOf(Committed)

LEMMA StepNoLoss ==
    ASSUME NEW s \in Rpc, Alone(s), ChainInv, NoLoss(s), [Next]_vars
    PROVE  NoLoss(s)'
<1>0. Step /\ Committed \subseteq Committed'
  BY NextIsStep, CommittedGrows DEF ChainInv
<1>1. NoncesOf(Committed) \subseteq NoncesOf(Committed)'
  BY <1>0, NoncesOfMonotone DEF NoncesOf
<1>2. /\ s \in Calls /\ s \in Submits /\ s \notin Enforces /\ s # NoCallback
      /\ CallTx[s] \in Txs
      /\ pc \in [Calls -> Phases] /\ answers \in [Rpc -> Nat]
      /\ callback \in [Txs -> Rpc \cup {NoCallback}]
  BY StorageAssumption DEF Calls, Submits, ChainInv, TypeOK
<1>3. CASE UNCHANGED <<callback, pc, answers>>
  BY <1>1, <1>3 DEF NoLoss
<1>4. ASSUME NEW c \in Calls, NEW p \in Phases, Moves(c, p), UNCHANGED callback
      PROVE  NoLoss(s)'
  <2>1. CASE c = s
    <3>1. pc'[s] = p /\ (p \in {"accepted", "refused"} => answers'[s] = answers[s] + 1)
      BY <1>2, <1>4, <2>1 DEF Moves, Goto, Answer
    <3> QED
      BY <1>2, <3>1 DEF NoLoss
  <2>2. CASE c # s
    BY <1>1, <1>2, <1>4, <2>2 DEF Moves, Goto, Answer, NoLoss
  <2> QED
    BY <2>1, <2>2
<1>5. ASSUME NEW R \in SUBSET Txs, Drop(R), Answer(Clients(R)), UNCHANGED pc
      PROVE  NoLoss(s)'
  <2>1. /\ callback'[CallTx[s]] = IF CallTx[s] \in R THEN NoCallback ELSE callback[CallTx[s]]
        /\ answers'[s] = IF s \in Clients(R) THEN answers[s] + 1 ELSE answers[s]
    BY <1>2, <1>5 DEF Drop, Answer
  <2>2. callback[CallTx[s]] = s /\ CallTx[s] \in R => s \in Clients(R)
    BY <1>2 DEF Clients
  <2> QED
    BY <1>1, <1>2, <1>5, <2>1, <2>2 DEF NoLoss
<1>6. CASE CheckStep
  BY <1>4, <1>6, CheckMoves DEF OnlyCall, tableVars
<1>7. CASE \E u \in Submits : ReserveNonce(u)
  BY <1>4, <1>7, ReserveMoves
<1>8. CASE \E c \in Calls : Store(c)
  <2> PICK c \in Calls : Store(c)
    BY <1>8
  <2>1. /\ answers' = answers /\ pc' = [pc EXCEPT ![c] = "accepted"]
        /\ callback' = [callback EXCEPT ![CallTx[c]] = IF c \in Rpc THEN c ELSE NoCallback]
    BY DEF Store, StoreObject, Goto
  <2>2. CASE c = s
    BY <1>2, <2>1, <2>2 DEF NoLoss
  <2>3. CASE c # s
    <3>1. CallTx[c] # CallTx[s]
      BY <2>3 DEF Alone
    <3> QED
      BY <1>1, <1>2, <2>1, <2>3, <3>1 DEF NoLoss
  <2> QED
    BY <2>2, <2>3
<1>9. CASE \E t \in Txs : LookUpNonce(t)
  <2> PICK t \in Txs : LookUpNonce(t)
    BY <1>9
  <2>1. UNCHANGED <<pc, answers>>
    BY DEF LookUpNonce
  <2>2. \/ callback' = callback
        \/ OnChain(t) /\ callback' = [callback EXCEPT ![t] = NoCallback]
    <3>1. CASE OnChain(t)
      BY <3>1 DEF LookUpNonce
    <3>2. CASE ~OnChain(t)
      BY <3>2 DEF LookUpNonce
    <3> QED
      BY <3>1, <3>2
  <2>3. OnChain(t) => NonceOf[t] \in NoncesOf(Committed)
    BY OnChainIsCommitted DEF ChainInv
  <2> QED
    BY <1>1, <1>2, <2>1, <2>2, <2>3 DEF NoLoss
<1>10. CASE Cleanup
  <2>1. CASE m_invalidTxs = {}
    BY <1>3, <1>10, <2>1 DEF Cleanup, tableVars
  <2>2. CASE m_invalidTxs # {}
    BY <1>5, <1>10, <2>2 DEF Cleanup, ChainInv, TypeOK
  <2> QED
    BY <2>1, <2>2
<1>11. CASE RemoveBatch
  BY <1>5, <1>11 DEF RemoveBatch, ChainInv, TypeOK
<1> QED
  BY <1>0, <1>3, <1>6, <1>7, <1>8, <1>9, <1>10, <1>11, SealIsQuiet
     DEF Step, Commit, AdvanceNumber, RegisterNonces, ForgetNonces, ReleaseNonces, tableVars, vars

(***************************************************************************)
(* When no transaction is submitted twice, a client whose call is over has *)
(* been answered, or its transaction is pooled with its callback, or the   *)
(* nonce of its transaction was used on the chain.                         *)
(***************************************************************************)
THEOREM NoSilentLossHolds ==
    ASSUME \A s \in Rpc : Alone(s)
    PROVE  Spec => []NoSilentLoss
<1>1. NoSilentLoss <=> \A s \in Rpc : NoLoss(s)
  BY DEF NoSilentLoss, NoLoss
<1>2. Init => NoSilentLoss
  BY DEF Init, NoSilentLoss, Calls, Submits
<1>3. (TypeOK /\ BlockInv /\ CacheInv /\ InvalidInv) /\ NoSilentLoss /\ [Next]_vars => NoSilentLoss'
  <2> SUFFICES ASSUME TypeOK, BlockInv, CacheInv, InvalidInv, NoSilentLoss, [Next]_vars,
                      NEW s \in Rpc
               PROVE  NoLoss(s)'
    BY DEF NoSilentLoss, NoLoss
  <2> QED
    BY <1>1, StepNoLoss DEF ChainInv
<1> QED
  BY <1>2, <1>3, TypeCorrect, CacheOfChain, PTL DEF Spec

=============================================================================
