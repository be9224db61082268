------------------------ MODULE ProposalVerifyProofs ------------------------
(***************************************************************************)
(* Proofs about ProposalVerify, for every set of transactions, proposals   *)
(* that may share transactions, and chain: types; consensus is told once;  *)
(* no transaction with a wrong signature is pooled or verified; and, when  *)
(* no block limit lies beyond the reach of the first block, what consensus *)
(* was told of the pool stays true, verified blocks can be filled, and     *)
(* every step is one that ProposalPromise allows.                          *)
(***************************************************************************)
EXTENDS ProposalVerify, TLAPS

ReqType == [phase : ReqPhases, source : {"ledger", "peer"}, missed : SUBSET Txs,
            rest : SUBSET Txs, found : SUBSET Txs, todo : SUBSET Txs]

\* A verification that has not been answered.
InProgress(r) == Verifies(r) /\ req[r].phase \in {"ledger", "importing", "peer"}

(***************************************************************************)
(* The transactions that a verification needs not look for any more: those *)
(* it found in the pool, those of finished imports, and those which the    *)
(* import that runs has done.                                              *)
(***************************************************************************)
Settled(r) ==
    {t \in TxsIn[r[1]] :
        /\ InProgress(r)
        /\ \/ t \notin req[r].rest
           \/ req[r].phase = "importing" /\ t \in req[r].found \ req[r].todo}

\* A request still looks for no more than the pool missed when it began.
RestInv == \A r \in Requests : req[r].rest \subseteq req[r].missed

\* Consensus has not been told as long as the request goes on.
CountInv ==
    \A r \in Requests :
        /\ replies[r] <= 1
        /\ req[r].phase \notin {"leftover", "done"} => replies[r] = 0

\* Signatures, for VerifiedIsSigned.
SignInv ==
    /\ m_txsTable \cap Forged = {}
    /\ precommit \cap Forged = {}
    /\ stored \cap Forged = {}
    /\ \A r \in Requests :
         /\ Settled(r) \cap Forged = {}
         /\ Verifies(r) /\ req[r].phase = "importing" => req[r].todo \cap Forged = {}
         /\ Verifies(r) /\ outcome[r] = "yes" => TxsIn[r[1]] \cap Forged = {}

\* Pooled, or gone for good.
Safe(t) == t \in m_txsTable \/ Gone(t)

\* For VerifiedIsPooled: what is settled stays safe, since only what is gone for
\* good is queued to be dropped.
SafeInv ==
    /\ \A t \in m_invalidTxs : Gone(t)
    /\ \A r \in Requests :
         /\ \A t \in Settled(r) : Safe(t)
         /\ Verifies(r) /\ outcome[r] = "yes" => \A t \in TxsIn[r[1]] : Safe(t)

\* For VerifiedIsFilled: a fill that misses anything misses what is gone.
FillInv ==
    \A r \in Requests :
        ~Verifies(r) /\ (outcome[r] = "no" \/ req[r].phase \notin {"idle", "done"})
            => \E t \in TxsIn[r[1]] : Gone(t)

\* The limits that the first block's window reaches, so that a transaction
\* which fails the block limit check has reached its limit.
LimitsInReach == \A t \in Txs : LimitOf[t] <= BlockLimit
-----------------------------------------------------------------------------
(***************************************************************************)
(* Types.                                                                  *)
(***************************************************************************)
PoolTypes ==
    /\ m_txsTable \subseteq Txs
    /\ owner \in [Txs -> Proposals \cup {Unsealed, NoBatch}]
    /\ \A t \in Txs \ m_txsTable : owner[t] = Unsealed
    /\ m_invalidTxs \subseteq m_txsTable
    /\ precommit \subseteq Txs

LEMMA RequestTyped ==
    ASSUME NEW r \in Requests
    PROVE  r[1] \in Proposals /\ TxsIn[r[1]] \subseteq Txs
BY VerifyAssumption DEF Requests

LEMMA SubmitTyped ==
    ASSUME PoolTypes, NEW t \in Txs, Submit(t)
    PROVE  PoolTypes'
BY DEF PoolTypes, Submit, Admissible, poolVars

LEMMA EnforceTyped ==
    ASSUME PoolTypes, NEW t \in Txs, NEW p \in Proposals, Enforce(t, p)
    PROVE  PoolTypes'
BY DEF PoolTypes, Enforce

LEMMA AnswerTyped ==
    ASSUME TypeOK, NEW r \in Requests, NEW R \in SameCount(r)
    PROVE  R \subseteq Txs
BY VerifyAssumption DEF TypeOK, SameCount

\* What a step of request r does to the rest: it leaves the chain alone, and
\* submits or imports at most one transaction.
PoolEffect(r) ==
    \/ UNCHANGED poolVars
    \/ \E t \in req[r].todo :
         \/ Submit(t)
         \/ Verifies(r) /\ req[r].phase = "importing" /\ Enforce(t, r[1])

ReplyEffect(r) == UNCHANGED replyVars \/ \E ok \in BOOLEAN : Reply(r, ok)

LEMMA StepFrame ==
    ASSUME TypeOK, NEW r \in Requests, Step(r)
    PROVE  /\ UNCHANGED <<ledgerVars, stored>>
           /\ PoolEffect(r)
           /\ ReplyEffect(r)
           /\ \E s \in ReqType : Set(r, s)
<1> USE DEF PoolEffect, ReplyEffect, ReqType, ReqPhases
<1>a. req[r] \in ReqType /\ TxsIn[r[1]] \subseteq Txs /\ stored \subseteq Txs
  BY RequestTyped DEF TypeOK
<1>b. ASSUME NEW s \in ReqType, AskFurther(r, s)
      PROVE  ReplyEffect(r) /\ \E u \in ReqType : Set(r, u)
  BY <1>a, <1>b DEF AskFurther, Finish
<1>c. ASSUME NEW ok \in BOOLEAN, Finish(r, ok)
      PROVE  ReplyEffect(r) /\ \E u \in ReqType : Set(r, u)
  BY <1>a, <1>c DEF Finish
<1>1. CASE Begin(r)
  BY <1>a, <1>c, <1>1 DEF Begin
<1>2. CASE LedgerFails(r)
  BY <1>a, <1>b, <1>2 DEF LedgerFails
<1>3. CASE LedgerAnswers(r)
  BY <1>a, <1>3 DEF LedgerAnswers
<1>4. CASE \E t \in Txs : ImportFreely(r, t)
  BY <1>a, <1>4 DEF ImportFreely
<1>5. CASE \E t \in Txs : ImportForProposal(r, t)
  BY <1>a, <1>b, <1>c, <1>5 DEF ImportForProposal, ImportFails
<1>6. CASE FinishLedgerImport(r)
  BY <1>a, <1>b, <1>c, <1>6 DEF FinishLedgerImport
<1>7. CASE FillAgain(r)
  BY <1>a, <1>c, <1>7 DEF FillAgain
<1>8. CASE PeerFails(r)
  BY <1>a, <1>c, <1>8 DEF PeerFails
<1>9. CASE PeerAnswersFewer(r)
  BY <1>a, <1>9 DEF PeerAnswersFewer, Recheck
<1>10. CASE PeerAnswersAll(r)
  <2>1. ASSUME NEW R \in SameCount(r), ImportAnswer(r, R)
        PROVE  \E u \in ReqType : Set(r, u)
    BY <1>a, <2>1, AnswerTyped DEF ImportAnswer
  <2> QED
    BY <1>a, <1>c, <1>10, <2>1 DEF PeerAnswersAll
<1>11. CASE FinishPeerImport(r)
  BY <1>a, <1>c, <1>11 DEF FinishPeerImport
<1>12. CASE FinishLeftovers(r)
  BY <1>a, <1>12 DEF FinishLeftovers
<1> QED
  BY <1>1, <1>2, <1>3, <1>4, <1>5, <1>6, <1>7, <1>8, <1>9, <1>10, <1>11, <1>12 DEF Step

\* Two of the requests: only r's record is changed.
LEMMA StepOther ==
    ASSUME TypeOK, NEW r \in Requests, Step(r), NEW q \in Requests, q # r
    PROVE  req'[q] = req[q] /\ outcome'[q] = outcome[q] /\ replies'[q] = replies[q]
BY StepFrame DEF TypeOK, ReplyEffect, Reply, Set, replyVars

LEMMA StepTyped ==
    ASSUME TypeOK, NEW r \in Requests, Step(r)
    PROVE  TypeOK'
<1>1. PoolTypes'
  <2>1. PoolTypes /\ req[r].todo \subseteq Txs
    BY DEF TypeOK, PoolTypes
  <2>2. CASE UNCHANGED poolVars
    BY <2>1, <2>2 DEF PoolTypes, poolVars
  <2>3. CASE \E t \in req[r].todo : Submit(t)
    BY <2>1, <2>3, SubmitTyped
  <2>4. CASE \E t \in req[r].todo : Enforce(t, r[1])
    BY <2>1, <2>4, EnforceTyped, RequestTyped
  <2> QED
    BY <2>2, <2>3, <2>4, StepFrame DEF PoolEffect
<1>2. req' \in [Requests -> ReqType]
  BY StepFrame DEF TypeOK, Set, ReqType
<1>3. outcome' \in [Requests -> {"none", "yes", "no"}] /\ replies' \in [Requests -> Nat]
  BY StepFrame DEF TypeOK, ReplyEffect, Reply, replyVars
<1>4. UNCHANGED <<ledgerVars, stored>>
  BY StepFrame
<1> QED
  BY <1>1, <1>2, <1>3, <1>4 DEF TypeOK, PoolTypes, ReqType, ledgerVars

\* What happens to the pool meanwhile.
Meanwhile ==
    \/ \E t \in Txs : Arrive(t) \/ PreCommit(t) \/ Visit(t)
    \/ Cleanup
    \/ \E p \in Proposals, flag \in BOOLEAN : Mark(p, flag)
    \/ Reset
    \/ \E S \in SUBSET Txs : Commit(S)

LEMMA NextSplits == [Next]_vars <=> \/ \E r \in Requests : Step(r)
                                    \/ Meanwhile
                                    \/ UNCHANGED vars
BY DEF Next, Meanwhile

LEMMA MeanwhileFrame ==
    ASSUME Meanwhile
    PROVE  UNCHANGED <<req, replyVars>>
BY DEF Meanwhile, Arrive, PreCommit, Visit, Cleanup, Mark, Reset, Commit

LEMMA MeanwhileTyped ==
    ASSUME TypeOK, Meanwhile
    PROVE  TypeOK'
<1>1. req' = req /\ outcome' = outcome /\ replies' = replies
  BY MeanwhileFrame DEF replyVars
<1>2. ASSUME PoolTypes', stored' \subseteq Txs, UNCHANGED ledgerVars
      PROVE  TypeOK'
  BY <1>1, <1>2 DEF TypeOK, PoolTypes, ledgerVars
<1>3. PoolTypes /\ stored \subseteq Txs
  BY DEF TypeOK, PoolTypes
<1>4. CASE \E t \in Txs : Arrive(t)
  BY <1>2, <1>3, <1>4, SubmitTyped DEF Arrive
<1>5. CASE \E t \in Txs : PreCommit(t)
  BY <1>2, <1>3, <1>5 DEF PreCommit, PoolTypes
<1>6. CASE \E t \in Txs : Visit(t)
  BY <1>2, <1>3, <1>6 DEF Visit, PoolTypes
<1>7. CASE Cleanup
  BY <1>2, <1>3, <1>7 DEF Cleanup, Remove, PoolTypes
<1>8. CASE \E p \in Proposals, flag \in BOOLEAN : Mark(p, flag)
  BY <1>2, <1>3, <1>8 DEF Mark, PoolTypes
<1>9. CASE Reset
  BY <1>2, <1>3, <1>9 DEF Reset, PoolTypes
<1>10. CASE \E S \in SUBSET Txs : Commit(S)
  <2>1. PICK S \in SUBSET Txs : Commit(S)
    BY <1>10
  <2>2. PoolTypes' /\ stored' \subseteq Txs
    BY <1>3, <2>1 DEF Commit, Remove, PoolTypes
  <2>3. height' \in 0 .. MaxBlock /\ chain' \in [Blocks -> SUBSET Txs]
    BY <2>1, LedgerAssumption DEF Commit, CommitBlock, TypeOK, Blocks
  <2> QED
    BY <1>1, <2>2, <2>3 DEF TypeOK, PoolTypes
<1> QED
  BY <1>4, <1>5, <1>6, <1>7, <1>8, <1>9, <1>10 DEF Meanwhile

LEMMA InitTyped == Init => TypeOK
<1> SUFFICES ASSUME Init PROVE TypeOK
  OBVIOUS
<1>1. height \in 0 .. MaxBlock /\ chain \in [Blocks -> SUBSET Txs]
  BY LedgerAssumption DEF Init, LedgerInit
<1> QED
  BY <1>1 DEF Init, TypeOK, ReqPhases

LEMMA TypeStep == TypeOK /\ [Next]_vars => TypeOK'
<1> SUFFICES ASSUME TypeOK, [Next]_vars PROVE TypeOK'
  OBVIOUS
<1>1. CASE UNCHANGED vars
  BY <1>1 DEF TypeOK, vars, ledgerVars, poolVars, replyVars
<1> QED
  BY <1>1, NextSplits, StepTyped, MeanwhileTyped

\* TypeOK: the pool, the queue of transactions to drop, the marks and the
\* requests keep their types; what is queued is pooled, and nothing outside the
\* pool is sealed.
THEOREM TypeCorrect == Spec => []TypeOK
BY InitTyped, TypeStep, PTL DEF Spec
-----------------------------------------------------------------------------
(***************************************************************************)
(* What a step of request r does, for the invariants.                      *)
(***************************************************************************)
\* What is settled was settled before or is pooled; consensus is told yes only
\* of what is settled or pooled.
SettledEffect(r) ==
    /\ Settled(r)' \subseteq Settled(r) \cup m_txsTable'
    /\ Verifies(r) /\ outcome'[r] = "yes" =>
         outcome[r] = "yes" \/ TxsIn[r[1]] \subseteq Settled(r) \cup m_txsTable

\* A fill goes on, or is refused, only if it did not find all in the pool.
FillEffect(r) ==
    ~Verifies(r) /\ (outcome'[r] = "no" \/ req'[r].phase \notin {"idle", "done"}) =>
        \/ outcome[r] = "no" \/ req[r].phase \notin {"idle", "done"}
        \/ /\ outcome[<<r[1], "verify">>] = "yes"
           /\ ~(TxsIn[r[1]] \subseteq m_txsTable)

\* Whoever replies has not replied before, and does not reply again.
CountEffect(r) ==
    \/ /\ UNCHANGED replies
       /\ req'[r].phase \notin {"leftover", "done"} => req[r].phase \notin {"leftover", "done"}
    \/ /\ \E ok \in BOOLEAN : Reply(r, ok)
       /\ req[r].phase \notin {"leftover", "done"} /\ req'[r].phase \in {"leftover", "done"}

Effect(r) ==
    /\ req'[r].rest \subseteq req'[r].missed
    /\ SettledEffect(r)
    /\ FillEffect(r)
    /\ CountEffect(r)

LEMMA StepEffect ==
    ASSUME TypeOK, RestInv, NEW r \in Requests, Step(r)
    PROVE  Effect(r)
<1> USE DEF Effect, SettledEffect, FillEffect, CountEffect, Settled, InProgress,
            Verifies, Set, Reply, replyVars
<1>a. /\ req \in [Requests -> ReqType] /\ outcome \in [Requests -> {"none", "yes", "no"}]
      /\ req[r] \in ReqType /\ req[r].rest \subseteq req[r].missed
      /\ TxsIn[r[1]] \subseteq Txs /\ stored \subseteq Txs
  BY RequestTyped DEF TypeOK, RestInv, ReqType
<1>b. ASSUME NEW ok \in BOOLEAN, Finish(r, ok), req[r].phase \notin {"leftover", "done"},
             ok /\ Verifies(r) => TxsIn[r[1]] \subseteq Settled(r) \cup m_txsTable,
             ~ok => req[r].phase # "idle"
      PROVE  Effect(r)
  <2>1. req'[r] = [req[r] EXCEPT !.phase = "done"]
    BY <1>a, <1>b DEF Finish
  <2>2. req'[r].phase = "done" /\ req'[r].rest \subseteq req'[r].missed
    BY <1>a, <2>1 DEF ReqType
  <2>3. outcome'[r] = IF ok THEN "yes" ELSE "no"
    BY <1>a, <1>b DEF Finish
  <2>4. Reply(r, ok)
    BY <1>b DEF Finish
  <2>5. SettledEffect(r) /\ FillEffect(r)
    BY <1>b, <2>2, <2>3
  <2>6. CountEffect(r)
    <3> HIDE DEF Reply
    <3> QED
      BY <1>b, <2>2, <2>4, Zenon
  <2> QED
    BY <2>2, <2>5, <2>6
<1>c. ASSUME NEW s \in ReqType, Set(r, s), UNCHANGED replyVars, s.rest \subseteq s.missed,
             s.phase \notin {"leftover", "done"}, req[r].phase \notin {"idle", "leftover", "done"},
             Settled(r)' \subseteq Settled(r) \cup m_txsTable'
      PROVE  Effect(r)
  BY <1>a, <1>c
<1>d. ASSUME NEW s \in ReqType, AskFurther(r, s), s.rest \subseteq s.missed,
             req[r].phase \in {"ledger", "importing"}, s.phase = req[r].phase,
             \A t \in TxsIn[r[1]] \ s.rest : Verifies(r) => t \in Settled(r),
             s = [req[r] EXCEPT !.rest = s.rest]
      PROVE  Effect(r)
  <2>1. CASE Verifies(r)
    <3>1. req' = [req EXCEPT ![r] = [s EXCEPT !.phase = "peer"]] /\ UNCHANGED replyVars
      BY <1>d, <2>1 DEF AskFurther
    <3>2. /\ req'[r].phase = "peer" /\ req'[r].rest = s.rest
          /\ req'[r].missed = s.missed /\ req'[r] \in ReqType
      BY <1>a, <3>1 DEF ReqType, ReqPhases
    <3>3. Settled(r)' \subseteq Settled(r)
      BY <1>d, <2>1, <3>2
    <3> QED
      BY <1>a, <1>d, <2>1, <3>1, <3>2, <3>3
  <2>2. CASE ~Verifies(r)
    BY <1>b, <1>d, <2>2 DEF AskFurther
  <2> QED
    BY <2>1, <2>2
<1>1. CASE Begin(r)
  <2>1. req[r].phase = "idle" /\ m_txsTable' = m_txsTable
    BY <1>1 DEF Begin, poolVars
  <2>2. CASE TxsIn[r[1]] \ m_txsTable = {}
    <3>1. Finish(r, TRUE)
      BY <1>1, <2>2 DEF Begin
    <3> QED
      BY <1>b, <2>1, <2>2, <3>1
  <2>3. CASE TxsIn[r[1]] \ m_txsTable # {}
    <3>1. /\ req'[r] = [req[r] EXCEPT !.phase = "ledger", !.missed = TxsIn[r[1]] \ m_txsTable,
                                      !.rest = TxsIn[r[1]] \ m_txsTable]
          /\ UNCHANGED replyVars
      BY <1>a, <1>1, <2>3 DEF Begin
    <3>2. /\ req'[r].phase = "ledger" /\ req'[r].rest = TxsIn[r[1]] \ m_txsTable
          /\ req'[r].missed = TxsIn[r[1]] \ m_txsTable
      BY <1>a, <3>1 DEF ReqType
    <3>3. Settled(r)' \subseteq m_txsTable'
      BY <2>1, <3>2
    <3>4. ~Verifies(r) => outcome[<<r[1], "verify">>] = "yes"
      BY <1>1 DEF Begin
    <3> QED
      BY <2>1, <2>3, <3>1, <3>2, <3>3, <3>4
  <2> QED
    BY <2>2, <2>3
<1>2. CASE LedgerFails(r)
  <2>1. AskFurther(r, req[r]) /\ req[r].phase = "ledger"
    BY <1>2 DEF LedgerFails
  <2>2. req[r] = [req[r] EXCEPT !.rest = req[r].rest]
    BY <1>a DEF ReqType
  <2>3. \A t \in TxsIn[r[1]] \ req[r].rest : Verifies(r) => t \in Settled(r)
    BY <2>1
  <2> QED
    BY <1>a, <1>d, <2>1, <2>2, <2>3
<1>3. CASE LedgerAnswers(r)
  BY <1>a, <1>3 DEF LedgerAnswers, ReqType
<1>4. CASE \E t \in Txs : ImportFreely(r, t)
  BY <1>a, <1>4 DEF ImportFreely, ReqType
<1>5. CASE \E t \in Txs : ImportForProposal(r, t)
  <2>1. PICK t \in Txs : ImportForProposal(r, t)
    BY <1>5
  <2>2. req[r].phase = "importing" /\ Verifies(r)
    BY <2>1 DEF ImportForProposal
  <2>3. CASE Enforceable(t, r[1])
    <3>1. /\ req'[r] = [req[r] EXCEPT !.todo = @ \ {t}] /\ UNCHANGED replyVars
          /\ t \in m_txsTable' /\ m_txsTable \subseteq m_txsTable'
      BY <1>a, <2>1, <2>3 DEF ImportForProposal, Enforce
    <3>2. /\ req'[r].phase = "importing" /\ req'[r].rest = req[r].rest
          /\ req'[r].missed = req[r].missed /\ req'[r].source = req[r].source
          /\ req'[r].found = req[r].found /\ req'[r].todo = req[r].todo \ {t}
      BY <1>a, <2>2, <3>1 DEF ReqType
    <3>3. Settled(r)' \subseteq Settled(r) \cup m_txsTable'
      BY <2>2, <3>1, <3>2
    <3> QED
      BY <1>a, <2>2, <3>1, <3>2, <3>3
  <2>4. CASE ~Enforceable(t, r[1])
    <3>1. ImportFails(r)
      BY <2>1, <2>4 DEF ImportForProposal
    <3>2. req[r] = [req[r] EXCEPT !.rest = req[r].rest]
      BY <1>a DEF ReqType
    <3>3. \A u \in TxsIn[r[1]] \ req[r].rest : Verifies(r) => u \in Settled(r)
      BY <2>2
    <3>4. CASE req[r].source = "ledger" /\ AskFurther(r, req[r])
      BY <1>a, <1>d, <2>2, <3>2, <3>3, <3>4
    <3>5. CASE req[r].source = "peer" /\ Finish(r, FALSE)
      BY <1>b, <2>2, <3>5
    <3> QED
      BY <3>1, <3>4, <3>5 DEF ImportFails
  <2> QED
    BY <2>3, <2>4
<1>6. CASE FinishLedgerImport(r)
  <2> DEFINE s == [req[r] EXCEPT !.rest = @ \ req[r].found]
  <2>1. /\ req[r].phase = "importing" /\ req[r].source = "ledger" /\ req[r].todo = {}
    BY <1>6 DEF FinishLedgerImport
  <2>2. /\ s \in ReqType /\ s.rest = req[r].rest \ req[r].found /\ s.missed = req[r].missed
        /\ s.phase = "importing" /\ s = [req[r] EXCEPT !.rest = s.rest]
    BY <1>a, <2>1 DEF ReqType
  <2>3. \A t \in TxsIn[r[1]] \ s.rest : Verifies(r) => t \in Settled(r)
    BY <2>1, <2>2
  <2>4. CASE AskFurther(r, s)
    <3> HIDE DEF s
    <3> QED
      BY <1>a, <1>d, <2>1, <2>2, <2>3, <2>4
  <2>5. CASE s.rest = {} /\ Finish(r, TRUE)
    BY <1>b, <2>1, <2>2, <2>3, <2>5
  <2>6. CASE ~Verifies(r) /\ Set(r, [s EXCEPT !.phase = "again"]) /\ UNCHANGED replyVars
    <3>1. req'[r].phase = "again" /\ req'[r].rest \subseteq req'[r].missed
      BY <1>a, <2>6 DEF ReqType
    <3> QED
      BY <1>a, <2>1, <2>6, <3>1
  <2> QED
    BY <1>6, <2>4, <2>5, <2>6 DEF FinishLedgerImport
<1>7. CASE FillAgain(r)
  BY <1>a, <1>7 DEF FillAgain, Finish, ReqType
<1>8. CASE PeerFails(r)
  BY <1>a, <1>8 DEF PeerFails, Finish, ReqType
<1>9. CASE PeerAnswersFewer(r)
  <2>1. req[r].phase = "peer" /\ Reply(r, Recheck(r)) /\ Recheck(r) \in BOOLEAN
    BY <1>9 DEF PeerAnswersFewer, Recheck
  <2>2. PICK R \in SUBSET req[r].rest :
            req'[r] = [req[r] EXCEPT !.phase = "leftover", !.todo = R]
    BY <1>a, <1>9 DEF PeerAnswersFewer
  <2>3. req'[r].phase = "leftover" /\ req'[r].rest \subseteq req'[r].missed
    BY <1>a, <2>2 DEF ReqType
  <2>4. Verifies(r) /\ Recheck(r) => TxsIn[r[1]] \subseteq Settled(r) \cup m_txsTable
    BY <1>a, <2>1 DEF Recheck
  <2>5. outcome'[r] = IF Recheck(r) THEN "yes" ELSE "no"
    BY <1>a, <2>1
  <2>6. SettledEffect(r) /\ FillEffect(r)
    BY <2>1, <2>3, <2>4, <2>5
  <2>7. CountEffect(r)
    <3> HIDE DEF Reply
    <3> QED
      BY <2>1, <2>3, Zenon
  <2> QED
    BY <2>3, <2>6, <2>7
<1>10. CASE PeerAnswersAll(r)
  <2>1. req[r].phase = "peer"
    BY <1>10 DEF PeerAnswersAll
  <2>2. CASE Finish(r, FALSE)
    BY <1>b, <2>1, <2>2
  <2>3. CASE (\E R \in SameCount(r) : ImportAnswer(r, R)) /\ UNCHANGED replyVars
    <3>1. /\ req'[r].phase = "importing" /\ req'[r].source = "peer"
          /\ req'[r].rest = req[r].rest /\ req'[r].missed = req[r].missed
          /\ req'[r].todo = req'[r].found
      BY <1>a, <2>3 DEF ImportAnswer, ReqType
    <3>2. Settled(r)' \subseteq Settled(r)
      BY <2>1, <3>1
    <3> QED
      BY <1>a, <2>1, <2>3, <3>1, <3>2
  <2> QED
    BY <1>10, <2>2, <2>3 DEF PeerAnswersAll
<1>11. CASE FinishPeerImport(r)
  <2>1. /\ req[r].phase = "importing" /\ req[r].source = "peer" /\ req[r].todo = {}
    BY <1>11 DEF FinishPeerImport
  <2>2. CASE req[r].found = req[r].rest /\ Finish(r, TRUE)
    <3>1. Verifies(r) => TxsIn[r[1]] \subseteq Settled(r)
      BY <2>1, <2>2
    <3> QED
      BY <1>b, <2>1, <2>2, <3>1
  <2>3. CASE Finish(r, FALSE)
    BY <1>b, <2>1, <2>3
  <2> QED
    BY <1>11, <2>2, <2>3 DEF FinishPeerImport
<1>12. CASE FinishLeftovers(r)
  BY <1>a, <1>12 DEF FinishLeftovers, ReqType
<1> QED
  BY <1>1, <1>2, <1>3, <1>4, <1>5, <1>6, <1>7, <1>8, <1>9, <1>10, <1>11, <1>12 DEF Step

LEMMA RestStep == TypeOK /\ RestInv /\ [Next]_vars => RestInv'
<1> SUFFICES ASSUME TypeOK, RestInv, [Next]_vars PROVE RestInv'
  OBVIOUS
<1>1. ASSUME NEW r \in Requests, Step(r) PROVE RestInv'
  BY <1>1, StepEffect, StepOther DEF Effect, RestInv
<1>2. ASSUME UNCHANGED req PROVE RestInv'
  BY <1>2 DEF RestInv
<1> QED
  BY <1>1, <1>2, NextSplits, MeanwhileFrame DEF vars
-----------------------------------------------------------------------------
(***************************************************************************)
(* Consensus is told once.                                                 *)
(***************************************************************************)
LEMMA CountStep == TypeOK /\ RestInv /\ CountInv /\ [Next]_vars => CountInv'
<1> SUFFICES ASSUME TypeOK, RestInv, CountInv, [Next]_vars PROVE CountInv'
  OBVIOUS
<1>1. ASSUME NEW r \in Requests, Step(r) PROVE CountInv'
  <2>1. CountEffect(r)
    BY <1>1, StepEffect DEF Effect
  <2>2. replies \in [Requests -> Nat]
    BY DEF TypeOK
  <2>3. /\ replies'[r] <= 1
        /\ req'[r].phase \notin {"leftover", "done"} => replies'[r] = 0
    BY <2>1, <2>2 DEF CountEffect, CountInv, Reply
  <2> QED
    BY <1>1, <2>3, StepOther DEF CountInv
<1>2. ASSUME UNCHANGED <<req, replyVars>> PROVE CountInv'
  BY <1>2 DEF CountInv, replyVars
<1> QED
  BY <1>1, <1>2, NextSplits, MeanwhileFrame DEF vars

\* OneReply: whatever the pool, the ledger and the proposer do, consensus is
\* called back at most once for each request.
THEOREM OneReplyHolds == Spec => []OneReply
<1>1. Init => RestInv /\ CountInv
  BY DEF Init, RestInv, CountInv
<1>2. CountInv => OneReply
  BY DEF CountInv, OneReply
<1> QED
  BY <1>1, <1>2, InitTyped, TypeStep, RestStep, CountStep, PTL DEF Spec
-----------------------------------------------------------------------------
(***************************************************************************)
(* Signatures.                                                             *)
(***************************************************************************)
SignedPool == m_txsTable \cap Forged = {} /\ precommit \cap Forged = {} /\ stored \cap Forged = {}

LEMMA MeanwhileSigned ==
    ASSUME TypeOK, SignedPool, Meanwhile
    PROVE  SignedPool'
<1>1. CASE \E t \in Txs : Arrive(t)
  BY <1>1 DEF Arrive, Submit, Admissible, poolVars, SignedPool
<1>2. CASE \E t \in Txs : PreCommit(t)
  BY <1>2 DEF PreCommit, SignedPool
<1>3. CASE \E t \in Txs : Visit(t)
  BY <1>3 DEF Visit, SignedPool
<1>4. CASE Cleanup
  BY <1>4 DEF Cleanup, Remove, SignedPool
<1>5. CASE \E p \in Proposals, flag \in BOOLEAN : Mark(p, flag)
  BY <1>5 DEF Mark, SignedPool
<1>6. CASE Reset
  BY <1>6 DEF Reset, SignedPool
<1>7. CASE \E S \in SUBSET Txs : Commit(S)
  BY <1>7 DEF Commit, Remove, SignedPool
<1> QED
  BY <1>1, <1>2, <1>3, <1>4, <1>5, <1>6, <1>7 DEF Meanwhile

\* Where the transactions that an import works through come from.
LEMMA TodoEffect ==
    ASSUME TypeOK, NEW r \in Requests, Step(r), req'[r].phase = "importing"
    PROVE  \/ req[r].phase = "importing" /\ req'[r].todo \subseteq req[r].todo
           \/ LedgerAnswers(r)
           \/ PeerAnswersAll(r)
<1> USE DEF Set, ReqType
<1>a. req \in [Requests -> ReqType] /\ req[r] \in ReqType
  BY DEF TypeOK
<1>b. ASSUME NEW ok \in BOOLEAN PROVE ~Finish(r, ok)
  BY <1>a DEF Finish
<1>c. ASSUME NEW s \in ReqType PROVE ~AskFurther(r, s)
  BY <1>a, <1>b DEF AskFurther
<1>1. CASE Begin(r)
  <2> DEFINE m == TxsIn[r[1]] \ m_txsTable
  <2>1. req' = [req EXCEPT ![r] = [req[r] EXCEPT !.phase = "ledger", !.missed = m, !.rest = m]]
    BY <1>b, <1>1 DEF Begin
  <2>2. req'[r].phase = "ledger"
    BY <1>a, <2>1
  <2> QED
    BY <2>2
<1>2. CASE LedgerFails(r)
  BY <1>a, <1>c, <1>2 DEF LedgerFails
<1>3. CASE \E t \in Txs : ImportFreely(r, t)
  BY <1>a, <1>3 DEF ImportFreely
<1>4. CASE \E t \in Txs : ImportForProposal(r, t)
  <2>1. PICK t \in Txs : ImportForProposal(r, t)
    BY <1>4
  <2>2. ~ImportFails(r)
    BY <1>a, <1>b, <1>c DEF ImportFails
  <2>3. req[r].phase = "importing" /\ req' = [req EXCEPT ![r] = [req[r] EXCEPT !.todo = @ \ {t}]]
    BY <2>1, <2>2 DEF ImportForProposal
  <2> QED
    BY <1>a, <2>3
<1>5. CASE FinishLedgerImport(r)
  <2> DEFINE s == [req[r] EXCEPT !.rest = @ \ req[r].found]
  <2>1. s \in ReqType
    BY <1>a
  <2>2. ~AskFurther(r, s) /\ ~Finish(r, TRUE)
    BY <1>b, <1>c, <2>1
  <2>3. req' = [req EXCEPT ![r] = [s EXCEPT !.phase = "again"]]
    BY <1>5, <2>2 DEF FinishLedgerImport
  <2>4. req'[r].phase = "again"
    BY <1>a, <2>1, <2>3
  <2> QED
    BY <2>4
<1>6. CASE FillAgain(r) \/ PeerFails(r) \/ FinishPeerImport(r)
  BY <1>b, <1>6 DEF FillAgain, PeerFails, FinishPeerImport
<1>7. CASE PeerAnswersFewer(r)
  BY <1>a, <1>7 DEF PeerAnswersFewer
<1>8. CASE FinishLeftovers(r)
  BY <1>a, <1>8 DEF FinishLeftovers
<1> QED
  BY <1>1, <1>2, <1>3, <1>4, <1>5, <1>6, <1>7, <1>8 DEF Step

\* What is about to be imported for a proposal has been verified.
LEMMA TodoSigned ==
    ASSUME TypeOK, SignInv, NEW r \in Requests, Step(r), Verifies(r),
           req'[r].phase = "importing"
    PROVE  req'[r].todo \cap Forged = {}
<1>a. req \in [Requests -> ReqType] /\ req[r] \in ReqType
  BY DEF TypeOK, ReqType
<1>1. CASE req[r].phase = "importing" /\ req'[r].todo \subseteq req[r].todo
  BY <1>1 DEF SignInv
<1>2. CASE LedgerAnswers(r)
  <2>1. req'[r].todo = stored \cap req[r].rest
    BY <1>a, <1>2 DEF LedgerAnswers, Set, ReqType
  <2> QED
    BY <2>1 DEF SignInv
<1>3. CASE PeerAnswersAll(r)
  <2>1. CASE Finish(r, FALSE)
    BY <1>a, <2>1 DEF Finish, Set, ReqType
  <2>2. ASSUME NEW R \in SameCount(r), Forged \cap R \subseteq m_txsTable, ImportAnswer(r, R)
        PROVE  req'[r].todo \cap Forged = {}
    <3>1. req'[r].todo = R
      BY <1>a, <2>2, AnswerTyped DEF ImportAnswer, Set, ReqType
    <3> QED
      BY <2>2, <3>1 DEF SignInv
  <2> QED
    BY <1>3, <2>1, <2>2 DEF PeerAnswersAll
<1> QED
  BY <1>1, <1>2, <1>3, TodoEffect

LEMMA SettledOther ==
    ASSUME TypeOK, NEW r \in Requests, Step(r), NEW q \in Requests, q # r
    PROVE  Settled(q)' = Settled(q)
<1>1. req'[q] = req[q]
  BY StepOther
<1> QED
  BY <1>1 DEF Settled, InProgress, Verifies

LEMMA SignStep == TypeOK /\ RestInv /\ SignInv /\ [Next]_vars => SignInv'
<1> SUFFICES ASSUME TypeOK, RestInv, SignInv, [Next]_vars PROVE SignInv'
  OBVIOUS
<1>1. SignedPool
  BY DEF SignInv, SignedPool
<1>2. ASSUME NEW r \in Requests, Step(r) PROVE SignInv'
  <2>1. SignedPool'
    <3>1. UNCHANGED stored /\ PoolEffect(r)
      BY <1>2, StepFrame
    <3>2. CASE UNCHANGED poolVars
      BY <1>1, <3>1, <3>2 DEF SignedPool, poolVars
    <3>3. CASE \E t \in req[r].todo : Submit(t)
      BY <1>1, <3>1, <3>3 DEF SignedPool, Submit, Admissible, poolVars
    <3>4. CASE \E t \in req[r].todo : Verifies(r) /\ req[r].phase = "importing" /\ Enforce(t, r[1])
      BY <1>1, <3>1, <3>4 DEF SignedPool, SignInv, Enforce
    <3> QED
      BY <3>1, <3>2, <3>3, <3>4 DEF PoolEffect
  <2>2. SettledEffect(r)
    BY <1>2, StepEffect DEF Effect
  <2>3. ASSUME NEW q \in Requests
        PROVE  /\ Settled(q)' \cap Forged = {}
               /\ Verifies(q) /\ req'[q].phase = "importing" => req'[q].todo \cap Forged = {}
               /\ Verifies(q) /\ outcome'[q] = "yes" => TxsIn[q[1]] \cap Forged = {}
    <3>1. CASE q = r
      <4>1. Settled(r)' \cap Forged = {}
        BY <2>1, <2>2 DEF SettledEffect, SignInv, SignedPool
      <4>2. Verifies(r) /\ outcome'[r] = "yes" => TxsIn[r[1]] \cap Forged = {}
        BY <1>1, <2>2 DEF SettledEffect, SignInv, SignedPool
      <4> QED
        BY <1>2, <3>1, <4>1, <4>2, TodoSigned
    <3>2. CASE q # r
      <4>1. /\ Settled(q)' = Settled(q) /\ req'[q] = req[q] /\ outcome'[q] = outcome[q]
        BY <1>2, <3>2, StepOther, SettledOther
      <4> QED
        BY <4>1 DEF SignInv
    <3> QED
      BY <3>1, <3>2
  <2> QED
    BY <2>1, <2>3 DEF SignInv, SignedPool, Verifies
<1>3. ASSUME SignedPool', UNCHANGED <<req, replyVars>> PROVE SignInv'
  BY <1>3 DEF SignInv, SignedPool, Settled, InProgress, Verifies, replyVars
<1>4. CASE Meanwhile
  BY <1>1, <1>3, <1>4, MeanwhileSigned, MeanwhileFrame
<1>5. CASE UNCHANGED vars
  BY <1>1, <1>3, <1>5 DEF vars, poolVars, SignedPool
<1> QED
  BY <1>2, <1>4, <1>5, NextSplits

LEMMA InitSettled == Init => \A r \in Requests : Settled(r) = {}
BY DEF Init, Settled, InProgress

\* VerifiedIsSigned: no transaction with a wrong signature is pooled, and no
\* proposal with one is verified, although imports for proposals verify nothing
\* in the storage and skip what is pooled.
THEOREM VerifiedIsSignedHolds == Spec => []VerifiedIsSigned
<1>1. Init => RestInv /\ SignInv
  BY InitSettled DEF Init, RestInv, SignInv
<1>2. SignInv => VerifiedIsSigned
  BY DEF SignInv, VerifiedIsSigned, Requests, Verifies
<1> QED
  BY <1>1, <1>2, InitTyped, TypeStep, RestStep, SignStep, PTL DEF Spec
-----------------------------------------------------------------------------
(***************************************************************************)
(* What consensus was told of the pool stays true.                         *)
(***************************************************************************)
LEMMA LedgerEffect ==
    ASSUME TypeOK, [Next]_vars
    PROVE  UNCHANGED ledgerVars \/ \E S \in SUBSET Txs : Commit(S)
<1>1. CASE \E r \in Requests : Step(r)
  BY <1>1, StepFrame
<1>2. CASE Meanwhile
  BY <1>2 DEF Meanwhile, Arrive, PreCommit, Visit, Cleanup, Mark, Reset
<1> QED
  BY <1>1, <1>2, NextSplits DEF vars

\* The chain only grows: what is gone stays gone.
LEMMA GoneStays ==
    ASSUME TypeOK, [Next]_vars, NEW t \in Txs, Gone(t)
    PROVE  Gone(t)'
<1>1. CASE UNCHANGED ledgerVars
  BY <1>1 DEF ledgerVars, Gone, NonceUsed, Expired, NoncesOf, TxsOf
<1>2. CASE \E S \in SUBSET Txs : Commit(S)
  <2>1. PICK S \in SUBSET Txs : Commit(S)
    BY <1>2
  <2>2. /\ height \in Nat /\ height' = height + 1 /\ height + 1 \in Blocks
        /\ chain' = [chain EXCEPT ![height + 1] = S]
    BY <2>1, LedgerAssumption DEF Commit, CommitBlock, TypeOK, Blocks
  <2>3. CASE Expired(t)
    BY <2>2, <2>3, LedgerAssumption DEF Expired, Gone
  <2>4. CASE NonceUsed(t)
    <3>1. PICK b \in 1 .. height : \E u \in chain[b] : NonceOf[u] = NonceOf[t]
      BY <2>4 DEF NonceUsed, NoncesOf, TxsOf
    <3>2. b \in 1 .. height' /\ chain'[b] = chain[b]
      BY <2>2, <3>1 DEF TypeOK, Blocks
    <3> QED
      BY <3>1, <3>2 DEF Gone, NonceUsed, NoncesOf, TxsOf
  <2> QED
    BY <2>3, <2>4 DEF Gone
<1> QED
  BY <1>1, <1>2, LedgerEffect

\* The transactions of a block are gone once it commits.
LEMMA CommittedGone ==
    ASSUME TypeOK, NEW S \in SUBSET Txs, Commit(S), NEW t \in S
    PROVE  Gone(t)'
<1>1. /\ height \in Nat /\ height' = height + 1 /\ height + 1 \in Blocks
      /\ chain' = [chain EXCEPT ![height + 1] = S]
  BY LedgerAssumption DEF Commit, CommitBlock, TypeOK, Blocks
<1>2. height + 1 \in 1 .. height' /\ t \in chain'[height + 1]
  BY <1>1 DEF TypeOK
<1> QED
  BY <1>2 DEF Gone, NonceUsed, NoncesOf, TxsOf

\* A transaction leaves the pool only when it is gone.
LEMMA SafeStays ==
    ASSUME TypeOK, SafeInv, [Next]_vars, NEW t \in Txs, Safe(t)
    PROVE  Safe(t)'
<1>1. CASE Gone(t)
  BY <1>1, GoneStays DEF Safe
<1>2. CASE t \in m_txsTable
  <2>1. CASE \E r \in Requests : Step(r)
    <3>1. PICK r \in Requests : Step(r)
      BY <2>1
    <3>2. PoolEffect(r)
      BY <3>1, StepFrame
    <3> QED
      BY <1>2, <3>2 DEF PoolEffect, Submit, Enforce, poolVars, Safe
  <2>2. CASE Cleanup
    <3>1. t \in m_invalidTxs => Gone(t)'
      BY GoneStays DEF SafeInv
    <3> QED
      BY <1>2, <2>2, <3>1 DEF Cleanup, Remove, Safe
  <2>3. CASE \E S \in SUBSET Txs : Commit(S)
    BY <1>2, <2>3, CommittedGone DEF Commit, Remove, Safe
  <2>4. CASE Meanwhile /\ ~Cleanup /\ ~(\E S \in SUBSET Txs : Commit(S))
    BY <1>2, <2>4 DEF Meanwhile, Arrive, Submit, PreCommit, Visit, Mark, Reset, poolVars, Safe
  <2>5. CASE UNCHANGED vars
    BY <1>2, <2>5 DEF vars, poolVars, Safe
  <2> QED
    BY <2>1, <2>2, <2>3, <2>4, <2>5, NextSplits
<1> QED
  BY <1>1, <1>2 DEF Safe

\* Only what is gone is queued to be dropped.
LEMMA QueueStep ==
    ASSUME LimitsInReach, TypeOK, SafeInv, [Next]_vars
    PROVE  \A t \in m_invalidTxs' : Gone(t)'
<1>1. \A t \in m_invalidTxs : t \in Txs /\ Gone(t)'
  BY GoneStays DEF TypeOK, SafeInv
<1>2. CASE \E r \in Requests : Step(r)
  <2>1. m_invalidTxs' = m_invalidTxs
    BY <1>2, StepFrame DEF PoolEffect, Submit, Enforce, poolVars
  <2> QED
    BY <1>1, <2>1
<1>3. CASE \E t \in Txs : Visit(t)
  <2>1. PICK t \in Txs : Visit(t)
    BY <1>3
  <2>2. m_invalidTxs' = m_invalidTxs \/ (m_invalidTxs' = m_invalidTxs \cup {t} /\ Droppable(t))
    BY <2>1 DEF Visit
  <2>3. Droppable(t) => Gone(t)
    BY LedgerAssumption DEF LimitsInReach, TypeOK, Droppable, LimitFails, Expired, Gone
  <2> QED
    BY <1>1, <2>2, <2>3, GoneStays
<1>4. CASE Meanwhile /\ ~(\E t \in Txs : Visit(t))
  <2>1. m_invalidTxs' \subseteq m_invalidTxs
    BY <1>4 DEF Meanwhile, Arrive, Submit, PreCommit, Cleanup, Mark, Reset, Commit, poolVars
  <2> QED
    BY <1>1, <2>1
<1>5. CASE UNCHANGED vars
  BY <1>1, <1>5 DEF vars, poolVars
<1> QED
  BY <1>2, <1>3, <1>4, <1>5, NextSplits

LEMMA SafeStep == LimitsInReach /\ TypeOK /\ RestInv /\ SafeInv /\ [Next]_vars => SafeInv'
<1> SUFFICES ASSUME LimitsInReach, TypeOK, RestInv, SafeInv, [Next]_vars PROVE SafeInv'
  OBVIOUS
<1>1. \A t \in m_invalidTxs' : Gone(t)'
  BY QueueStep
<1>2. \A r \in Requests : TxsIn[r[1]] \subseteq Txs /\ Settled(r) \subseteq TxsIn[r[1]]
                         /\ Settled(r)' \subseteq TxsIn[r[1]]
  BY RequestTyped DEF Settled
<1>3. \A t \in m_txsTable' : Safe(t)'
  BY DEF Safe
<1>4. ASSUME NEW q \in Requests, Settled(q)' \subseteq Settled(q), outcome'[q] = outcome[q]
      PROVE  /\ \A t \in Settled(q)' : Safe(t)'
             /\ Verifies(q) /\ outcome'[q] = "yes" => \A t \in TxsIn[q[1]] : Safe(t)'
  BY <1>2, <1>4, SafeStays DEF SafeInv
<1>5. ASSUME NEW r \in Requests, Step(r) PROVE SafeInv'
  <2>1. SettledEffect(r)
    BY <1>5, StepEffect DEF Effect
  <2>2. \A t \in Settled(r)' : Safe(t)'
    BY <1>2, <1>3, <2>1, SafeStays DEF SettledEffect, SafeInv
  <2>3. Verifies(r) /\ outcome'[r] = "yes" => \A t \in TxsIn[r[1]] : Safe(t)'
    <3>1. Verifies(r) /\ outcome'[r] = "yes" => \A t \in TxsIn[r[1]] : Safe(t)
      BY <2>1 DEF SettledEffect, SafeInv, Safe
    <3> QED
      BY <1>2, <3>1, SafeStays
  <2>4. ASSUME NEW q \in Requests
        PROVE  /\ \A t \in Settled(q)' : Safe(t)'
               /\ Verifies(q) /\ outcome'[q] = "yes" => \A t \in TxsIn[q[1]] : Safe(t)'
    <3>1. CASE q = r
      BY <2>2, <2>3, <3>1
    <3>2. CASE q # r
      BY <1>4, <1>5, <3>2, StepOther, SettledOther
    <3> QED
      BY <3>1, <3>2
  <2> QED
    BY <1>1, <2>4 DEF SafeInv, Verifies
<1>6. ASSUME UNCHANGED <<req, replyVars>> PROVE SafeInv'
  <2>1. ASSUME NEW q \in Requests
        PROVE  Settled(q)' = Settled(q) /\ outcome'[q] = outcome[q]
    BY <1>6 DEF Settled, InProgress, Verifies, replyVars
  <2>2. ASSUME NEW q \in Requests
        PROVE  /\ \A t \in Settled(q)' : Safe(t)'
               /\ Verifies(q) /\ outcome'[q] = "yes" => \A t \in TxsIn[q[1]] : Safe(t)'
    BY <1>4, <2>1
  <2> QED
    BY <1>1, <2>2 DEF SafeInv, Verifies
<1> QED
  BY <1>5, <1>6, NextSplits, MeanwhileFrame DEF vars

\* VerifiedIsPooled: a proposal is verified only if the pool has, or has had
\* until the chain outran them, all its transactions.
THEOREM VerifiedIsPooledHolds ==
    ASSUME LimitsInReach
    PROVE  Spec => []VerifiedIsPooled
<1>1. Init => RestInv /\ SafeInv
  BY InitSettled DEF Init, RestInv, SafeInv
<1>2. SafeInv => VerifiedIsPooled
  BY DEF SafeInv, Safe, VerifiedIsPooled, Requests, Verifies
<1>3. TypeOK /\ RestInv /\ SafeInv /\ [Next]_vars => SafeInv'
  BY SafeStep
<1> QED
  BY <1>1, <1>2, <1>3, InitTyped, TypeStep, RestStep, PTL DEF Spec

LEMMA FillStep == TypeOK /\ RestInv /\ SafeInv /\ FillInv /\ [Next]_vars => FillInv'
<1> SUFFICES ASSUME TypeOK, RestInv, SafeInv, FillInv, [Next]_vars PROVE FillInv'
  OBVIOUS
<1>1. ASSUME NEW q \in Requests, \E t \in TxsIn[q[1]] : Gone(t)
      PROVE  \E t \in TxsIn[q[1]] : Gone(t)'
  BY <1>1, GoneStays, RequestTyped
<1>2. ASSUME NEW r \in Requests, Step(r) PROVE FillInv'
  <2>1. FillEffect(r)
    BY <1>2, StepEffect DEF Effect
  <2>2. ASSUME outcome[<<r[1], "verify">>] = "yes", ~(TxsIn[r[1]] \subseteq m_txsTable)
        PROVE  \E t \in TxsIn[r[1]] : Gone(t)
    BY <2>2, RequestTyped DEF SafeInv, Safe, Requests, Verifies
  <2>3. ~Verifies(r) /\ (outcome'[r] = "no" \/ req'[r].phase \notin {"idle", "done"})
            => \E t \in TxsIn[r[1]] : Gone(t)
    BY <2>1, <2>2 DEF FillEffect, FillInv
  <2> QED
    BY <1>1, <1>2, <2>3, StepOther DEF FillInv, Verifies
<1>3. ASSUME UNCHANGED <<req, replyVars>> PROVE FillInv'
  BY <1>1, <1>3 DEF FillInv, Verifies, replyVars
<1> QED
  BY <1>2, <1>3, NextSplits, MeanwhileFrame DEF vars

\* VerifiedIsFilled: the block of a verified proposal is filled, unless one of
\* its transactions is gone for good.
THEOREM VerifiedIsFilledHolds ==
    ASSUME LimitsInReach
    PROVE  Spec => []VerifiedIsFilled
<1>1. Init => RestInv /\ SafeInv /\ FillInv
  BY InitSettled DEF Init, RestInv, SafeInv, FillInv
<1>2. FillInv => VerifiedIsFilled
  BY DEF FillInv, VerifiedIsFilled, Requests, Verifies
<1>3. TypeOK /\ RestInv /\ SafeInv /\ [Next]_vars => SafeInv'
  BY SafeStep
<1> QED
  BY <1>1, <1>2, <1>3, InitTyped, TypeStep, RestStep, FillStep, PTL DEF Spec
-----------------------------------------------------------------------------
(***************************************************************************)
(* The pool keeps its promise to consensus (ProposalPromise).              *)
(***************************************************************************)
\* The proposer is asked only for verifications.
LocalInv == \A r \in Requests : ~Verifies(r) => req[r].phase # "peer" /\ req[r].source = "ledger"

\* What the steps of the promise are guarded by, beyond CountInv: consensus was
\* called back for every answer it has, and has had no block filled whose
\* proposal was not verified.
AskInv ==
    \A r \in Requests :
        /\ outcome[r] # "none" => replies[r] = 1
        /\ ~Verifies(r) /\ req[r].phase # "idle" => outcome[<<r[1], "verify">>] = "yes"

\* A step that answers leaves the pool alone, and a block is filled only with
\* what is pooled at that moment.
AnswerEffect(r) ==
    \/ UNCHANGED replyVars
    \/ \E ok \in BOOLEAN :
         /\ Reply(r, ok)
         /\ UNCHANGED poolVars
         /\ ok /\ ~Verifies(r) => TxsIn[r[1]] \subseteq m_txsTable

\* A fill begins once its proposal was verified, and asks no peer.
FillStarts(r) ==
    ~Verifies(r) =>
        /\ req'[r].phase # "peer" /\ req'[r].source = "ledger"
        /\ req'[r].phase # "idle" => \/ req[r].phase # "idle"
                                    \/ outcome[<<r[1], "verify">>] = "yes"

LEMMA StepAnswers ==
    ASSUME TypeOK, LocalInv, NEW r \in Requests, Step(r)
    PROVE  AnswerEffect(r) /\ FillStarts(r)
<1>a. req \in [Requests -> ReqType] /\ req[r] \in ReqType
  BY DEF TypeOK, ReqType
<1>b. ~Verifies(r) => req[r].phase # "peer" /\ req[r].source = "ledger"
  BY DEF LocalInv
<1>c. ASSUME NEW ok \in BOOLEAN, Finish(r, ok), UNCHANGED poolVars,
             ok /\ ~Verifies(r) => TxsIn[r[1]] \subseteq m_txsTable,
             req[r].phase = "idle" /\ ~Verifies(r) => outcome[<<r[1], "verify">>] = "yes"
      PROVE  AnswerEffect(r) /\ FillStarts(r)
  <2>1. req'[r].phase = "done" /\ req'[r].source = req[r].source
    BY <1>a, <1>c DEF Finish, Set, ReqType
  <2> QED
    BY <1>b, <1>c, <2>1 DEF Finish, AnswerEffect, FillStarts
<1>d. ASSUME NEW s \in ReqType, Set(r, s), UNCHANGED replyVars, req[r].phase # "idle",
             ~Verifies(r) => s.phase # "peer" /\ s.source = "ledger"
      PROVE  AnswerEffect(r) /\ FillStarts(r)
  <2>1. req'[r] = s
    BY <1>a, <1>d DEF Set
  <2>2. FillStarts(r)
    BY <1>d, <2>1 DEF FillStarts
  <2> QED
    BY <1>d, <2>2 DEF AnswerEffect
<1>e. ASSUME NEW s \in ReqType, AskFurther(r, s), UNCHANGED poolVars, req[r].phase # "idle",
             s.source = req[r].source
      PROVE  AnswerEffect(r) /\ FillStarts(r)
  <2>1. CASE Verifies(r)
    <3>1. [s EXCEPT !.phase = "peer"] \in ReqType
      BY DEF ReqType, ReqPhases
    <3> QED
      BY <1>d, <1>e, <2>1, <3>1 DEF AskFurther
  <2>2. CASE ~Verifies(r)
    BY <1>c, <1>e, <2>2 DEF AskFurther
  <2> QED
    BY <2>1, <2>2
<1>1. CASE Begin(r)
  <2> DEFINE m == TxsIn[r[1]] \ m_txsTable
  <2>1. UNCHANGED poolVars /\ (~Verifies(r) => outcome[<<r[1], "verify">>] = "yes")
    BY <1>1 DEF Begin
  <2>2. CASE m = {} /\ Finish(r, TRUE)
    BY <1>c, <2>1, <2>2
  <2>3. CASE /\ Set(r, [req[r] EXCEPT !.phase = "ledger", !.missed = m, !.rest = m])
             /\ UNCHANGED replyVars
    <3>1. req'[r].phase = "ledger" /\ req'[r].source = req[r].source
      BY <1>a, <2>3 DEF Set, ReqType
    <3> QED
      BY <1>b, <2>1, <2>3, <3>1 DEF AnswerEffect, FillStarts
  <2> QED
    BY <1>1, <2>2, <2>3 DEF Begin
<1>2. CASE LedgerFails(r)
  BY <1>a, <1>e, <1>2 DEF LedgerFails
<1>3. CASE LedgerAnswers(r)
  <2> DEFINE F == stored \cap req[r].rest
             s == [req[r] EXCEPT !.phase = "importing", !.source = "ledger",
                                 !.found = F, !.todo = F]
  <2>1. s \in ReqType /\ s.phase = "importing" /\ s.source = "ledger"
    BY <1>a DEF ReqType, ReqPhases
  <2> QED
    BY <1>d, <1>3, <2>1 DEF LedgerAnswers
<1>4. CASE \E t \in Txs : ImportFreely(r, t)
  <2>1. PICK t \in Txs : ImportFreely(r, t)
    BY <1>4
  <2>2. /\ [req[r] EXCEPT !.todo = @ \ {t}] \in ReqType
        /\ [req[r] EXCEPT !.todo = @ \ {t}].phase = req[r].phase
        /\ [req[r] EXCEPT !.todo = @ \ {t}].source = req[r].source
    BY <1>a DEF ReqType
  <2> QED
    BY <1>b, <1>d, <2>1, <2>2 DEF ImportFreely
<1>5. CASE \E t \in Txs : ImportForProposal(r, t)
  <2>1. PICK t \in Txs : ImportForProposal(r, t)
    BY <1>5
  <2>2. req[r].phase = "importing" /\ Verifies(r)
    BY <2>1 DEF ImportForProposal
  <2>3. CASE Set(r, [req[r] EXCEPT !.todo = @ \ {t}]) /\ UNCHANGED replyVars
    <3>1. [req[r] EXCEPT !.todo = @ \ {t}] \in ReqType
      BY <1>a DEF ReqType
    <3> QED
      BY <1>d, <2>2, <2>3, <3>1
  <2>4. CASE ImportFails(r) /\ UNCHANGED poolVars
    BY <1>a, <1>c, <1>e, <2>2, <2>4 DEF ImportFails
  <2> QED
    BY <2>1, <2>3, <2>4 DEF ImportForProposal
<1>6. CASE FinishLedgerImport(r)
  <2> DEFINE s == [req[r] EXCEPT !.rest = @ \ req[r].found]
  <2>1. UNCHANGED poolVars /\ req[r].phase = "importing"
    BY <1>6 DEF FinishLedgerImport
  <2>2. s \in ReqType /\ s.source = req[r].source
    BY <1>a DEF ReqType
  <2>3. CASE AskFurther(r, s)
    <3> HIDE DEF s
    <3> QED
      BY <1>e, <2>1, <2>2, <2>3
  <2>4. CASE Verifies(r) /\ Finish(r, TRUE)
    BY <1>c, <2>1, <2>4
  <2>5. CASE Set(r, [s EXCEPT !.phase = "again"]) /\ UNCHANGED replyVars
    <3>1. /\ [s EXCEPT !.phase = "again"] \in ReqType
          /\ [s EXCEPT !.phase = "again"].phase = "again"
          /\ [s EXCEPT !.phase = "again"].source = req[r].source
      BY <1>a DEF ReqType, ReqPhases
    <3> HIDE DEF s
    <3> QED
      BY <1>b, <1>d, <2>1, <2>5, <3>1
  <2> QED
    BY <1>6, <2>3, <2>4, <2>5 DEF FinishLedgerImport
<1>7. CASE FillAgain(r)
  <2>1. (TxsIn[r[1]] \subseteq m_txsTable) \in BOOLEAN
    OBVIOUS
  <2> QED
    BY <1>c, <1>7, <2>1 DEF FillAgain
<1>8. CASE PeerFails(r)
  BY <1>b, <1>c, <1>8 DEF PeerFails
<1>9. CASE PeerAnswersFewer(r)
  <2>1. req[r].phase = "peer" /\ Verifies(r) /\ Recheck(r) \in BOOLEAN
    BY <1>b, <1>9 DEF PeerAnswersFewer, Recheck
  <2> QED
    BY <1>9, <2>1 DEF PeerAnswersFewer, AnswerEffect, FillStarts
<1>10. CASE PeerAnswersAll(r)
  <2>1. req[r].phase = "peer" /\ Verifies(r) /\ UNCHANGED poolVars
    BY <1>b, <1>10 DEF PeerAnswersAll
  <2>2. CASE Finish(r, FALSE)
    BY <1>c, <2>1, <2>2
  <2>3. CASE UNCHANGED replyVars
    BY <2>1, <2>3 DEF AnswerEffect, FillStarts
  <2> QED
    BY <1>10, <2>2, <2>3 DEF PeerAnswersAll
<1>11. CASE FinishPeerImport(r)
  <2>1. Verifies(r)
    BY <1>b, <1>11 DEF FinishPeerImport
  <2> QED
    BY <1>c, <1>11, <2>1 DEF FinishPeerImport
<1>12. CASE FinishLeftovers(r)
  <2>1. /\ [req[r] EXCEPT !.phase = "done"] \in ReqType
        /\ [req[r] EXCEPT !.phase = "done"].phase = "done"
        /\ [req[r] EXCEPT !.phase = "done"].source = req[r].source
    BY <1>a DEF ReqType, ReqPhases
  <2> QED
    BY <1>b, <1>d, <1>12, <2>1 DEF FinishLeftovers
<1> QED
  BY <1>1, <1>2, <1>3, <1>4, <1>5, <1>6, <1>7, <1>8, <1>9, <1>10, <1>11, <1>12 DEF Step

LEMMA LocalStep == TypeOK /\ LocalInv /\ [Next]_vars => LocalInv'
<1> SUFFICES ASSUME TypeOK, LocalInv, [Next]_vars PROVE LocalInv'
  OBVIOUS
<1>1. ASSUME NEW r \in Requests, Step(r) PROVE LocalInv'
  <2>1. FillStarts(r)
    BY <1>1, StepAnswers
  <2>2. ASSUME NEW q \in Requests, ~Verifies(q)
        PROVE  req'[q].phase # "peer" /\ req'[q].source = "ledger"
    <3>1. CASE q = r
      BY <2>1, <2>2, <3>1 DEF FillStarts
    <3>2. CASE q # r
      BY <1>1, <2>2, <3>2, StepOther DEF LocalInv
    <3> QED
      BY <3>1, <3>2
  <2> QED
    BY <2>2 DEF LocalInv, Verifies
<1>2. ASSUME UNCHANGED req PROVE LocalInv'
  BY <1>2 DEF LocalInv, Verifies
<1> QED
  BY <1>1, <1>2, NextSplits, MeanwhileFrame DEF vars

\* Who replies had not replied, and consensus had no answer.
LEMMA ReplyIsFirst ==
    ASSUME TypeOK, RestInv, CountInv, AskInv, NEW r \in Requests, Step(r),
           NEW ok \in BOOLEAN, Reply(r, ok)
    PROVE  /\ replies[r] = 0 /\ outcome[r] = "none"
           /\ replies'[r] = 1 /\ req'[r].phase \in {"leftover", "done"}
<1>1. replies \in [Requests -> Nat] /\ replies'[r] = replies[r] + 1
  BY DEF TypeOK, Reply
<1>2. replies' # replies
  BY <1>1
<1>3. req[r].phase \notin {"leftover", "done"} /\ req'[r].phase \in {"leftover", "done"}
  BY <1>2, StepEffect DEF Effect, CountEffect
<1>4. replies[r] = 0
  BY <1>3 DEF CountInv
<1>5. replies[r] # 1 /\ replies'[r] = 1
  BY <1>1, <1>4
<1>6. outcome[r] = "none"
  BY <1>5 DEF AskInv
<1> QED
  BY <1>3, <1>4, <1>5, <1>6

\* What consensus was told is never told differently.
LEMMA OutcomeStays ==
    ASSUME TypeOK, RestInv, CountInv, LocalInv, AskInv, [Next]_vars,
           NEW q \in Requests, outcome[q] # "none"
    PROVE  outcome'[q] = outcome[q] /\ replies'[q] = replies[q]
<1>1. ASSUME NEW r \in Requests, Step(r)
      PROVE  outcome'[q] = outcome[q] /\ replies'[q] = replies[q]
  <2>1. CASE q # r
    BY <1>1, <2>1, StepOther
  <2>2. CASE q = r
    <3>1. ASSUME NEW ok \in BOOLEAN, Reply(r, ok) PROVE FALSE
      BY <1>1, <2>2, <3>1, ReplyIsFirst
    <3> QED
      BY <1>1, <2>2, <3>1, StepAnswers DEF AnswerEffect, replyVars
  <2> QED
    BY <2>1, <2>2
<1>2. ASSUME UNCHANGED replyVars
      PROVE  outcome'[q] = outcome[q] /\ replies'[q] = replies[q]
  BY <1>2 DEF replyVars
<1> QED
  BY <1>1, <1>2, NextSplits, MeanwhileFrame DEF vars

LEMMA AskStep ==
    TypeOK /\ RestInv /\ CountInv /\ LocalInv /\ AskInv /\ [Next]_vars => AskInv'
<1> SUFFICES ASSUME TypeOK, RestInv, CountInv, LocalInv, AskInv, [Next]_vars PROVE AskInv'
  OBVIOUS
<1>1. ASSUME NEW q \in Requests, outcome[<<q[1], "verify">>] = "yes"
      PROVE  outcome'[<<q[1], "verify">>] = "yes"
  <2>1. <<q[1], "verify">> \in Requests
    BY DEF Requests
  <2> QED
    BY <1>1, <2>1, OutcomeStays
<1>2. ASSUME NEW q \in Requests, outcome'[q] = outcome[q], replies'[q] = replies[q],
             req'[q].phase # "idle" => req[q].phase # "idle"
      PROVE  /\ outcome'[q] # "none" => replies'[q] = 1
             /\ ~Verifies(q) /\ req'[q].phase # "idle"
                    => outcome'[<<q[1], "verify">>] = "yes"
  BY <1>1, <1>2 DEF AskInv
<1>3. ASSUME NEW r \in Requests, Step(r) PROVE AskInv'
  <2>1. outcome'[r] # "none" => replies'[r] = 1
    <3>1. CASE UNCHANGED replyVars
      BY <3>1 DEF AskInv, replyVars
    <3>2. CASE \E ok \in BOOLEAN : Reply(r, ok)
      BY <1>3, <3>2, ReplyIsFirst
    <3> QED
      BY <1>3, <3>1, <3>2, StepAnswers DEF AnswerEffect
  <2>2. ~Verifies(r) /\ req'[r].phase # "idle" => outcome'[<<r[1], "verify">>] = "yes"
    BY <1>1, <1>3, StepAnswers DEF FillStarts, AskInv
  <2> QED
    BY <1>2, <1>3, <2>1, <2>2, StepOther DEF AskInv, Verifies
<1>4. ASSUME UNCHANGED <<req, replyVars>> PROVE AskInv'
  BY <1>2, <1>4 DEF AskInv, Verifies, replyVars
<1> QED
  BY <1>3, <1>4, NextSplits, MeanwhileFrame DEF vars

PromiseInv ==
    /\ TypeOK /\ RestInv /\ CountInv
    /\ SafeInv /\ FillInv
    /\ LocalInv /\ AskInv

LEMMA PromiseInvStep == LimitsInReach /\ PromiseInv /\ [Next]_vars => PromiseInv'
BY TypeStep, RestStep, CountStep, SafeStep, FillStep, LocalStep, AskStep DEF PromiseInv

\* Consensus is not called back: only the pool and the chain move.
LEMMA AdvanceMaps ==
    ASSUME TypeOK, TypeOK', SafeInv, [Next]_vars, UNCHANGED replyVars
    PROVE  Promise!Advance
<1>1. {t \in Txs : Gone(t)} \subseteq {t \in Txs : Gone(t)'}
  BY GoneStays
<1>2. \A t \in m_txsTable \ m_txsTable' : t \in {u \in Txs : Gone(u)'}
  BY SafeStays DEF Safe, TypeOK
<1>3. m_txsTable' \in SUBSET Txs
  BY DEF TypeOK
<1> QED
  BY <1>1, <1>2, <1>3 DEF Promise!Advance, replyVars

LEMMA AnswerMaps ==
    ASSUME TypeOK, NEW r \in Requests, NEW ok \in BOOLEAN, Reply(r, ok), replies[r] = 0,
           UNCHANGED <<ledgerVars, poolVars>>
    PROVE  Promise!Answer(r, IF ok THEN "yes" ELSE "no")
<1>1. replies' = [replies EXCEPT ![r] = 1]
  BY DEF TypeOK, Reply
<1>2. {t \in Txs : Gone(t)'} = {t \in Txs : Gone(t)}
  BY DEF Gone, NonceUsed, Expired, NoncesOf, TxsOf, ledgerVars
<1> QED
  BY <1>1, <1>2 DEF Promise!Answer, Reply, poolVars

LEMMA StepPromised ==
    ASSUME PromiseInv, PromiseInv', [Next]_vars, NEW r \in Requests, Step(r)
    PROVE  Promise!Next
<1>a. /\ TypeOK /\ RestInv /\ CountInv /\ SafeInv /\ LocalInv /\ AskInv
      /\ TypeOK' /\ SafeInv' /\ FillInv' /\ AskInv'
  BY DEF PromiseInv
<1>1. CASE UNCHANGED replyVars
  BY <1>a, <1>1, AdvanceMaps DEF Promise!Next
<1>2. ASSUME NEW ok \in BOOLEAN, Reply(r, ok), UNCHANGED poolVars,
             ok /\ ~Verifies(r) => TxsIn[r[1]] \subseteq m_txsTable
      PROVE  Promise!Next
  <2> DEFINE p == r[1]
             verdict == IF ok THEN "yes" ELSE "no"
  <2>1. /\ p \in Proposals /\ TxsIn[p] \subseteq Txs
        /\ r = <<p, "verify">> \/ r = <<p, "fill">>
        /\ Verifies(r) <=> r = <<p, "verify">>
    BY RequestTyped DEF Requests, Verifies
  <2>2. UNCHANGED ledgerVars
    BY <1>a, StepFrame
  <2>3. Promise!Answer(r, verdict) /\ outcome'[r] = verdict /\ req'[r].phase # "idle"
    BY <1>a, <1>2, <2>2, ReplyIsFirst, AnswerMaps DEF Reply, TypeOK
  <2>4. \A t \in Txs : Gone(t)' => Gone(t)
    BY <2>2 DEF Gone, NonceUsed, Expired, NoncesOf, TxsOf, ledgerVars
  <2>5. CASE Verifies(r)
    <3>1. CASE ok
      <4>1. \A t \in TxsIn[p] : t \in m_txsTable' \/ Gone(t)'
        BY <1>a, <2>3, <2>5, <3>1 DEF SafeInv, Safe, Verifies
      <4>2. TxsIn[p] \subseteq m_txsTable \cup {t \in Txs : Gone(t)}
        BY <1>2, <2>1, <2>4, <4>1 DEF poolVars
      <4>3. Promise!Verify(p)
        BY <2>1, <2>3, <2>5, <3>1, <4>2 DEF Promise!Verify
      <4> QED
        BY <2>1, <4>3 DEF Promise!Next
    <3>2. CASE ~ok
      BY <2>1, <2>3, <2>5, <3>2 DEF Promise!Verify, Promise!Next
    <3> QED
      BY <3>1, <3>2
  <2>6. CASE ~Verifies(r)
    <3>1. outcome[<<p, "verify">>] = "yes"
      <4>1. outcome'[<<p, "verify">>] = "yes"
        BY <1>a, <2>3, <2>6 DEF AskInv, Verifies
      <4>2. <<p, "verify">> \in Requests /\ <<p, "verify">> # r
        BY <2>1, <2>6 DEF Requests
      <4> QED
        BY <1>a, <4>1, <4>2, StepOther
    <3>2. CASE ok
      <4>1. Promise!Fill(p)
        BY <1>2, <2>1, <2>3, <2>6, <3>1, <3>2 DEF Promise!Fill
      <4> QED
        BY <2>1, <4>1 DEF Promise!Next
    <3>3. CASE ~ok
      <4>1. \E t \in TxsIn[p] : Gone(t)'
        BY <1>a, <2>3, <2>6, <3>3 DEF FillInv, Verifies
      <4>2. TxsIn[p] \cap {t \in Txs : Gone(t)} # {}
        BY <2>1, <2>4, <4>1
      <4>3. Promise!Fill(p)
        BY <2>1, <2>3, <2>6, <3>1, <3>3, <4>2 DEF Promise!Fill
      <4> QED
        BY <2>1, <4>3 DEF Promise!Next
    <3> QED
      BY <3>2, <3>3
  <2> QED
    BY <2>5, <2>6
<1> QED
  BY <1>a, <1>1, <1>2, StepAnswers DEF AnswerEffect

LEMMA PromiseStep ==
    PromiseInv /\ PromiseInv' /\ [Next]_vars => [Promise!Next]_(Promise!vars)
<1> SUFFICES ASSUME PromiseInv, PromiseInv', [Next]_vars PROVE Promise!Next
  OBVIOUS
<1>1. CASE \E r \in Requests : Step(r)
  BY <1>1, StepPromised
<1>2. CASE UNCHANGED replyVars
  BY <1>2, AdvanceMaps DEF PromiseInv, Promise!Next
<1> QED
  BY <1>1, <1>2, NextSplits, MeanwhileFrame DEF vars

\* KeepsPromise: every step of the requests, the pool and the chain is one that
\* ProposalPromise allows, so that consensus can rely on what it is told.
THEOREM KeepsPromiseHolds ==
    ASSUME LimitsInReach
    PROVE  Spec => KeepsPromise
<1>1. Init => PromiseInv
  BY InitTyped, InitSettled DEF Init, PromiseInv, RestInv, CountInv, SafeInv, FillInv,
                               LocalInv, AskInv
<1>2. Init => Promise!Init
  BY DEF Init, Promise!Init, Requests, Promise!Requests
<1>3. PromiseInv /\ [Next]_vars => PromiseInv'
  BY PromiseInvStep
<1> QED
  BY <1>1, <1>2, <1>3, PromiseStep, PTL DEF Spec, KeepsPromise, Promise!Spec
=============================================================================
