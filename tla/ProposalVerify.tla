--------------------------- MODULE ProposalVerify ---------------------------
(***************************************************************************)
(* How a node verifies the proposal of another node and later fills the    *)
(* block: TxPool::asyncVerifyBlock and asyncFillBlock with                 *)
(* TransactionSync::requestMissedTxs.  A request looks its transactions up *)
(* in the pool, asks the local ledger for those it misses, imports what it *)
(* gets, asks the proposer for the rest, imports that, and replies to      *)
(* consensus.  Between these steps the pool and the chain change.          *)
(*                                                                         *)
(* A call of the storage is one action here; what happens inside the       *)
(* calls is the subject of MemoryStorage.  The result of a block is        *)
(* applied when the block commits, and the chain stays within the window   *)
(* of the nonce checker.                                                   *)
(***************************************************************************)
EXTENDS Ledger

CONSTANTS
    Proposals,   \* the proposals of other nodes, by batch hash
    TxsIn,       \* TxsIn[p]: the transactions of proposal p
    Unsealed,    \* a transaction that is not sealed
    NoBatch,     \* the zero hash: sealed by this node's sealer
    Forged,      \* the transactions whose signature does not verify
    Others       \* bound: what a proposer may send beside what it was asked for

ASSUME VerifyAssumption ==
    /\ TxsIn \in [Proposals -> SUBSET Txs]
    /\ Unsealed \notin Proposals /\ NoBatch \notin Proposals /\ Unsealed # NoBatch
    /\ Forged \subseteq Txs /\ Others \subseteq Txs
    /\ MaxLag = 1 /\ MaxBlock <= BlockLimit

Requests == Proposals \X {"verify", "fill"}

VARIABLES
    m_txsTable,    \* the pooled transactions
    owner,         \* owner[t]: Unsealed, or the batch hash t is sealed with
    m_invalidTxs,  \* pooled transactions queued to be dropped
    precommit,     \* inserted transactions on their way to the ledger's storage
    stored,        \* the transactions the ledger's storage holds
    req,           \* req[r]: the progress of request r
    outcome,       \* outcome[r]: what consensus was told
    replies        \* replies[r]: how often it was told

poolVars == <<m_txsTable, owner, m_invalidTxs, precommit>>
replyVars == <<outcome, replies>>
vars == <<ledgerVars, poolVars, stored, req, replyVars>>

ReqPhases == {"idle", "ledger", "importing", "peer", "leftover", "again", "done"}

TypeOK ==
    /\ height \in 0 .. MaxBlock
    /\ chain \in [Blocks -> SUBSET Txs]
    /\ m_txsTable \subseteq Txs
    /\ owner \in [Txs -> Proposals \cup {Unsealed, NoBatch}]
    /\ \A t \in Txs \ m_txsTable : owner[t] = Unsealed
    /\ m_invalidTxs \subseteq m_txsTable
    /\ precommit \subseteq Txs
    /\ stored \subseteq Txs
    /\ req \in [Requests -> [phase : ReqPhases, source : {"ledger", "peer"},
                             missed : SUBSET Txs, rest : SUBSET Txs,
                             found : SUBSET Txs, todo : SUBSET Txs]]
    /\ outcome \in [Requests -> {"none", "yes", "no"}]
    /\ replies \in [Requests -> Nat]

Init ==
    /\ LedgerInit
    /\ m_txsTable = {}
    /\ owner = [t \in Txs |-> Unsealed]
    /\ m_invalidTxs = {}
    /\ precommit = {}
    /\ stored = {}
    /\ req = [r \in Requests |-> [phase |-> "idle", source |-> "ledger", missed |-> {},
                                  rest |-> {}, found |-> {}, todo |-> {}]]
    /\ outcome = [r \in Requests |-> "none"]
    /\ replies = [r \in Requests |-> 0]
-----------------------------------------------------------------------------
(***************************************************************************)
(* The pool, as far as verification can tell.                              *)
(***************************************************************************)
\* NonceCheckFail: the chain has the nonce.
NonceUsed(t) == NonceOf[t] \in NoncesOf(TxsOf(1 .. height))

\* BlockLimitCheckFail: the limit of t was reached, or lies too far ahead.
Expired(t) == LimitOf[t] <= height
LimitFails(t) == Expired(t) \/ LimitOf[t] > height + BlockLimit

Remove(R) ==
    /\ m_txsTable' = m_txsTable \ R
    /\ owner' = [t \in Txs |-> IF t \in R THEN Unsealed ELSE owner[t]]

\* verifyAndSubmitTransaction can take t.
Admissible(t) ==
    /\ t \notin m_txsTable \cup Forged
    /\ ~NonceUsed(t)
    /\ ~LimitFails(t)

(***************************************************************************)
(* verifyAndSubmitTransaction: it may refuse t although it is admissible,  *)
(* when the pool is full or another pooled transaction reserves the nonce. *)
(***************************************************************************)
Submit(t) ==
    \/ /\ Admissible(t)
       /\ m_txsTable' = m_txsTable \cup {t}
       /\ precommit' = precommit \cup {t}
       /\ UNCHANGED <<owner, m_invalidTxs>>
    \/ UNCHANGED poolVars

\* enforceSubmitTransaction takes t for proposal p: the chain does not have
\* its nonce, and no other proposal has it.
Enforceable(t, p) ==
    /\ ~NonceUsed(t)
    /\ t \notin m_txsTable \/ owner[t] \in {Unsealed, NoBatch, p}

\* enforceSubmitTransaction, when it takes t.
Enforce(t, p) ==
    /\ m_txsTable' = m_txsTable \cup {t}
    /\ owner' = [owner EXCEPT ![t] = p]
    /\ precommit' = IF t \in m_txsTable THEN precommit ELSE precommit \cup {t}
    /\ UNCHANGED m_invalidTxs
-----------------------------------------------------------------------------
(***************************************************************************)
(* The steps of a request.  The definitions called variants are slips that *)
(* the properties tell from the code.                                      *)
(***************************************************************************)
Verifies(r) == r[2] = "verify"

Set(r, s) == req' = [req EXCEPT ![r] = s]

\* Consensus is called back.
Reply(r, ok) ==
    /\ outcome' = [outcome EXCEPT ![r] = IF ok THEN "yes" ELSE "no"]
    /\ replies' = [replies EXCEPT ![r] = @ + 1]

Finish(r, ok) ==
    /\ Set(r, [req[r] EXCEPT !.phase = "done"])
    /\ Reply(r, ok)

(***************************************************************************)
(* asyncVerifyBlock looks for what the pool misses (batchVerifyProposal);  *)
(* fillBlock fetches what it has (fetchTxs).  If nothing is missed, that   *)
(* is the answer; else the local ledger is asked.  Consensus has a block   *)
(* filled whose proposal was verified.                                     *)
(***************************************************************************)
Begin(r) ==
    LET m == TxsIn[r[1]] \ m_txsTable IN
    /\ req[r].phase = "idle"
    /\ ~Verifies(r) => outcome[<<r[1], "verify">>] = "yes"
    /\ \/ m = {} /\ Finish(r, TRUE)
       \/ /\ m # {}
          /\ Set(r, [req[r] EXCEPT !.phase = "ledger", !.missed = m, !.rest = m])
          /\ UNCHANGED replyVars
    /\ UNCHANGED <<ledgerVars, poolVars, stored>>

\* Transactions are still missed after the ledger's answer: a verification
\* asks the proposer, a fill has no one to ask.
AskFurther(r, s) ==
    \/ Verifies(r) /\ Set(r, [s EXCEPT !.phase = "peer"]) /\ UNCHANGED replyVars
    \/ ~Verifies(r) /\ Finish(r, FALSE)

\* Not all transactions of an answer could be imported for the proposal.
ImportFails(r) ==
    \/ req[r].source = "ledger" /\ AskFurther(r, req[r])
    \/ req[r].source = "peer" /\ Finish(r, FALSE)

LedgerFails(r) ==
    /\ req[r].phase = "ledger"
    /\ AskFurther(r, req[r])
    /\ UNCHANGED <<ledgerVars, poolVars, stored>>

\* The ledger answers with what it stores of the transactions.
LedgerAnswers(r) ==
    LET F == stored \cap req[r].rest IN
    /\ req[r].phase = "ledger"
    /\ Set(r, [req[r] EXCEPT !.phase = "importing", !.source = "ledger",
                             !.found = F, !.todo = F])
    /\ UNCHANGED <<ledgerVars, poolVars, stored, replyVars>>

\* importDownloadedTxs without a proposal ignores what the storage answers.
ImportFreely(r, t) ==
    /\ req[r].phase = "leftover" \/ (req[r].phase = "importing" /\ ~Verifies(r))
    /\ t \in req[r].todo
    /\ Submit(t)
    /\ Set(r, [req[r] EXCEPT !.todo = @ \ {t}])
    /\ UNCHANGED <<ledgerVars, stored, replyVars>>

\* importDownloadedTxs with a proposal stops at the first failure.  What was
\* imported before stays.
ImportForProposal(r, t) ==
    /\ req[r].phase = "importing" /\ Verifies(r)
    /\ t \in req[r].todo
    /\ \/ /\ Enforceable(t, r[1])
          /\ Enforce(t, r[1])
          /\ Set(r, [req[r] EXCEPT !.todo = @ \ {t}])
          /\ UNCHANGED replyVars
       \/ /\ ~Enforceable(t, r[1])
          /\ ImportFails(r)
          /\ UNCHANGED poolVars
    /\ UNCHANGED <<ledgerVars, stored>>

\* Variant: what the ledger has is enough.
FinishLedgerImportEarly(r) ==
    /\ req[r].phase = "importing" /\ req[r].source = "ledger" /\ req[r].todo = {}
    /\ Finish(r, TRUE)
    /\ UNCHANGED <<ledgerVars, poolVars, stored>>

\* onGetMissedTxsFromLedger, once all is imported: is anything still missed?
\* A block that is being filled is fetched again.
FinishLedgerImport(r) ==
    LET s == [req[r] EXCEPT !.rest = @ \ req[r].found] IN
    /\ req[r].phase = "importing" /\ req[r].source = "ledger" /\ req[r].todo = {}
    /\ \/ s.rest # {} /\ AskFurther(r, s)
       \/ s.rest = {} /\ Verifies(r) /\ Finish(r, TRUE)
       \/ s.rest = {} /\ ~Verifies(r) /\ Set(r, [s EXCEPT !.phase = "again"])
          /\ UNCHANGED replyVars
    /\ UNCHANGED <<ledgerVars, poolVars, stored>>

\* Variant: it is not looked whether all were fetched.
FillAgainBlindly(r) ==
    /\ req[r].phase = "again"
    /\ Finish(r, TRUE)
    /\ UNCHANGED <<ledgerVars, poolVars, stored>>

\* fillBlock a second time, without asking the ledger.
FillAgain(r) ==
    /\ req[r].phase = "again"
    /\ Finish(r, TxsIn[r[1]] \subseteq m_txsTable)
    /\ UNCHANGED <<ledgerVars, poolVars, stored>>

\* Variant: the error is logged, and no one is told.
PeerFailsSilently(r) ==
    /\ req[r].phase = "peer"
    /\ Set(r, [req[r] EXCEPT !.phase = "done"])
    /\ UNCHANGED <<ledgerVars, poolVars, stored, replyVars>>

\* The front service reports an error or a timeout, or the answer is of
\* another type.
PeerFails(r) ==
    /\ req[r].phase = "peer"
    /\ Finish(r, FALSE)
    /\ UNCHANGED <<ledgerVars, poolVars, stored>>

\* asyncVerifyBlock's wrapper: what the pool missed, it may have by now.
Recheck(r) == req[r].missed \subseteq m_txsTable

\* verifyFetchedTxs: the answer has another number of transactions than asked
\* for.  What it has is imported, but only after the reply; what it has that was
\* not asked for is imported like any other that arrives.
PeerAnswersFewer(r) ==
    /\ req[r].phase = "peer"
    /\ Reply(r, Recheck(r))
    /\ \E R \in SUBSET req[r].rest :
         Set(r, [req[r] EXCEPT !.phase = "leftover", !.todo = R])
    /\ UNCHANGED <<ledgerVars, poolVars, stored>>

\* The transactions of an answer that has as many as were asked for: these or
\* others, some perhaps more than once.
SameCount(r) ==
    {R \in SUBSET (req[r].rest \cup Others) \ {{}} : Cardinality(R) <= Cardinality(req[r].rest)}

ImportAnswer(r, R) ==
    Set(r, [req[r] EXCEPT !.phase = "importing", !.source = "peer", !.found = R, !.todo = R])

\* Variant: signatures are not verified.
PeerAnswersUnverified(r) ==
    /\ req[r].phase = "peer"
    /\ \E R \in SameCount(r) : ImportAnswer(r, R)
    /\ UNCHANGED <<ledgerVars, poolVars, stored, replyVars>>

\* verifyFetchedTxs: as many transactions have come as were asked for, and are
\* imported for the proposal, whatever they are.  Their signatures are verified
\* first, unless they are pooled.
PeerAnswersAll(r) ==
    /\ req[r].phase = "peer"
    /\ \E R \in SameCount(r) :
         \/ Forged \cap R \subseteq m_txsTable /\ ImportAnswer(r, R) /\ UNCHANGED replyVars
         \/ ~(Forged \cap R \subseteq m_txsTable) /\ Finish(r, FALSE)
    /\ UNCHANGED <<ledgerVars, poolVars, stored>>

\* Variant: the hashes are not compared.
FinishPeerImportUnchecked(r) ==
    /\ req[r].phase = "importing" /\ req[r].source = "peer" /\ req[r].todo = {}
    /\ Finish(r, TRUE)
    /\ UNCHANGED <<ledgerVars, poolVars, stored>>

\* Only now are the hashes compared with those that were asked for, one by one:
\* other transactions, or the same in another order, are InconsistentTransactions.
\* They stay in the pool, sealed for the proposal.
FinishPeerImport(r) ==
    /\ req[r].phase = "importing" /\ req[r].source = "peer" /\ req[r].todo = {}
    /\ \/ req[r].found = req[r].rest /\ Finish(r, TRUE)
       \/ Finish(r, FALSE)
    /\ UNCHANGED <<ledgerVars, poolVars, stored>>

\* Variant: verification goes on after the reply.
FinishLeftoversTwice(r) ==
    /\ req[r].phase = "leftover" /\ req[r].todo = {}
    /\ Finish(r, TRUE)
    /\ UNCHANGED <<ledgerVars, poolVars, stored>>

FinishLeftovers(r) ==
    /\ req[r].phase = "leftover" /\ req[r].todo = {}
    /\ Set(r, [req[r] EXCEPT !.phase = "done"])
    /\ UNCHANGED <<ledgerVars, poolVars, stored, replyVars>>

Step(r) ==
    \/ Begin(r)
    \/ LedgerFails(r)
    \/ LedgerAnswers(r)
    \/ \E t \in Txs : ImportFreely(r, t) \/ ImportForProposal(r, t)
    \/ FinishLedgerImport(r)
    \/ FillAgain(r)
    \/ PeerFails(r)
    \/ PeerAnswersFewer(r)
    \/ PeerAnswersAll(r)
    \/ FinishPeerImport(r)
    \/ FinishLeftovers(r)
-----------------------------------------------------------------------------
(***************************************************************************)
(* What happens to the pool meanwhile.                                     *)
(***************************************************************************)
\* A client or another node submits t.
Arrive(t) ==
    /\ Submit(t)
    /\ UNCHANGED <<ledgerVars, stored, req, replyVars>>

\* preCommitTransaction stores an inserted transaction, or gives up.
PreCommit(t) ==
    /\ t \in precommit
    /\ precommit' = precommit \ {t}
    /\ stored' \in {stored, stored \cup {t}}
    /\ UNCHANGED <<ledgerVars, m_txsTable, owner, m_invalidTxs, req, replyVars>>

\* What batchFetchTxs queues to be dropped.
Droppable(t) == NonceUsed(t) \/ (LimitFails(t) /\ owner[t] = Unsealed)

\* batchFetchTxs comes to t: it is to be dropped, or sealed, or left alone.
Visit(t) ==
    /\ t \in m_txsTable \ m_invalidTxs
    /\ \/ /\ Droppable(t)
          /\ m_invalidTxs' = m_invalidTxs \cup {t}
          /\ UNCHANGED owner
       \/ /\ ~Droppable(t) /\ owner[t] = Unsealed
          /\ owner' = [owner EXCEPT ![t] = NoBatch]
          /\ UNCHANGED m_invalidTxs
    /\ UNCHANGED <<ledgerVars, m_txsTable, precommit, stored, req, replyVars>>

\* removeInvalidTxs.
Cleanup ==
    /\ m_invalidTxs # {}
    /\ Remove(m_invalidTxs)
    /\ m_invalidTxs' = {}
    /\ UNCHANGED <<ledgerVars, precommit, stored, req, replyVars>>

\* Variant: transactions that the pool misses are marked too.
MarkMissed(p, flag) ==
    LET M == {t \in TxsIn[p] : flag \/ owner[t] \in {NoBatch, p}} IN
    /\ owner' = [t \in Txs |-> IF t \in M THEN IF flag THEN p ELSE Unsealed ELSE owner[t]]
    /\ UNCHANGED <<ledgerVars, m_txsTable, m_invalidTxs, precommit, stored, req, replyVars>>

\* batchMarkTxs for proposal p.
Mark(p, flag) ==
    LET M == {t \in TxsIn[p] \cap m_txsTable : flag \/ owner[t] \in {NoBatch, p}} IN
    /\ owner' = [t \in Txs |-> IF t \in M THEN IF flag THEN p ELSE Unsealed ELSE owner[t]]
    /\ UNCHANGED <<ledgerVars, m_txsTable, m_invalidTxs, precommit, stored, req, replyVars>>

\* batchMarkAllTxs(false).
Reset ==
    /\ owner' = [t \in Txs |-> Unsealed]
    /\ UNCHANGED <<ledgerVars, m_txsTable, m_invalidTxs, precommit, stored, req, replyVars>>

\* A block commits, and batchRemove takes its transactions out of the pool.
Commit(S) ==
    /\ S \cap Forged = {}
    /\ CommitBlock(S)
    /\ Remove(S)
    /\ m_invalidTxs' = m_invalidTxs \ S
    /\ stored' = stored \cup S
    /\ UNCHANGED <<precommit, req, replyVars>>

Next ==
    \/ \E r \in Requests : Step(r)
    \/ \E t \in Txs : Arrive(t) \/ PreCommit(t) \/ Visit(t)
    \/ Cleanup
    \/ \E p \in Proposals, flag \in BOOLEAN : Mark(p, flag)
    \/ Reset
    \/ \E S \in SUBSET Txs : Commit(S)

Spec == Init /\ [][Next]_vars

\* The ledger calls back, the front service calls back at the latest after its
\* timeout, and the threads that import run.
FairSpec == Spec /\ \A r \in Requests : WF_vars(req[r].phase # "idle" /\ Step(r))
-----------------------------------------------------------------------------
(***************************************************************************)
(* Properties.                                                             *)
(***************************************************************************)
\* t may leave the pool, or be refused: the chain has its nonce, or its block
\* limit was reached.
Gone(t) == NonceUsed(t) \/ Expired(t)

\* Consensus is called back at most once for each request, on each of the
\* paths through the pool, the ledger, the proposer and the second look.
OneReply == \A r \in Requests : replies[r] <= 1

\* A proposal is verified only if the pool has all its transactions, although
\* the pool's were looked up long before the missed ones came: since then a
\* transaction can only have left for a reason that holds for every node.
VerifiedIsPooled ==
    \A p \in Proposals : outcome[<<p, "verify">>] = "yes" =>
        \A t \in TxsIn[p] : t \in m_txsTable \/ Gone(t)

\* The block of a verified proposal can be filled, unless the chain has the
\* nonce of one of its transactions or the limit of one was reached.
VerifiedIsFilled ==
    \A p \in Proposals : outcome[<<p, "fill">>] = "no" =>
        \E t \in TxsIn[p] : Gone(t)

\* No transaction whose signature is wrong enters the pool, and no proposal
\* with one is verified, although enforceSubmitTransaction verifies nothing
\* and importDownloadedTxs skips what the pool has.
VerifiedIsSigned ==
    /\ m_txsTable \cap Forged = {}
    /\ \A p \in Proposals : outcome[<<p, "verify">>] = "yes" => TxsIn[p] \cap Forged = {}

Promise == INSTANCE ProposalPromise
               WITH pooled <- m_txsTable, gone <- {t \in Txs : Gone(t)},
                    told <- outcome, calls <- replies

\* The pool keeps its promise to consensus, step by step: a block is filled
\* only after its proposal was verified and only with all of its transactions,
\* although each request mixes what it looked up earlier with what the ledger
\* and the proposer send, while submissions, blocks and the clean-up change the
\* pool; and nothing is dropped that another node may still ask for.
KeepsPromise == Promise!Spec

\* Consensus is called back for every request: the ledger and the front service
\* always call back, and each path ends in a reply.  A request that began never
\* is idle again, so that no request is left out of the moments at which all
\* that began are answered.
EventuallyAnswered ==
    []<>(\A r \in Requests : req[r].phase # "idle" => replies[r] = 1)
=============================================================================
