# TLA+ specifications of bcos-txpool

bcos-txpool is the transaction pool of a FISCO-BCOS node: it takes transactions
from clients and from other nodes, hands them to the sealer, verifies and fills
the proposals of consensus, and forgets what has been committed.  The modules
here model its core in TLA+; TLC checks them on small instances and TLAPS
proves the properties that matter most for all of them.

Paths are relative to `src/bcos-txpool/`.

## 1. The system

### Components

| Component | State | Operations | Modelled by |
|---|---|---|---|
| `txpool/validator/LedgerNonceChecker` | `m_blockNumber`, `m_nonceCache`, `m_blockNonceCache`: the nonces of the last `m_blockLimit` blocks | constructor (`initNonceCache`), `checkNonce`, `checkBlockLimit`, `batchInsert` | `LedgerNonceChecker`, `NonceReplay` |
| `txpool/validator/TxPoolNonceChecker` | the nonces reserved by pooled transactions | `checkNonce` (looks up and reserves), `batchInsert`, `batchRemove` | `LedgerNonceChecker` (as base class), `MemoryStorage` |
| `txpool/validator/TxValidator` | none | `verify`, `submittedToChain` | `MemoryStorage` |
| `txpool/storage/MemoryStorage` | `m_txsTable` with the marks and callbacks of the transaction objects, `m_sealedTxsSize`, `m_invalidTxs`, `m_invalidNonces`, `m_missedTxs` | `submitTransaction`, `enforceSubmitTransaction`, `insert`, `batchFetchTxs`, `removeInvalidTxs`, `batchMarkTxs`, `batchMarkAllTxs`, `batchRemove`, look-ups | `MemoryStorage`; flags, batch hashes and the counter, with the loops that change them, in `SealRaces`; the look-ups in `ProposalVerify`, `m_missedTxs` in `TxsSync` |
| Verification of proposals: `TxPool::asyncVerifyBlock`, `asyncFillBlock`, `TransactionSync::requestMissedTxs` and below | the callbacks' captured state | pool look-up, query of the ledger, import, query of the proposer, second look, reply | `ProposalVerify` |
| Gossip: the rest of `sync/TransactionSync` | download buffer, `m_newTransactions`, which nodes know a transaction | `executeWorker`, `onRecvSyncMessage`, `maintainDownloadingTransactions`, `maintainTransactions`, `onPeerTxsStatus`, `onReceiveTxsRequest` | `TxsSync` |
| `sync/TransactionSyncConfig` | the consensus nodes, the connected nodes, `forwardPercent` | setters | constants of `TxsSync` |
| `TxPool` | workers, configuration | the interface towards client, sealer, consensus and front service; `init` | its calls are the actions of the modules above |
| `TxPoolConfig`, `TxPoolFactory`, message interfaces | configuration | construction | not modelled |

### How they interact

- A client's transaction goes through a worker thread to
  `submitTransaction`; a transaction of another node arrives in the download
  buffer and is imported by the sync thread through the same function, without
  a callback.  Both pass the size check, the look-up in the table, the nonces of
  the chain, the block limit, the signature and the pool's nonces, and are then
  inserted.  Each step takes and releases its own lock.
- The sealer calls `asyncSealTxs` when the pool has told it of unsealed
  transactions.  `batchFetchTxs` marks what it hands out and queues what is on
  the chain or past its block limit; `m_notifier` drops that later.
- Consensus marks and unmarks the transactions of a proposal, or resets all
  marks, and delivers the result of a committed block to `batchRemove`, which
  removes the block's transactions, answers their clients, and updates both
  nonce checkers, one after the other.
- For a proposal of another node consensus calls `asyncVerifyBlock`.  What the
  pool misses is fetched from the local ledger (where the pool stores
  transactions ahead of their commit) and then from the proposer, and imported
  with `enforceSubmitTransaction`, which checks only the chain's nonces.
- Consensus, the ledger, the front service and the sealer live in other
  repositories.  They appear as actions that may happen at any time the
  interface allows.

### What is hard, and what makes it correct

*LedgerNonceChecker.*  A transaction may be accepted again once its nonce is
forgotten, so forgetting must meet the block limit exactly, although block
results race, `m_blockNumber` may step back, a check reads nonces and number at
different moments, and a restart rebuilds the cache.  Correct means: no
transaction of an applied block is accepted (`NoReplay`), the cache is exact
(`CacheExact`) and bounded (`CacheBounded`).

*MemoryStorage.*  Most look-ups and their updates are in different critical
sections, or in one that is held for reading only.  Correct means: a client is
answered once and not forgotten (`OneAnswer`, `NoSilentLoss`), nonces are given
back (`NonceNotLeaked`), the limit is exceeded only by what runs at the same
time (`PoolBound`), the sealer does not take what a block has brought, even if
an import has brought it back (`NeverSealsCommitted`), and nothing leaves
without a cause (`LeavesOnlyForCause`).  Seen by the clients all this is one
promise (`KeepsPromise`): one answer, at once or when the transaction has a
reason to leave.  The loops that seal and mark run together under a lock held
for reading, and together with inserts: flags and counter agree as long as no
two threads change the same transaction (`CountsWithoutClash`).  When they do
not, or when nobody tells the sealer, a transaction may never be sealed
(`EventuallySealed`, finding 4).

*Verification.*  The proposal is looked up long before consensus is told.
Correct means: one reply on each of many paths (`OneReply`,
`EventuallyAnswered`), and a "yes" that is still true when it is given
(`VerifiedIsPooled`, `VerifiedIsFilled`, `VerifiedIsSigned`).  Seen by consensus
it is again one promise (`KeepsPromise`): every answer is true at the moment it
is given, a block is filled only after its proposal was verified, and nothing is
dropped meanwhile that another node may still pool.  A proposer may send other
transactions than those asked for; they are imported all the same, and only the
comparison of the hashes afterwards makes a "yes" speak of the right ones.

*Gossip.*  A node that lacks a transaction must be told of it although messages
are lost, hashes already requested are not requested again, and the flag that
starts forwarding is cleared without a lock.  On each node several threads pool
transactions, step by step, while another applies blocks, step by step: an
object may be replaced while it is being sent, and a transaction may be pooled
again after its block.  Correct means: a transaction reaches every consensus
node (`ReachesAll`), what was received is pooled (`ReceivedIsImported`), a hash
is not taken for being fetched once its transaction is there
(`NotMissedWhilePooled`), it is fetched from one node at a time (`OneFetch`),
nobody is taken to know what he was not told (`KnownIsTold`), and a node pools
only what a client or a node that has it brought there (`SpreadsByGossip`).

## 2. The modules

```
Ledger                  the chain and the assumptions about consensus
|- LedgerNonceChecker   the checker's state and the functions on it
|  |- NonceReplay       the checker under concurrency and restarts
|  |  |- MCNonceReplay, NonceReplayProofs
|  |  '- (implements)   ReplayGuard, what the checker promises
|  '- MemoryStorage     the storage, using the checker
|     |- MCStorage, MemoryStorageProofs, then MemoryStorageCounts,
|     |  MemoryStorageChain, MemoryStoragePromise on top of it
|     '- (implements)   ClientPromise, what the storage promises clients
'- ProposalVerify       verification and filling, over an abstract pool
   |- MCProposalVerify, ProposalVerifyProofs
   '- (implements)      ProposalPromise, what the pool promises consensus
SealRaces               the loops that seal and mark, access by access
'- MCSealRaces, SealRacesProofs
TxsSync                 gossip between the nodes of a group
|- MCTxsSync, TxsSyncProofs
'- (implements)         Gossip, how transactions may spread
```

**Ledger.**  `height` and `chain`.  A transaction is an identity with a nonce
and a block limit.  `CommitBlock` states what consensus may commit
(`Eligible`): transactions that are not on the chain, within the block limit,
and with nonces that are not among the chain's recent ones.  Honest nodes keep
that when they import a proposal (`enforceSubmitTransaction` refuses a nonce
known from the chain); that they refuse early enough is an assumption.  Nothing
is assumed about the nonces *within* one block, because the pool never compares
them when it imports for a proposal.  Results are delivered with the nonces of
their block.

**LedgerNonceChecker, NonceReplay.**  `batchInsert` is four actions:
`CheckNumber` and `StoreNumber` (the comparison and the store of the atomic
number), `Insert` (the nonces), `Rotate` (forgetting the oldest block, under its
lock).  `checkNonce` is two: `CheckNonce` and `CheckBlockLimit`.  `Restart` is
`TxPool::init`, enabled when the chain has at least `RestartFloor` blocks.  Up
to `MaxLag` results are outstanding at a time, in any order.  `seen` is a
history variable: the blocks applied when a check began.

**ReplayGuard.**  The abstract specification: it remembers every registered
transaction for ever and accepts none that was registered when the check began.
`ImplementsGuard` is the refinement: `registered` are the transactions of the
applied blocks.  The windows, caches and races disappear in it.

**MemoryStorage.**  Each call is a process with a `pc`.  The phases of a
submission are the sections between its locks: `CheckSize`, `CheckExist`,
`CheckLedgerNonce`, `CheckLimitAndSignature`, `CheckPoolNonce`, `ReserveNonce`,
`CheckAgain`, `Store`.  The phases `reserving` and `storing` stand for a lock
held for reading, which is why two calls may be in them together, and why
`CheckAgain` does not protect `Store`.  An import for a proposal has
`EnforceCheckNonce`, `Lookup` (holding the upgradable lock in `upgrading`),
`MarkForProposal`, then the same insert.  The sealer's loop (`batchFetchTxs`)
is a process, too: `BeginSeal` takes the lock for reading, `Visit` comes to a
pooled transaction that is not queued to be dropped, `LookUpNonce` consults the
nonces of the chain, `TestLimit` the block limit, `TestFlag` the flag, and
`EndSeal` ends the loop and hands `Cleanup` to `m_notifier`.  Calls and block
results go on between these steps.  The loop is at an object: if an insert
replaces it in the table (`sealer.replaced`), the callback that `LookUpNonce`
takes is that of the old object.  `sealer.applied` is a history field: the block
of the transaction had been applied when its nonce was looked up.  A block's
result runs through `RemoveBatch`, `AdvanceNumber`, `RegisterNonces`,
`ForgetNonces`, `ReleaseNonces`.  Its callback is `callback[t]`.  The flags, batch
hashes and the counter are not variables of this module: marks, unmarks and
resets change nothing else, and wherever the code reads a flag or a hash, both
outcomes are allowed (`Lookup`, `TestLimit`, `TestFlag`).  The module's theorems
therefore hold whatever those loops do to the flags.

**ClientPromise.**  The abstract specification of the storage as its clients see
it.  A submission is in its call, in the pool, or over; `Refuse` and `Accept`
end the call, `Settle` answers clients whose transaction has its nonce on the
chain or its limit reached, `Forget` drops them without an answer, which the
code does only when the nonce is used (finding 3), `Advance` lets the chain
grow.  In the refinement a submission is in the pool while its callback is
(`Place`); locks, phases, seals and the queue of what to drop disappear.

**SealRaces.**  Each access to the table, a flag, a batch hash or the counter is
an action.  The sealer's loop and those of consensus choose a transaction
(`Choose`, with the test of `Open`), read its flag again (`ReadSealed`), change
the counter (`Add`), the flag (`SetSealed`) and the batch hash (`SetHash`), and
go on; a reset clears flags without a look (`ClearSealed`) and ends by setting
the counter to 0 (`EndLoop`).  An import for a proposal looks up (`Lookup`), and
either upgrades its lock (`Upgrade`) or counts.  It inserts as a submission
does: insert's look-up (`CheckAgain`, and for a submission `BeginSubmit`) and its
store (`Store`) are two actions under a lock held for reading, so that a second
object may replace a first one with its flag and its hash.  A loop that is at
the transaction goes on with the old object (`job[k].tx` becomes `NoTx`, and it
reads whatever flag that object may have).  Notifications compare the counter
with the table (`Tell`) and correct it in a step of its own (`Correct`);
`sealerView` is what the sealer was told last.  `Reads` says who holds
`x_txpoolMutex` for reading; `Upgrade` and `Remove` wait for all of them.
`Remove` takes any transactions, and `Skip` lets the sealer pass over any of
`Skippable`: which ones leave or are skipped is decided in `MemoryStorage`.
`clash` records that two threads turned to the same transaction at a time, that
one stored an object over another, that a reset ran into another thread, or that
a notification corrected the counter in between; a reset that is not disturbed,
or a correction for an empty table, clears it.  `m_sealedTxsSize` wraps at
`SizeMax + 1` as a `size_t` does.  Retries of notifications that fail are left
out.

**TxsSync.**  Several nodes and the messages between them.  A node has its pool
with the marks `synced` and `known` of its objects, the download buffer, and the
threads `sync` (`executeWorker`: `TakeBuffer`, `Fetch`, `Send`, `ClearFlag`),
`requester` (`TakeStatus`, `FilterStatus`, and the buffer again), `callback`
(answers of the ledger and of other nodes) and `rpc` (`Submit`; as many
submissions at a time as `MaxCalls` allows).  A thread imports transaction by
transaction (`Import`).  Both kinds of call then go through the steps of
`verifyAndSubmitTransaction`: `Begin` (the size, the look-up in the table, the
chain's nonces and the rest of the validator in one step: what is not on the
chain when the validator looks was not there when the table was looked up),
`CheckNonce` and `Reserve` (the pool's nonces, under a lock held for reading), `CheckAgain` and `Store` (insert,
likewise; `m_onReady` raises the flag in the step of the store), and `Land`,
which erases the hash from `m_missedTxs` under another lock.  So two threads may
store the same transaction, and the second object has neither mark of the first.
If the sync thread is about to send the first, that object is kept in
`detached`, and what `Send` records of it is lost for the table.  A block takes
three steps, `Remove`, `Register` and `Release`; in between its transaction may
be pooled again.  `Send` is `broadcastTxsFromRpc` and then `forwardTxsFromP2P`;
`SelectPeers` takes the first nodes of the consensus list, as the code does.
`FilterStatus` has both loops of `filterUnknownTxs` in one step.  `AskPeer` is
the ledger's answer: what the ledger has (`InLedger`: it may store what the pool
committed ahead, and has what blocks brought) is imported, and the announcing
node is asked for the rest (`ReceiveRequest`, `ReceiveResponse`).  `Lose` drops
a message.  Imports for proposals are left to `ProposalVerify`.

**Gossip.**  The abstract specification of the group: a client submits, a node
pools what was submitted to it or what it was told of, tells consensus nodes,
but not itself, of what it has, or applies a block.  In the refinement `told` is
`sent`, whom a node announced a transaction to or sent it; messages, buffers,
requests, calls, marks and threads disappear.  It allows a told node to pool a
transaction at any later time, also after its block (the code does, between the
steps of `batchRemove`), so losses and delays are stutters, and it allows no
node to pool what only a request, a `m_missedTxs` entry, a ledger's answer or a
stale `known` mark speaks of.

**ProposalVerify.**  A request is a proposal with `verify` or `fill`; its
progress is a record.  `Begin` is the task that `asyncVerifyBlock` enqueues, or
`fillBlock`; `LedgerAnswers`, `ImportForProposal`, `ImportFreely`,
`FinishLedgerImport` are `onGetMissedTxsFromLedger`; `AskFurther` is the choice
between asking the proposer and giving up; `PeerFails`, `PeerAnswersFewer`,
`PeerAnswersAll`, `FinishPeerImport`, `FinishLeftovers` are the paths of
`verifyFetchedTxs`: an answer with as many transactions as were asked for is
imported for the proposal (`SameCount` says which ones can come: these, others,
or some of them twice), and then its hashes are compared one by one with those
asked for (`FinishPeerImport`; a "no" is possible even for the right ones, in
another order).  What does not belong stays in the pool, sealed for the
proposal; `Recheck` is the second look of the callback's wrapper;
`FillAgain` is the second `fillBlock`.  Consensus asks for a fill only after it
was told that the proposal is verified.  Between these steps the pool changes:
`Arrive`, `PreCommit`, `Visit`, `Cleanup`, `Mark`, `Reset`, `Commit`.  Here a
call of the storage is one action, `sealed` and `batchHash` are one variable
`owner`, and refusals by the pool's limit or reserved nonces are a free choice
in `Submit`; what happens inside these calls is the subject of `MemoryStorage`.
What a proposer may send beside what it was asked for is `Others`.  An answer
with another number of transactions is refused first and imported later like
any that arrives (`PeerAnswersFewer`, and `Arrive` for what was not asked for);
a wrong type of message is among the failures of `PeerFails`.

**ProposalPromise.**  The abstract specification of verification and filling as
consensus sees them: a pool that takes transactions freely and drops only those
that are `gone`, and one answer for each request.  "Verified" needs every
transaction pooled or gone, "filled" needs the earlier "verified" and every
transaction pooled, and a refused fill needs one that is gone.  In the
refinement `gone` are the transactions whose nonce is on the chain or whose
limit is reached (`Gone`); look-ups, queries, imports and second looks
disappear.

Definitions whose comment begins with "Variant" are plausible slips.  No
specification uses them; each shows that a property tells it from the code.

## 3. The runs

| Run | Properties | What it shows | Distinct states |
|---|---|---|---|
| `replay` (`MCNonceReplay.cfg`) | `TypeOK`, `NoReplay`, `CacheExact`, `CacheBounded`, `ImplementsGuard` | the nonce window under racing results and restarts | 300,061 |
| `storage_submit` (`MCStorageSubmit.cfg`) | `TypeOK`, `OneAnswer`, `NoSilentLoss`, `PoolBound`, `NonceNotLeaked`, `KeepsPromise` | two clients and a peer with three transactions, two of one nonce, a pool of one, the sealer's loop, clean-ups, two blocks; the storage implements `ClientPromise` | 1,225,630 |
| `storage_consensus` (`MCStorageConsensus.cfg`) | `TypeOK`, `OneAnswer`, `NeverSealsCommitted`, `LeavesOnlyForCause` | a client against imports for two rival proposals, the sealer's loop, two blocks | 283,146 |
| `seal_races` (`MCSealRaces.cfg`) | `TypeOK`, `CountsWithoutClash` | sealer, marks, unmarks, resets, submissions, imports and removals, access by access | 1,717,561 |
| `verify` (`MCProposalVerify.cfg`) | `TypeOK`, `OneReply`, `VerifiedIsPooled`, `VerifiedIsFilled`, `VerifiedIsSigned`, `EventuallyAnswered`, `KeepsPromise` | a proposal with two transactions of one nonce, and one with a wrong signature, and a proposer that may send the wrong ones; verification implements `ProposalPromise` | 533,861 |
| `sync_live` (`MCTxsSyncLive.cfg`) | `TypeOK`, `NotMissedWhilePooled`, `SpreadsByGossip`, `ReceivedIsImported`, `ReachesAll` | a transaction spreads over three nodes while a message is lost and a block is applied, and only as `Gossip` allows | 227,997 |
| `sync_fetch` (`MCTxsSyncFetch.cfg`) | `OneFetch`, `KnownIsTold` | four nodes: one that lacks the transaction hears of it from two others, and fetches it once at a time | 1,396,821 |
| `replay_short_chain` | `NoReplay`, violated | finding 1 | |
| `storage_twice` | `ImportedOnce`, violated | finding 2 | |
| `storage_rival` | `AcceptedIsAnswered`, violated | finding 3 | |
| `seal_unmark` (`MCSealUnmark.cfg`) | `EventuallySealed`, violated | finding 4 | |
| `sync_lost` | `ReachesAll`, violated | finding 5 | |

To run one: `tlc -config MCStorageSubmit.cfg MCStorage.tla`.

### Findings

1. **Restart on a short chain.**  `TxPool::init` (`TxPool.cpp:351`) starts
   reading nonces at block 0 when the chain is not longer than the block limit,
   and takes 0 to mean that there is nothing to read.  The nonces of the chain
   are then unknown until their window has passed.
2. **A transaction can be inserted twice.**  The look-up that `insert` repeats
   (`MemoryStorage.cpp:202`), and the pool's nonce check before it, are not
   exclusive: both hold their lock for reading.
3. **A client whose transaction loses to a rival is not answered.**
   `batchFetchTxs` (`MemoryStorage.cpp:499`) discards the callback because it
   takes a used nonce to mean that the transaction itself was committed.
4. **An unmark does not tell the sealer** (`MemoryStorage.cpp:651`).  Without
another event the transactions stay unsealed.  In the run nothing races: one
thread is at work at a time, a transaction is marked for a proposal, a block's
result tells the sealer of 0, and the unmark tells nobody.  On the same instance
without unmarks the property holds.
5. **A new transaction may not be sent.**  `maintainTransactions`
   (`sync/TransactionSync.cpp:568`) clears `m_newTransactions` after it has
   found nothing new.  A submission in between has set the flag already; its
   transaction stays on the node until another one is pooled.

### Bounds

- `replay`: a window of two blocks, six blocks, at most two outstanding
  results, three transactions of which two have one nonce.  Six blocks are three
  windows: a nonce enters, leaves and enters again, and results race at each of
  these moments.  With `MaxLag` above 2, or above the window, `NoReplay` fails
  in the model; a node applies one block's result while at most the next one
  commits.  `RestartFloor` is 3, one more than the window; finding 1 is the
  case below it.
- `storage_*`: two calls in progress at a time, two or three transactions, a
  pair with one nonce, a limit that is reached by the first block and one that
  is not.  All races of the code are between two calls, or a call and a
  singleton (sealer, clean-up, block result), and the singletons are not counted
  among the calls.  Each call is made once.  How many transactions the sealer
  asks for, in which order it visits them and what it is to avoid is left open.
  `storage_submit` has no imports for proposals, `storage_consensus` has two.
- `seal_races`: two of eight threads at work at a time, two of which mark and
  two import, two transactions, two proposals of which one holds both and the
  other one.  A clash needs two threads and one transaction; with a single
  import the clash of two imports would never be seen.  The threads that mark,
  and those that import, are alike (symmetry).  `SizeMax` is 4, twice the number
  of transactions, so that a counter below zero would show.  The threads never
  stop for good: deadlock is checked.
- `seal_unmark`: one transaction, one thread at work at a time.  With two at
  work and two transactions `EventuallySealed` fails without an unmark, too: the
  sealer and a mark both count one transaction (`MemoryStorage.cpp:534` and 674),
  and the sealer is told of one less than there are.
- `verify`: proposals of two transactions and of one, one block; the pool, the
  ledger and the proposer each may have any, all or none.  Block limits are at
  most `BlockLimit`, so that no limit is too far ahead, and the chain is no
  longer than the window, so that the chain's nonces are those the checker
  holds.  `Others` is one of the transactions of the larger proposal, so that an
  answer may hold the right number of wrong transactions, for either proposal.
  `EventuallyAnswered` says that again and again all requests that
  began are answered; as none returns to idle and each begins once, that is an
  answer for each of them.
- `sync_live`: three nodes, one transaction, one lost message, one block on a
  node that did not submit, two calls at a time in the whole group (`MaxCalls`),
  which is what a double insert takes.  Three nodes are what it takes for a node
  to hear of a transaction from another one than its submitter.
- `sync_fetch`: that several nodes announce one transaction to a node that lacks
  it takes four, the first of which is not on the consensus list: it sends to
  all three, and when the packet to one of them is lost or late, the two others
  announce to it.  There is no block, and there are no liveness properties, with
  which TLC does not finish.
- The answers of the ledger and of the front service run on one thread per node,
  one at a time; transactions are submitted and blocks bring them once per node.
- `sync_lost`: two nodes, two submissions to one of them, no losses.
- The blocks are bounded and calls are made once, so that the storage,
  verification and gossip models may stop: their configurations do not check deadlock.

### Fairness

The storage's and `seal_races`' properties need no fairness.  `seal_unmark`
assumes weak fairness of each thread that was taken up, and that the sealer asks
again and again *while it has been told of unsealed transactions*: threads of a
pool are scheduled, and the sealer asks as long as the number it was told is
positive.  It is strong fairness only because `Workers` bounds the threads of the
model.  Nothing is assumed about clients, about consensus marking or committing,
or about a sealer that was told of none.

`verify` assumes weak fairness of a request's steps once it began: the
ledger calls back, the front service calls back at the latest when
`networkTimeout` has passed, and the importing threads run.  `Begin` is not
fair: consensus need not ask.

`sync_live` and `sync_lost` assume weak fairness of one action: as long as a
thread of some node has something to do, a ledger has to answer or a message is
on its way, one of these goes on.  It is enough, because whatever they do
together comes to an end unless clients, blocks or losses, which are not fair,
start something new; and it is less than what the code gives, whose threads,
ledgers and networks each go on.

## 4. The proofs

The theorems hold for all values of the constants that satisfy the named
assumptions of the modules, and what is said here.

- `NonceReplayProofs!TypeCorrect`: `TypeOK`.
- `NoReplayHolds`, `CacheExactHolds`, `CheckerImplementsGuard`, all under
  `SafeConfiguration`: at most two results outstanding, no more than the window
  is long, and no restart on a chain that is not longer than the window.
  `NoReplay` is not inductive: a check that has passed the nonces says nothing
  without knowing which nonces were there, and `m_blockNumber` is not the
  height.  The inductive invariant `IInv` adds, in layers, `LedgerInv` (which
  results can be outstanding, and how far apart equal nonces are on the chain),
  `NumberInv` (the number may step back, but never by `MaxLag` or more below a
  block that passed its store), `CacheInv` (`MapInv`: the cached blocks are
  exactly the applied ones that no applied block expires; and `CacheExact`) and
  `CheckInv` (a check that passed its first half looks at a transaction of no
  block it has to know, or at one of a block whose expiry has been applied, so
  that the block limit will stop it).
  The refinement follows from the same invariant: an accepting
  step of the checker is a step `Accept` of the guard because `NoReplay` holds
  after it.
- `CacheBoundedHolds`: from the same invariant, since the cached blocks lie in a
  window.
- `MemoryStorageProofs!TypeCorrect`: `TypeOK` with `BlockInv` (a result that is
  being applied is that of a block).  `TypeOK` has a part that is more than types:
  while an import waits to upgrade its lock, and while the sealer's loop is at a
  transaction, nobody removes it.
- `OneAnswerHolds`: with `PendingInv` and `CallbackInv`: a call that is not over
  was not answered and no transaction carries its callback; a callback in the
  table is that of a call for this transaction which was accepted and not
  answered.
- `CacheOfChain`: what the ledger nonce checker holds is on the chain, and what
  is queued to be dropped has its nonce queued for release or on the chain.
- `NonceNotLeakedHolds`: from `CacheOfChain`.
- `NoSilentLossHolds`: under the assumption that no two calls submit the same
  transaction, if one of them is a client's.  Finding 2 is why it is needed: the
  second insert takes the first one's callback away.

- `PoolBoundHolds` (`MemoryStorageCounts`), for finitely many calls: with
  `BusyInv` (no more calls are under way than there are workers) and `BoundInv`,
  which counts what is pooled together with the submissions that passed
  `CheckSize`.
- `NeverSealsCommittedHolds` (`MemoryStorageChain`): with `WindowAll`: how far
  the applied number is behind the height (`NumberInv`), that equal nonces of
  the chain are further apart than the window (`EligibleInv`), and that a nonce
  of a recent block is in the checker unless that block's result is just being
  applied (`WindowInv`).  So a transaction whose block was applied when its nonce
  was looked up and not found is past its block limit.  `FreshInv` carries this
  through the rest of the loop: the applied number only grows (`NumberGrows`),
  and an insert in between leaves the loop at the old object.
- `LeavesOnlyForCauseHolds`, when no block limit is further ahead than the first
  block allows (`LimitsInReach`): `CauseInv` says that what is queued to be
  dropped has its nonce on the chain or its limit reached.  Without the
  assumption a lagging node drops transactions whose limit is too far ahead.
- `KeepsPromiseHolds` (`MemoryStoragePromise`), under `LimitsInReach` and for
  clients whose transactions nobody else submits (finding 2): each step of the
  storage maps to a step of `ClientPromise` or to a stutter.  `PromiseInv` joins
  the invariants above; the facts about causes turn removals into `Settle`, and
  the discarded callbacks of `batchFetchTxs` into `Forget`.
- `ProposalVerifyProofs`: `TypeCorrect`; `OneReplyHolds` by `CountInv` (the
  number of replies follows from the phase); `VerifiedIsSignedHolds` by `SignInv`
  (what waits to be imported was checked, or came from the ledger, where only
  signed transactions are); `VerifiedIsPooledHolds` and `VerifiedIsFilledHolds`,
  under `LimitsInReach`, by `SafeInv` (what a request does not miss is pooled
  under the mark of a proposal, or has a reason to be gone) and `FillInv`.
- `KeepsPromiseHolds` (`ProposalVerifyProofs`), under `LimitsInReach`: each step
  maps to a step of `ProposalPromise` or to a stutter.  `PromiseInv` joins the
  invariants above with `LocalInv` (only verifications ask the proposer) and
  `AskInv` (what was answered was answered by one call, and a fill begins only
  after its proposal was verified); from it every reply is a first one
  (`ReplyIsFirst`) and its verdict is true when it is given (`StepPromised`), and
  the steps of the pool drop only what is gone.
- `SealRacesProofs`: `TypeCorrect` by `SealInv`, which gives for each thread what
  it may rely on while it holds the lock (`LoopInv`, `ImportInv`).
- `CountsWithoutClashHolds`: with `ApartInv` (without a clash, threads change
  different transactions, which no other object has replaced), `FlagInv` (an import sets the flag), `AddInv`
  (the flag that a thread has read stays as it was until the thread has counted,
  and an import inserts what is not sealed), `ResetInv` (a reset that nobody
  disturbs has yet to visit all that is sealed) and `SumInv`: the counter is the
  size of one set, `Counted`, the sealed transactions with the changes that are
  counted and not made.  Each step adds one element to it, removes one, or leaves
  it, and the equation of the property follows from its size.  The proof failed
  at first, and rightly: the model recorded no clash where an import upgrades its
  lock for a transaction that another import has counted, and its instance had
  one import.  In the code, too, that transaction is counted twice.
- `TxsSyncProofs`: `TypeCorrect`; `NotMissedHolds`, where only the type invariant
  is needed: each step that pools a transaction leaves a call for it that is to
  erase the hash; `KnownIsToldHolds` by `HolderInv` (whatever travels, waits to be
  imported or is on its way into the pool comes from a node that has it) and
  `SentInv` (what a node is about to send, or has told others of, it has);
  `OneFetchHolds` by `LandInv` (who is about to erase a hash has stored its
  transaction or found it) and `FetchInv` (a transaction that is fetched is
  recorded, or it has come).
- `SpreadsByGossipHolds`, without further assumptions: the step that stores a
  transaction maps to `Pool` by `PathInv` (whatever travels, is asked for, waits
  to be imported or is on its way into the pool was submitted here, or a node
  told the receiver of it), the step that sends maps to `Tell` by `SentInv`, the
  removal of a block maps to `Apply`, and everything else but a submission
  stutters.
- `NothingFromNowhere`: whatever a node has, in its pool or from a block, a
  client submitted to some node.  It is proved of `Gossip` alone (`OriginStep`)
  and holds of `TxsSync` because that implements it.

Every invariant, action property and refinement that a passing run checks is
proved.  Only model-checked are the liveness properties `EventuallyAnswered`,
`ReceivedIsImported` and `ReachesAll`: they need the fairness of the
specification and ENABLED, which are out of the prover's reach.  So is induction
over data, which none of the theorems needs.

## 5. What is assumed of the environment

- Consensus commits what `Eligible` allows, and delivers each block's result
  once.  `MemoryStorage` takes results one at a time; `NonceReplay` takes up to
  `MaxLag` at a time.
- The forms of a result without nonces, decoding errors after submission and
  exceptions of allocation are not modelled.  An exception in `asyncVerifyBlock`
  (`TxPool.cpp:184`) or `verifyFetchedTxs` is logged and consensus is not called
  back.
- `remove`, `removeSubmittedTx`, `batchInsert`, `clear` and
  `batchMarkAllTxs(true)` have no callers in the repository.

## 6. Not modelled

- **Two submissions of one transaction** in the theorems about clients
  (`NoSilentLossHolds`, `KeepsPromiseHolds`): finding 2 shows what happens then.
  `TxsSync` and `SealRaces` have them.
- **A submission during an import for a proposal.**  Between the look-up of the
  import and its insert (`MemoryStorage.cpp:125-132`) a submission may pool the
  transaction unmarked; the import reports success.  `SealRaces` has this case
  for the counter (`CheckAgain`); what consensus makes of it is outside.
- **The sealer and the marks.**  Between the sealer's test of the flag
  (`MemoryStorage.cpp:517`) and its store (545), consensus may mark the
  transaction for a proposal; the sealer then takes it, too, and clears its
  batch hash.  Between the test of the batch hash for an unmark (669) and the
  clearing of the flag (682) another proposal may mark the transaction, which is
  then cleared in spite of the comment of line 668 ("the tx has already been
  re-sealed, can not enforce unseal").  And the second object of a double insert
  is unsealed, whoever holds the first.  `SealRaces` has all three
  interleavings, and no property is stated that forbids them: one that holds
  has to excuse the very race, and then says no more than the test itself.  Nor
  is it said what an unmark owes to a transaction with the zero batch hash,
  which it clears.
- **The order of the transactions of an answer.**  `ProposalVerify` has sets of
  transactions; the comparison of line 412 may fail for another order, too, which
  `FinishPeerImport` allows.
- **The nonce of a sealed-off transaction.**  The nonce of a pooled transaction
  that is found to be on the chain is queued in the wrong set
  (`MemoryStorage.cpp:502`); if it stays reserved, it does so after the ledger's
  nonce checker has forgotten it.  `NonceNotLeaked` does not object, since the
  nonce is on the chain.
- **Lagging nodes.**  Limits too far ahead fail the block limit check of a node
  that has fallen behind; imported for a proposal and unmarked later, such a
  transaction is dropped.  `LimitsInReach` and the instances exclude it.
- **Losses in larger groups.**  In a group of more than three, all receivers of
  a packet announce it to the same first nodes of the list
  (`TransactionSync.cpp:647`), and a failed request is not repeated
  (`m_missedTxs`), so one loss can be enough for a node to hear of a transaction
  no more.  `ReachesAll` is checked for three nodes only.
- **`m_missedTxs` and imports for proposals.**  An import for a proposal erases
  the hash of what it inserts as a submission does (`MemoryStorage.cpp:133-136`),
  but not that of what it finds pooled.  `TxsSync` has no imports for proposals
  and `ProposalVerify` no `m_missedTxs`.
- **Start and stop** of the threads, the setters of node lists, the factory, the
  configuration, the message encoding (another repository), `remove`,
  `removeSubmittedTx`, `batchInsert`, `clear` and `batchMarkAllTxs(true)`, which
  have no callers.  They keep no state that the properties depend on.
