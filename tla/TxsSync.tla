------------------------------ MODULE TxsSync ------------------------------
(***************************************************************************)
(* How transactions spread: bcos-txpool/sync/TransactionSync.cpp on every  *)
(* node of a group, with what it uses of the node's MemoryStorage.         *)
(*                                                                         *)
(* A node sends the transactions of its clients to all consensus nodes and *)
(* announces the others by their hashes to a few of them, which ask for    *)
(* what they miss.  On each node the sync thread (executeWorker), the      *)
(* thread of m_txsRequester, the callbacks of the ledger and of the front  *)
(* service, the threads that serve clients and the one that applies blocks *)
(* run at the same time.  A transaction enters the pool step by step, and  *)
(* leaves it step by step, each under a lock of its own.                   *)
(***************************************************************************)
EXTENDS Integers, Sequences, FiniteSets

CONSTANTS
    Nodes,                 \* the nodes
    ConsensusList,         \* m_config->consensusNodeList(), in its order
    Connected,             \* Connected[n]: n's m_config->connectedNodeList()
    Outside,               \* the nodes for which existsInGroup() is false
    Txs,                   \* the transactions
    Unwanted,              \* Unwanted[n]: those that n's validator refuses
    PoolLimit,             \* PoolLimit[n]: n's m_config->poolLimit()
    forwardPercent,        \* m_config->forwardPercent()
    c_maxSendTransactions, \* how many are sent at a time
    Submissions,           \* bound: pairs <<n, t>>, a client submits t to node n
    Applies,               \* bound: pairs <<n, t>>, a block may bring t to node n
    MaxCalls,              \* bound: submissions and imports at the same time
    MaxLost                \* bound: the messages that the network loses

\* The threads of a node that import transactions, one after the other; bound:
\* the callbacks of the ledger and of the front service are one thread.
Downloaders == {"sync", "requester", "callback"}
Threads == Downloaders \cup {"rpc"}

ASSUME SyncAssumption ==
    /\ IsFiniteSet(Nodes) /\ IsFiniteSet(Txs)
    /\ ConsensusList \in Seq(Nodes)
    /\ Connected \in [Nodes -> SUBSET Nodes]
    /\ Outside \subseteq Nodes
    /\ Unwanted \in [Nodes -> SUBSET Txs]
    /\ PoolLimit \in [Nodes -> Nat \ {0}]
    /\ forwardPercent \in Nat
    /\ c_maxSendTransactions \in Nat \ {0}
    /\ Submissions \subseteq Nodes \X Txs
    /\ Applies \subseteq Nodes \X Txs
    /\ MaxCalls \in Nat /\ MaxLost \in Nat

\* The consensus nodes.
Consensus == {ConsensusList[i] : i \in 1 .. Len(ConsensusList)}

\* What travels: transactions, the hashes of transactions to announce them or
\* to ask for them, and the answer to a request.
Message == [type : {"txs", "status", "request", "response"},
            from : Nodes, to : Nodes, txs : SUBSET Txs]

\* verifyAndSubmitTransaction on its way: thread by of a node brings an object
\* of transaction tx that is known by the nodes of known.
Call == [node : Nodes, by : Threads, tx : Txs, known : SUBSET Nodes,
         at : {"verified", "reserving", "inserting", "storing", "erasing"}]

\* An object of transaction tx that is no longer in the table.
Object == [tx : Txs, rpc : BOOLEAN, known : SUBSET Nodes]

\* No status message.
Nothing == [from |-> "nobody"]

VARIABLES
    m_txsTable,          \* m_txsTable[n]: the transactions pooled at n
    hasCallback,         \* hasCallback[n]: those whose object at n has a callback
    synced,              \* synced[n]: those whose synced flag is set
    known,               \* known[n][t]: the nodes t's object at n is known by
    m_missedTxs,         \* m_missedTxs[n]: hashes that are being fetched
    m_newTransactions,   \* m_newTransactions[n]: the sync thread has work
    m_downloadTxsBuffer, \* m_downloadTxsBuffer[n]: pairs of sender and transaction
    importing,           \* importing[n][d]: pairs thread d has yet to import
    calls,               \* the submissions and imports on their way
    reserved,            \* reserved[n]: those whose nonce n's pool has reserved
    fetched,             \* fetched[n]: what the sync thread is about to send
    detached,            \* detached[n]: objects of fetched[n] replaced in the table
    syncPc,              \* syncPc[n]: where the sync thread is
    status,              \* status[n]: the announcement m_txsRequester works on
    asking,              \* asking[n]: requests that wait for the ledger
    network,             \* the messages on their way
    lost,                \* how many were lost
    submitted,           \* the submissions that were made
    committed,           \* committed[n]: those that blocks have taken out of n's pool
    registered,          \* registered[n]: those whose nonce n knows to be on the chain
    released,            \* released[n]: those whose nonce n's pool has released since
    sent                 \* history: <<n, m, t>>: n sent or announced t to m

poolVars == <<m_txsTable, hasCallback, synced, known>>
callVars == <<calls, reserved>>
senderVars == <<fetched, detached, syncPc>>
threadVars == <<importing, senderVars, status>>
blockVars == <<committed, registered, released>>
outsideVars == <<network, lost, submitted, blockVars, sent>>
vars == <<poolVars, m_missedTxs, m_newTransactions, m_downloadTxsBuffer, callVars, threadVars,
          asking, outsideVars>>

Pairs == Nodes \X Txs

TypeOK ==
    /\ m_txsTable \in [Nodes -> SUBSET Txs]
    /\ hasCallback \in [Nodes -> SUBSET Txs]
    /\ synced \in [Nodes -> SUBSET Txs]
    /\ known \in [Nodes -> [Txs -> SUBSET Nodes]]
    /\ m_missedTxs \in [Nodes -> SUBSET Txs]
    /\ m_newTransactions \in [Nodes -> BOOLEAN]
    /\ m_downloadTxsBuffer \in [Nodes -> SUBSET Pairs]
    /\ importing \in [Nodes -> [Downloaders -> SUBSET Pairs]]
    /\ calls \subseteq Call
    /\ reserved \in [Nodes -> SUBSET Txs]
    /\ fetched \in [Nodes -> SUBSET Txs]
    /\ detached \in [Nodes -> SUBSET Object]
    /\ syncPc \in [Nodes -> {"idle", "sending", "clearing"}]
    /\ \A n \in Nodes : syncPc[n] = "sending" <=> fetched[n] # {}
    /\ status \in [Nodes -> Message \cup {Nothing}]
    /\ asking \in [Nodes -> SUBSET [peer : Nodes, txs : SUBSET Txs]]
    /\ network \subseteq Message
    /\ lost \in 0 .. MaxLost
    /\ submitted \subseteq Submissions
    /\ committed \in [Nodes -> SUBSET Txs]
    /\ registered \in [Nodes -> SUBSET Txs]
    /\ released \in [Nodes -> SUBSET Txs]
    /\ \A n \in Nodes : released[n] \subseteq registered[n] /\ registered[n] \subseteq committed[n]
    /\ sent \subseteq Nodes \X Nodes \X Txs

Init ==
    /\ m_txsTable = [n \in Nodes |-> {}]
    /\ hasCallback = [n \in Nodes |-> {}]
    /\ synced = [n \in Nodes |-> {}]
    /\ known = [n \in Nodes |-> [t \in Txs |-> {}]]
    /\ m_missedTxs = [n \in Nodes |-> {}]
    /\ m_newTransactions = [n \in Nodes |-> FALSE]
    /\ m_downloadTxsBuffer = [n \in Nodes |-> {}]
    /\ importing = [n \in Nodes |-> [d \in Downloaders |-> {}]]
    /\ calls = {}
    /\ reserved = [n \in Nodes |-> {}]
    /\ fetched = [n \in Nodes |-> {}]
    /\ detached = [n \in Nodes |-> {}]
    /\ syncPc = [n \in Nodes |-> "idle"]
    /\ status = [n \in Nodes |-> Nothing]
    /\ asking = [n \in Nodes |-> {}]
    /\ network = {}
    /\ lost = 0
    /\ submitted = {}
    /\ committed = [n \in Nodes |-> {}]
    /\ registered = [n \in Nodes |-> {}]
    /\ released = [n \in Nodes |-> {}]
    /\ sent = {}
-----------------------------------------------------------------------------
(***************************************************************************)
(* Submitting and importing (importDownloadedTxs,                          *)
(* verifyAndSubmitTransaction).                                            *)
(***************************************************************************)
\* Thread d of node n is inside a call of the storage.
Busy(n, d) == \E c \in calls : c.node = n /\ c.by = d

\* verifyAndSubmitTransaction goes on to reserve the nonce of t, after it found
\* room, no t in the pool, its nonce not on the chain and t itself in order.
\* (What is not on the chain was not there before, so these are one step.)
Admissible(n, t) ==
    /\ Cardinality(m_txsTable[n]) < PoolLimit[n]
    /\ t \notin m_txsTable[n] \cup registered[n] \cup Unwanted[n]

\* Thread d of node n submits an object of t that is known by the nodes K.
Begin(n, d, t, K) ==
    /\ Cardinality(calls) < MaxCalls
    /\ calls' = IF Admissible(n, t)
                THEN calls \cup {[node |-> n, by |-> d, tx |-> t, known |-> K, at |-> "verified"]}
                ELSE calls

BeginUnchanged ==
    UNCHANGED <<poolVars, m_missedTxs, m_newTransactions, m_downloadTxsBuffer, reserved,
                senderVars, status, asking, network, lost, blockVars, sent>>

\* A client submits t to node n.
Submit(n, t) ==
    /\ <<n, t>> \in Submissions \ submitted
    /\ n \notin Outside
    /\ submitted' = submitted \cup {<<n, t>>}
    /\ Begin(n, "rpc", t, {})
    /\ UNCHANGED importing
    /\ BeginUnchanged

\* Variant, a slip: what is being fetched is left to the answer.
ImportUnlessMissed(n, d, from, t) ==
    /\ <<from, t>> \in importing[n][d]
    /\ ~Busy(n, d)
    /\ importing' = [importing EXCEPT ![n][d] = @ \ {<<from, t>>}]
    /\ IF t \in m_missedTxs[n] THEN UNCHANGED calls ELSE Begin(n, d, t, {from})
    /\ UNCHANGED submitted
    /\ BeginUnchanged

\* Thread d submits t, which node from sent; a refusal is ignored.  The object
\* that is pooled already does not learn that from has t, too.
Import(n, d, from, t) ==
    /\ <<from, t>> \in importing[n][d]
    /\ ~Busy(n, d)
    /\ importing' = [importing EXCEPT ![n][d] = @ \ {<<from, t>>}]
    /\ Begin(n, d, t, {from})
    /\ UNCHANGED submitted
    /\ BeginUnchanged

\* Call c goes on to step p, or is over.
GoTo(c, p) == calls' = (calls \ {c}) \cup {[c EXCEPT !.at = p]}
Over(c) == calls' = calls \ {c}

OnlyCalls ==
    UNCHANGED <<poolVars, m_missedTxs, m_newTransactions, m_downloadTxsBuffer, threadVars,
                asking, outsideVars>>

\* The pool's nonce checker looks the nonce up.
CheckNonce(c) ==
    /\ c.at = "verified"
    /\ IF c.tx \in reserved[c.node] THEN Over(c) ELSE GoTo(c, "reserving")
    /\ UNCHANGED reserved
    /\ OnlyCalls

\* Still holding its lock for reading, it inserts the nonce.
Reserve(c) ==
    /\ c.at = "reserving"
    /\ reserved' = [reserved EXCEPT ![c.node] = @ \cup {c.tx}]
    /\ GoTo(c, "inserting")
    /\ OnlyCalls

\* insert looks t up again, under the table's lock held for reading.
CheckAgain(c) ==
    /\ c.at = "inserting"
    /\ GoTo(c, IF c.tx \in m_txsTable[c.node] THEN "erasing" ELSE "storing")
    /\ UNCHANGED reserved
    /\ OnlyCalls

\* What the objects of node n that are about to be sent have come to be, when
\* another object of t takes its place in the table.
DetachedAfter(n, t) ==
    IF t \in fetched[n] /\ \A o \in detached[n] : o.tx # t
    THEN detached[n] \cup {[tx |-> t, rpc |-> t \in hasCallback[n], known |-> known[n][t]]}
    ELSE detached[n]

(***************************************************************************)
(* Still under that lock, insert stores the object, even over one that was *)
(* stored in between, and noteNewTransactions wakes the sync thread.       *)
(***************************************************************************)
Store(c) ==
    LET n == c.node  t == c.tx IN
    /\ c.at = "storing"
    /\ GoTo(c, "erasing")
    /\ m_txsTable' = [m_txsTable EXCEPT ![n] = @ \cup {t}]
    /\ hasCallback' = [hasCallback EXCEPT ![n] = IF c.by = "rpc" THEN @ \cup {t} ELSE @ \ {t}]
    /\ synced' = [synced EXCEPT ![n] = @ \ {t}]
    /\ known' = [known EXCEPT ![n][t] = c.known]
    /\ detached' = [detached EXCEPT ![n] = DetachedAfter(n, t)]
    /\ m_newTransactions' = [m_newTransactions EXCEPT ![n] = TRUE]
    /\ UNCHANGED <<m_missedTxs, m_downloadTxsBuffer, reserved, importing, fetched, syncPc,
                   status, asking, outsideVars>>

LandUnchanged ==
    UNCHANGED <<poolVars, m_newTransactions, m_downloadTxsBuffer, reserved, threadVars, asking,
                outsideVars>>

\* Variant, a slip: the hash is not erased.
LandOnly(c) ==
    /\ c.at = "erasing"
    /\ Over(c)
    /\ UNCHANGED m_missedTxs
    /\ LandUnchanged

\* After insert, whatever it returned, the hash is erased from m_missedTxs.
Land(c) ==
    /\ c.at = "erasing"
    /\ Over(c)
    /\ m_missedTxs' = [m_missedTxs EXCEPT ![c.node] = @ \ {c.tx}]
    /\ LandUnchanged

\* maintainDownloadingTransactions: the thread takes all that was received; a
\* node outside the group discards it.
TakeBuffer(n, d) ==
    /\ \/ d = "sync" /\ syncPc[n] = "idle"
       \/ d = "requester" /\ status[n] # Nothing
    /\ ~Busy(n, d) /\ importing[n][d] = {}
    /\ m_downloadTxsBuffer[n] # {}
    /\ m_downloadTxsBuffer' = [m_downloadTxsBuffer EXCEPT ![n] = {}]
    /\ importing' = [importing EXCEPT ![n][d] =
                        IF n \in Outside THEN {} ELSE m_downloadTxsBuffer[n]]
    /\ UNCHANGED <<poolVars, m_missedTxs, m_newTransactions, callVars, senderVars, status,
                   asking, outsideVars>>
-----------------------------------------------------------------------------
(***************************************************************************)
(* Sending (maintainTransactions, run by the sync thread).                 *)
(***************************************************************************)
Fresh(n) == m_txsTable[n] \ synced[n]

\* The sync thread has imported what it took, and has transactions to send.
MayFetch(n) ==
    /\ syncPc[n] = "idle"
    /\ ~Busy(n, "sync") /\ importing[n]["sync"] = {} /\ m_downloadTxsBuffer[n] = {}
    /\ n \notin Outside
    /\ m_newTransactions[n]

FetchUnchanged ==
    UNCHANGED <<m_txsTable, hasCallback, known, m_missedTxs, m_newTransactions,
                m_downloadTxsBuffer, callVars, importing, detached, status, asking, outsideVars>>

\* Variant, a slip: an empty list is sent, too.
FetchAnyway(n) ==
    /\ MayFetch(n)
    /\ \E T \in SUBSET Fresh(n) :
         /\ T = Fresh(n) \/ Cardinality(T) = c_maxSendTransactions
         /\ Cardinality(T) <= c_maxSendTransactions
         /\ fetched' = [fetched EXCEPT ![n] = T]
         /\ synced' = [synced EXCEPT ![n] = @ \cup T]
         /\ syncPc' = [syncPc EXCEPT ![n] = "sending"]
    /\ FetchUnchanged

\* fetchNewTxs flags and returns the transactions that were not sent yet.
Fetch(n) ==
    /\ MayFetch(n)
    /\ \E T \in SUBSET Fresh(n) :
         /\ T = Fresh(n) \/ Cardinality(T) = c_maxSendTransactions
         /\ Cardinality(T) <= c_maxSendTransactions
         /\ fetched' = [fetched EXCEPT ![n] = T]
         /\ synced' = [synced EXCEPT ![n] = @ \cup T]
         /\ syncPc' = [syncPc EXCEPT ![n] = IF T = {} THEN "clearing" ELSE "sending"]
    /\ FetchUnchanged

\* There was nothing to send: m_newTransactions = false.
ClearFlag(n) ==
    /\ syncPc[n] = "clearing"
    /\ syncPc' = [syncPc EXCEPT ![n] = "idle"]
    /\ m_newTransactions' = [m_newTransactions EXCEPT ![n] = FALSE]
    /\ UNCHANGED <<poolVars, m_missedTxs, m_downloadTxsBuffer, callVars, importing, fetched,
                   detached, status, asking, outsideVars>>

\* The sync thread goes on with the objects it has fetched, in the table or not.
IsDetached(n, t) == \E o \in detached[n] : o.tx = t
KnownOf(n, t) ==
    IF IsDetached(n, t) THEN UNION {o.known : o \in {o \in detached[n] : o.tx = t}}
                        ELSE known[n][t]

\* broadcastTxsFromRpc: the transactions that carry a client's callback go to
\* every other consensus node.
FromRpc(n) ==
    {t \in fetched[n] : IF IsDetached(n, t) THEN \E o \in detached[n] : o.tx = t /\ o.rpc
                                            ELSE t \in hasCallback[n]}
Broadcast(n) == (Consensus \ {n}) \X FromRpc(n)

\* Variant, a slip: it records this of whatever was fetched.
KnownOnceFetched(n, t) == KnownOf(n, t) \cup (Connected[n] \cap Consensus)

\* It records that the connected ones know them.
KnownOnceBroadcast(n, t) ==
    KnownOf(n, t) \cup (IF t \in FromRpc(n) THEN Connected[n] \cap Consensus ELSE {})

\* The k nodes of S that come first in the consensus list.
Place(m) == CHOOSE i \in 1 .. Len(ConsensusList) : ConsensusList[i] = m
First(k, S) == {m \in S : Cardinality({o \in S : Place(o) < Place(m)}) < k}

\* forwardTxsFromP2P's expectedPeers; selectPeers tests it after it takes a peer.
ExpectedPeers(n) ==
    LET share == (Cardinality(Connected[n]) * forwardPercent + 99) \div 100
    IN IF share = 0 THEN 1 ELSE share

\* Variant, a slip: neither the node itself nor who knows t is left out.
SelectConnected(n, t) == First(ExpectedPeers(n), Consensus \cap Connected[n])

\* selectPeers: the connected consensus nodes not known to know t, in order.
SelectPeers(n, t) ==
    First(ExpectedPeers(n),
          (Consensus \cap Connected[n]) \ ({n} \cup KnownOnceBroadcast(n, t)))

\* What the object of t records once both are done.
KnownOnceSent(n, t) == KnownOnceBroadcast(n, t) \cup SelectPeers(n, t)

\* Variant, a slip: only the transactions of this node's clients are announced.
ForwardOwn(n) == {a \in Consensus \X FromRpc(n) : a[1] \in SelectPeers(n, a[2])}

\* forwardTxsFromP2P announces each transaction to its selected peers.
Forward(n) == {a \in Consensus \X fetched[n] : a[1] \in SelectPeers(n, a[2])}

\* One message of the given type to each node that has a pair in A.
MessagesTo(n, kind, A) ==
    {[type |-> kind, from |-> n, to |-> m, txs |-> {t \in Txs : <<m, t>> \in A}] :
        m \in {a[1] : a \in A}}

\* broadcastTxsFromRpc, then forwardTxsFromP2P.
Send(n) ==
    /\ syncPc[n] = "sending"
    /\ syncPc' = [syncPc EXCEPT ![n] = "idle"]
    /\ fetched' = [fetched EXCEPT ![n] = {}]
    /\ detached' = [detached EXCEPT ![n] = {}]
    /\ known' = [known EXCEPT ![n] = [t \in Txs |->
                    IF t \in fetched[n] /\ ~IsDetached(n, t) THEN KnownOnceSent(n, t) ELSE @[t]]]
    /\ network' = network \cup MessagesTo(n, "txs", Broadcast(n))
                          \cup MessagesTo(n, "status", Forward(n))
    /\ sent' = sent \cup {<<n, a[1], a[2]>> : a \in Broadcast(n) \cup Forward(n)}
    /\ UNCHANGED <<m_txsTable, hasCallback, synced, m_missedTxs, m_newTransactions,
                   m_downloadTxsBuffer, callVars, importing, status, asking, lost, submitted,
                   blockVars>>
-----------------------------------------------------------------------------
(***************************************************************************)
(* Receiving (onRecvSyncMessage).                                          *)
(***************************************************************************)
\* appendDownloadTxsBuffer.
ReceiveTxs(m) ==
    /\ m \in network /\ m.type = "txs"
    /\ network' = network \ {m}
    /\ m_downloadTxsBuffer' =
         [m_downloadTxsBuffer EXCEPT ![m.to] = @ \cup ({m.from} \X m.txs)]
    /\ UNCHANGED <<poolVars, m_missedTxs, m_newTransactions, callVars, threadVars, asking, lost,
                   submitted, blockVars, sent>>

\* m_txsRequester takes up an announcement (onPeerTxsStatus).
TakeStatus(m) ==
    /\ m \in network /\ m.type = "status"
    /\ status[m.to] = Nothing
    /\ network' = network \ {m}
    /\ status' = [status EXCEPT ![m.to] = m]
    /\ UNCHANGED <<poolVars, m_missedTxs, m_newTransactions, m_downloadTxsBuffer, callVars,
                   importing, senderVars, asking, lost, submitted, blockVars, sent>>

\* Variant, a slip: what is being fetched is not left out.
UnknownUnpooled(n, T) == T \ m_txsTable[n]

\* filterUnknownTxs: neither pooled nor being fetched.
Unknown(n, T) == T \ (m_txsTable[n] \cup m_missedTxs[n])

(***************************************************************************)
(* onPeerTxsStatus, once it finds nothing more to import: filterUnknownTxs *)
(* records who announced what is pooled, and that the unknown is being     *)
(* fetched; once as many hashes are recorded as the pool may hold, all are *)
(* forgotten.  requestMissedTxs then asks the ledger for the unknown.      *)
(***************************************************************************)
FilterStatus(n) ==
    LET T == status[n].txs
        from == status[n].from
        U == Unknown(n, T)
        missed == m_missedTxs[n] \cup U
    IN
    /\ status[n] # Nothing
    /\ ~Busy(n, "requester") /\ importing[n]["requester"] = {} /\ m_downloadTxsBuffer[n] = {}
    /\ known' = [known EXCEPT ![n] = [t \in Txs |->
                    IF t \in T \cap m_txsTable[n] THEN @[t] \cup {from} ELSE @[t]]]
    /\ m_missedTxs' = [m_missedTxs EXCEPT ![n] =
                          IF Cardinality(missed) >= PoolLimit[n] THEN {} ELSE missed]
    /\ asking' = [asking EXCEPT ![n] =
                     IF U = {} THEN @ ELSE @ \cup {[peer |-> from, txs |-> U]}]
    /\ status' = [status EXCEPT ![n] = Nothing]
    /\ UNCHANGED <<m_txsTable, hasCallback, synced, m_newTransactions, m_downloadTxsBuffer,
                   callVars, importing, senderVars, outsideVars>>

\* What n's ledger may have: what was pooled (asyncStoreTransactions), and what
\* blocks brought, even before n's pool hears of them.
InLedger(n) == m_txsTable[n] \cup committed[n] \cup {t \in Txs : <<n, t>> \in Applies}

(***************************************************************************)
(* The ledger answers with those transactions F it has, or with an error.  *)
(* They are imported like any other, as sent by the node itself, and the   *)
(* peer is asked for the rest (onGetMissedTxsFromLedger,                   *)
(* requestMissedTxsFromPeer).                                              *)
(***************************************************************************)
AskPeer(n, q) ==
    /\ q \in asking[n]
    /\ asking' = [asking EXCEPT ![n] = @ \ {q}]
    /\ \E F \in SUBSET (q.txs \cap InLedger(n)) :
         /\ F = {} \/ q.txs \cap committed[n] \subseteq F
         /\ importing' = [importing EXCEPT ![n]["callback"] = @ \cup ({n} \X F)]
         /\ network' = IF F = q.txs THEN network
                       ELSE network \cup {[type |-> "request", from |-> n, to |-> q.peer,
                                           txs |-> q.txs \ F]}
    /\ UNCHANGED <<poolVars, m_missedTxs, m_newTransactions, m_downloadTxsBuffer, callVars,
                   senderVars, status, lost, submitted, blockVars, sent>>

\* onReceiveTxsRequest answers with what is pooled.
ReceiveRequest(m) ==
    /\ m \in network /\ m.type = "request"
    /\ network' = (network \ {m})
                  \cup {[type |-> "response", from |-> m.to, to |-> m.from,
                         txs |-> m.txs \cap m_txsTable[m.to]]}
    /\ UNCHANGED <<poolVars, m_missedTxs, m_newTransactions, m_downloadTxsBuffer, callVars,
                   threadVars, asking, lost, submitted, blockVars, sent>>

\* verifyFetchedTxs imports what has come, whether or not it is complete.
ReceiveResponse(m) ==
    /\ m \in network /\ m.type = "response"
    /\ network' = network \ {m}
    /\ importing' = [importing EXCEPT ![m.to]["callback"] = @ \cup ({m.from} \X m.txs)]
    /\ UNCHANGED <<poolVars, m_missedTxs, m_newTransactions, m_downloadTxsBuffer, callVars,
                   senderVars, status, asking, lost, submitted, blockVars, sent>>
-----------------------------------------------------------------------------
(***************************************************************************)
(* The environment.                                                        *)
(***************************************************************************)
\* Packets and announcements are sent once, without an acknowledgement; a
\* request whose answer does not come is given up after networkTimeout.
Lose(m) ==
    /\ m \in network
    /\ lost < MaxLost
    /\ lost' = lost + 1
    /\ network' = network \ {m}
    /\ UNCHANGED <<poolVars, m_missedTxs, m_newTransactions, m_downloadTxsBuffer, callVars,
                   threadVars, asking, submitted, blockVars, sent>>
-----------------------------------------------------------------------------
(***************************************************************************)
(* Blocks (batchRemove): a block with t, which some node had pooled, is    *)
(* applied at n.                                                           *)
(***************************************************************************)
BlockUnchanged ==
    UNCHANGED <<hasCallback, synced, known, m_missedTxs, m_newTransactions,
                m_downloadTxsBuffer, calls, threadVars, asking, network, lost, submitted, sent>>

\* The calls of node n that hold a lock for reading.
Reading(n, p) == {c \in calls : c.node = n /\ c.at = p}

\* The write lock on the table: t leaves it.
Remove(n, t) ==
    /\ <<n, t>> \in Applies /\ t \notin committed[n]
    /\ \E m \in Nodes : t \in m_txsTable[m] \cup committed[m]
    /\ Reading(n, "storing") = {}
    /\ committed' = [committed EXCEPT ![n] = @ \cup {t}]
    /\ m_txsTable' = [m_txsTable EXCEPT ![n] = @ \ {t}]
    /\ UNCHANGED <<reserved, registered, released>>
    /\ BlockUnchanged

\* The ledger nonce checker learns the nonce.
Register(n, t) ==
    /\ t \in committed[n] \ registered[n]
    /\ registered' = [registered EXCEPT ![n] = @ \cup {t}]
    /\ UNCHANGED <<m_txsTable, reserved, committed, released>>
    /\ BlockUnchanged

\* The pool's nonce checker, under its write lock, forgets it.
Release(n, t) ==
    /\ t \in registered[n] \ released[n]
    /\ Reading(n, "reserving") = {}
    /\ released' = [released EXCEPT ![n] = @ \cup {t}]
    /\ reserved' = [reserved EXCEPT ![n] = @ \ {t}]
    /\ UNCHANGED <<m_txsTable, committed, registered>>
    /\ BlockUnchanged

-----------------------------------------------------------------------------
SyncThread(n) ==
    TakeBuffer(n, "sync") \/ Fetch(n) \/ ClearFlag(n) \/ Send(n)

Requester(n) ==
    TakeBuffer(n, "requester") \/ FilterStatus(n)

CallStep(c) == CheckNonce(c) \/ Reserve(c) \/ CheckAgain(c) \/ Store(c) \/ Land(c)

Importer(n, d) ==
    \/ \E c \in calls : c.node = n /\ c.by = d /\ CallStep(c)
    \/ d # "rpc" /\ \E from \in Nodes, t \in Txs : Import(n, d, from, t)

Block(n, t) == Remove(n, t) \/ Register(n, t) \/ Release(n, t)

Deliver(m) ==
    ReceiveTxs(m) \/ TakeStatus(m) \/ ReceiveRequest(m) \/ ReceiveResponse(m)

\* What runs on node n by itself.
Node(n) ==
    \/ SyncThread(n)
    \/ Requester(n)
    \/ \E d \in Threads : Importer(n, d)
    \/ \E q \in asking[n] : AskPeer(n, q)

Next ==
    \/ \E n \in Nodes, t \in Txs : Submit(n, t) \/ Block(n, t)
    \/ \E n \in Nodes : Node(n)
    \/ \E m \in network : Deliver(m) \/ Lose(m)

Spec == Init /\ [][Next]_vars

\* As long as a thread of some node has something to do, a ledger has to answer
\* or a message is on its way, one of them goes on.
Fairness == WF_vars((\E n \in Nodes : Node(n)) \/ \E m \in network : Deliver(m))

FairSpec == Spec /\ Fairness
-----------------------------------------------------------------------------
(***************************************************************************)
(* Properties.                                                             *)
(***************************************************************************)
Held(n) == m_txsTable[n] \cup committed[n]

\* The fetches of t by node n: waiting for the ledger, requested, answered, or
\* about to be imported.
Fetches(n, t) ==
    {<<"ledger", q>> : q \in {q \in asking[n] : t \in q.txs}}
    \cup {<<"network", m>> : m \in {m \in network :
            /\ t \in m.txs
            /\ \/ m.type = "request" /\ m.from = n
               \/ m.type = "response" /\ m.to = n}}
    \cup {<<"callback", a>> : a \in {a \in importing[n]["callback"] : a[2] = t}}

\* A transaction that a node lacks is not fetched from two peers at the same
\* time, however many announce it, as long as the set of hashes being fetched
\* does not reach the pool's limit.
OneFetch ==
    \A n \in Nodes, t \in Txs :
        t \notin Held(n) /\ Cardinality(Txs) < PoolLimit[n]
            => \A f, g \in Fetches(n, t) : f = g

\* A pooled transaction does not stay recorded as being fetched: if it did, it
\* would not be asked for when it is announced after it left the pool.
NotMissedWhilePooled ==
    \A n \in Nodes : \A t \in m_txsTable[n] \cap m_missedTxs[n] :
        \E c \in calls : c.node = n /\ c.tx = t /\ c.at = "erasing"

\* Whoever a node takes to know a transaction was sent or announced it by this
\* node, or has it: a node left out for a wrong reason would never hear of it.
KnownIsTold ==
    \A n \in Nodes, t \in Txs : \A m \in known[n][t] \ {n} :
        <<n, m, t>> \in sent \/ t \in Held(m)

Spread == INSTANCE Gossip WITH pooled <- m_txsTable, told <- sent

\* Transactions spread only by gossip: however packets, announcements, requests
\* and their answers are lost, reordered or overtaken by blocks, a node pools
\* only what a client submitted to it or a node told it of, and it tells only
\* consensus nodes, and never itself, of what it has.
SpreadsByGossip == Spread!Spec

\* Whatever a node has received is pooled, unless the node does not want it or
\* is full, although two threads take from the same buffer.
ReceivedIsImported ==
    \A n \in Nodes \ Outside, t \in Txs :
        (\E from \in Nodes : <<from, t>> \in m_downloadTxsBuffer[n]) ~>
            t \in Held(n) \cup Unwanted[n] \/ Cardinality(m_txsTable[n]) >= PoolLimit[n]

\* A transaction that is pooled on one node comes to be pooled on all consensus
\* nodes ("check the transactions has been broadcasted to all the node",
\* TxsSyncTest.cpp:123), unless a block brings it first.
ReachesAll ==
    \A t \in Txs :
        (\E n \in Nodes : t \in m_txsTable[n]) ~> \/ \A m \in Consensus : t \in m_txsTable[m]
                                                 \/ \E m \in Nodes : t \in committed[m]
=============================================================================
