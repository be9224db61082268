--------------------------- MODULE TxsSyncProofs ---------------------------
(***************************************************************************)
(* Proofs about TxsSync, for every number of nodes, every topology, every  *)
(* set of transactions, any number of calls at the same time and of lost   *)
(* messages: types; what is pooled is not taken for being fetched; nobody  *)
(* is taken to know what he was not told; nothing is fetched from two      *)
(* peers at a time; transactions spread only as Gossip allows.             *)
(***************************************************************************)
EXTENDS TxsSync, FiniteSetTheorems, TLAPS

\* What a node is about to send, or has told others of, it has.
SentInv ==
    /\ \A n \in Nodes : fetched[n] \subseteq Held(n)
    /\ \A n, m \in Nodes, t \in Txs : <<n, m, t>> \in sent => t \in Held(n)

\* Whatever travels or waits to be imported comes from a node that has it, or
\* from the importing node's own ledger.
HolderInv ==
    /\ \A m \in network : m.type # "request" => m.txs \subseteq Held(m.from)
    /\ \A n \in Nodes : status[n] # Nothing => status[n].txs \subseteq Held(status[n].from)
    /\ \A n \in Nodes : \A a \in m_downloadTxsBuffer[n] : a[2] \in Held(a[1])
    /\ \A n \in Nodes, d \in Downloaders : \A a \in importing[n][d] :
         a[1] = n \/ a[2] \in Held(a[1])
    /\ \A c \in calls : \A m \in c.known \ {c.node} : c.tx \in Held(m)

\* Whoever is about to erase a hash has stored its transaction, or found it.
LandInv == \A c \in calls : c.at = "erasing" => c.tx \in Held(c.node)

\* A transaction that is fetched is recorded as such, or it has come.
FetchInv ==
    \A n \in Nodes, t \in Txs :
        t \notin Held(n) /\ Cardinality(Txs) < PoolLimit[n] =>
            /\ Fetches(n, t) # {} => t \in m_missedTxs[n]
            /\ \A f, g \in Fetches(n, t) : f = g
-----------------------------------------------------------------------------
(***************************************************************************)
(* Types.                                                                  *)
(***************************************************************************)
LEMMA ConsensusTyped == Consensus \subseteq Nodes
BY SyncAssumption DEF Consensus

LEMMA MessagesTyped ==
    ASSUME NEW n \in Nodes, NEW kind \in {"txs", "status", "request", "response"},
           NEW A \in SUBSET (Nodes \X Txs)
    PROVE  MessagesTo(n, kind, A) \subseteq Message
<1>1. \A m \in {a[1] : a \in A} : m \in Nodes
  OBVIOUS
<1>2. ASSUME NEW m \in Nodes, NEW T \in SUBSET Txs
      PROVE  [type |-> kind, from |-> n, to |-> m, txs |-> T] \in Message
  BY DEF Message
<1>3. ASSUME NEW x \in MessagesTo(n, kind, A)
      PROVE  x \in Message
  <2>1. PICK m \in {a[1] : a \in A} :
          x = [type |-> kind, from |-> n, to |-> m, txs |-> {t \in Txs : <<m, t>> \in A}]
    BY <1>3 DEF MessagesTo
  <2> QED
    BY <1>1, <1>2, <2>1
<1> QED
  BY <1>3

LEMMA SelectedTyped ==
    ASSUME NEW n, NEW t
    PROVE  SelectPeers(n, t) \subseteq
             (Consensus \cap Connected[n]) \ ({n} \cup KnownOnceBroadcast(n, t))
BY DEF SelectPeers, First

LEMMA KnownOfTyped ==
    ASSUME TypeOK, NEW n \in Nodes, NEW t \in Txs
    PROVE  KnownOf(n, t) \subseteq Nodes
<1>1. \A o \in detached[n] : o.known \subseteq Nodes
  BY DEF TypeOK, Object
<1>2. known[n][t] \subseteq Nodes
  BY DEF TypeOK
<1> QED
  BY <1>1, <1>2 DEF KnownOf

LEMMA SendTyped ==
    ASSUME TypeOK, NEW n \in Nodes
    PROVE  /\ Broadcast(n) \subseteq Nodes \X Txs
           /\ Forward(n) \subseteq Nodes \X Txs
           /\ \A t \in Txs : KnownOnceSent(n, t) \subseteq Nodes
<1>1. FromRpc(n) \subseteq fetched[n] /\ fetched[n] \subseteq Txs
  BY DEF TypeOK, FromRpc
<1>2. Broadcast(n) \subseteq Nodes \X Txs
  BY <1>1, ConsensusTyped DEF Broadcast
<1>3. Forward(n) \subseteq Nodes \X Txs
  BY <1>1, ConsensusTyped DEF Forward
<1>4. \A t \in Txs : KnownOnceSent(n, t) \subseteq Nodes
  BY ConsensusTyped, SelectedTyped, KnownOfTyped DEF KnownOnceSent, KnownOnceBroadcast
<1> QED
  BY <1>2, <1>3, <1>4

LEMMA ThreadsTyped == Downloaders \subseteq Threads /\ "sync" \in Downloaders /\ "rpc" \in Threads
BY DEF Threads, Downloaders

LEMMA CallTyped ==
    ASSUME TypeOK, NEW c \in calls
    PROVE  c \in Call /\ c.node \in Nodes /\ c.by \in Threads /\ c.tx \in Txs
           /\ c.known \subseteq Nodes
BY DEF TypeOK, Call

\* The call c at step p.
Moved(c, p) == [c EXCEPT !.at = p]

LEMMA MovedIs ==
    ASSUME TypeOK, NEW c \in calls,
           NEW p \in {"verified", "reserving", "inserting", "storing", "erasing"}
    PROVE  /\ Moved(c, p) \in Call
           /\ Moved(c, p).node = c.node /\ Moved(c, p).by = c.by /\ Moved(c, p).tx = c.tx
           /\ Moved(c, p).known = c.known /\ Moved(c, p).at = p
BY DEF TypeOK, Call, Moved

LEMMA GoToIs ==
    ASSUME NEW c, NEW p, GoTo(c, p)
    PROVE  calls' = (calls \ {c}) \cup {Moved(c, p)}
BY DEF GoTo, Moved

LEMMA BegunTyped ==
    ASSUME NEW n \in Nodes, NEW d \in Threads, NEW t \in Txs, NEW K \in SUBSET Nodes
    PROVE  [node |-> n, by |-> d, tx |-> t, known |-> K, at |-> "verified"] \in Call
BY DEF Call

LEMMA ImportingTyped ==
    ASSUME importing \in [Nodes -> [Downloaders -> SUBSET Pairs]],
           NEW n \in Nodes, NEW d \in Downloaders, NEW S,
           importing[n][d] \subseteq Pairs => S \subseteq Pairs
    PROVE  [importing EXCEPT ![n][d] = S] \in [Nodes -> [Downloaders -> SUBSET Pairs]]
OBVIOUS

\* The actions that handle what a node receives, or lose it.
LEMMA MessagesStepTyped ==
    ASSUME TypeOK, NEW m \in network, Deliver(m) \/ Lose(m)
    PROVE  TypeOK'
<1> USE DEF poolVars, callVars, senderVars, threadVars, blockVars
<1>a. m \in Message /\ m.from \in Nodes /\ m.to \in Nodes /\ m.txs \subseteq Txs
  BY DEF TypeOK, Message
<1>1. CASE ReceiveTxs(m)
  <2>1. m_downloadTxsBuffer' \in [Nodes -> SUBSET Pairs]
    BY <1>a, <1>1 DEF TypeOK, ReceiveTxs, Pairs
  <2> QED
    BY <2>1, <1>1 DEF TypeOK, ReceiveTxs
<1>2. CASE TakeStatus(m)
  BY <1>a, <1>2 DEF TypeOK, TakeStatus
<1>3. CASE ReceiveRequest(m)
  <2>1. [type |-> "response", from |-> m.to, to |-> m.from,
         txs |-> m.txs \cap m_txsTable[m.to]] \in Message
    BY <1>a DEF Message
  <2> QED
    BY <2>1, <1>3 DEF TypeOK, ReceiveRequest
<1>4. CASE ReceiveResponse(m)
  <2>1. importing' \in [Nodes -> [Downloaders -> SUBSET Pairs]]
    BY <1>a, <1>4, ImportingTyped DEF TypeOK, ReceiveResponse, Pairs, Downloaders
  <2> QED
    BY <2>1, <1>4 DEF TypeOK, ReceiveResponse
<1>5. CASE Lose(m)
  BY <1>5, SyncAssumption DEF TypeOK, Lose
<1> QED
  BY <1>1, <1>2, <1>3, <1>4, <1>5 DEF Deliver

\* The actions of the sync thread and of m_txsRequester.
LEMMA SyncThreadTyped ==
    ASSUME TypeOK, NEW n \in Nodes, SyncThread(n) \/ Requester(n)
    PROVE  TypeOK'
<1> USE DEF poolVars, callVars, blockVars, outsideVars
<1>1. ASSUME NEW d \in Downloaders, TakeBuffer(n, d)
      PROVE  TypeOK'
  BY <1>1 DEF TypeOK, TakeBuffer, senderVars
<1>2. CASE Fetch(n)
  <2>1. PICK T \in SUBSET Fresh(n) :
          /\ fetched' = [fetched EXCEPT ![n] = T]
          /\ synced' = [synced EXCEPT ![n] = @ \cup T]
          /\ syncPc' = [syncPc EXCEPT ![n] = IF T = {} THEN "clearing" ELSE "sending"]
    BY <1>2 DEF Fetch
  <2>2. T \subseteq Txs
    BY DEF Fresh, TypeOK
  <2>3. \A o \in Nodes : syncPc'[o] = "sending" <=> fetched'[o] # {}
    <3>1. CASE T = {}
      BY <2>1, <3>1 DEF TypeOK
    <3>2. CASE T # {}
      BY <2>1, <3>2 DEF TypeOK
    <3> QED
      BY <3>1, <3>2
  <2> QED
    BY <1>2, <2>1, <2>2, <2>3 DEF TypeOK, Fetch, FetchUnchanged
<1>3. CASE ClearFlag(n)
  BY <1>3 DEF TypeOK, ClearFlag
<1>4. CASE Send(n)
  <2>1. known' \in [Nodes -> [Txs -> SUBSET Nodes]]
    <3>1. [t \in Txs |-> IF t \in fetched[n] /\ ~IsDetached(n, t) THEN KnownOnceSent(n, t)
                                                                 ELSE known[n][t]]
            \in [Txs -> SUBSET Nodes]
      BY SendTyped DEF TypeOK
    <3> QED
      BY <1>4, <3>1 DEF TypeOK, Send
  <2>2. network' \subseteq Message
    <3>1. MessagesTo(n, "txs", Broadcast(n)) \subseteq Message
      BY SendTyped, MessagesTyped
    <3>2. MessagesTo(n, "status", Forward(n)) \subseteq Message
      BY SendTyped, MessagesTyped
    <3> QED
      BY <3>1, <3>2, <1>4 DEF TypeOK, Send
  <2>3. sent' \subseteq Nodes \X Nodes \X Txs
    BY <1>4, SendTyped DEF TypeOK, Send
  <2>4. /\ syncPc' \in [Nodes -> {"idle", "sending", "clearing"}] /\ fetched' \in [Nodes -> SUBSET Txs]
        /\ \A o \in Nodes : syncPc'[o] = "sending" <=> fetched'[o] # {}
        /\ detached' \in [Nodes -> SUBSET Object]
    BY <1>4 DEF TypeOK, Send
  <2> QED
    BY <2>1, <2>2, <2>3, <2>4, <1>4 DEF TypeOK, Send
<1>5. CASE FilterStatus(n)
  <2>1. status[n] \in Message /\ status[n].from \in Nodes /\ status[n].txs \subseteq Txs
    BY <1>5 DEF TypeOK, FilterStatus, Message
  <2>2. known' \in [Nodes -> [Txs -> SUBSET Nodes]]
    BY <1>5, <2>1 DEF TypeOK, FilterStatus
  <2>3. m_missedTxs' \in [Nodes -> SUBSET Txs]
    BY <1>5, <2>1 DEF TypeOK, FilterStatus, Unknown
  <2>4. asking' \in [Nodes -> SUBSET [peer : Nodes, txs : SUBSET Txs]]
    <3>1. [peer |-> status[n].from, txs |-> Unknown(n, status[n].txs)]
            \in [peer : Nodes, txs : SUBSET Txs]
      BY <2>1 DEF Unknown
    <3> QED
      BY <1>5, <3>1 DEF TypeOK, FilterStatus
  <2>5. status' \in [Nodes -> Message \cup {Nothing}]
    BY <1>5 DEF TypeOK, FilterStatus
  <2> QED
    BY <2>2, <2>3, <2>4, <2>5, <1>5 DEF TypeOK, FilterStatus, senderVars
<1> QED
  BY <1>1, <1>2, <1>3, <1>4, <1>5 DEF SyncThread, Requester, Downloaders

LEMMA BeginTyped ==
    ASSUME TypeOK, NEW n \in Nodes, NEW d \in Threads, NEW t \in Txs, NEW K \in SUBSET Nodes,
           Begin(n, d, t, K)
    PROVE  calls' \subseteq Call
BY BegunTyped DEF TypeOK, Begin

LEMMA CallStepTyped ==
    ASSUME TypeOK, NEW c \in calls, CallStep(c)
    PROVE  TypeOK'
<1> USE DEF poolVars, callVars, senderVars, threadVars, blockVars, outsideVars, OnlyCalls
<1>a. c.node \in Nodes /\ c.tx \in Txs /\ c.by \in Threads /\ c.known \subseteq Nodes
  BY CallTyped
<1>b. \A p \in {"verified", "reserving", "inserting", "storing", "erasing"} :
        GoTo(c, p) => calls' \subseteq Call
  BY MovedIs, GoToIs DEF TypeOK
<1>c. Over(c) => calls' \subseteq Call
  BY DEF TypeOK, Over
<1>1. CASE CheckNonce(c)
  BY <1>1, <1>b, <1>c DEF CheckNonce, TypeOK
<1>2. CASE Reserve(c)
  BY <1>a, <1>2, <1>b DEF Reserve, TypeOK
<1>3. CASE CheckAgain(c)
  BY <1>3, <1>b DEF CheckAgain, TypeOK
<1>4. CASE Store(c)
  <2>1. calls' \subseteq Call
    BY <1>4, <1>b DEF Store
  <2>2. detached' \in [Nodes -> SUBSET Object]
    <3>1. [tx |-> c.tx, rpc |-> c.tx \in hasCallback[c.node], known |-> known[c.node][c.tx]]
            \in Object
      BY <1>a DEF TypeOK, Object
    <3>2. DetachedAfter(c.node, c.tx) \subseteq Object
      BY <1>a, <3>1 DEF TypeOK, DetachedAfter
    <3> QED
      BY <1>4, <3>2 DEF TypeOK, Store
  <2>3. known' \in [Nodes -> [Txs -> SUBSET Nodes]]
    BY <1>a, <1>4 DEF TypeOK, Store
  <2> QED
    BY <1>a, <1>4, <2>1, <2>2, <2>3 DEF Store, TypeOK
<1>5. CASE Land(c)
  BY <1>5, <1>c DEF Land, LandUnchanged, TypeOK
<1> QED
  BY <1>1, <1>2, <1>3, <1>4, <1>5 DEF CallStep

LEMMA ImportTyped ==
    ASSUME TypeOK, NEW n \in Nodes, NEW d \in Downloaders, NEW from \in Nodes, NEW t \in Txs,
           Import(n, d, from, t)
    PROVE  TypeOK'
<1>1. importing' \in [Nodes -> [Downloaders -> SUBSET Pairs]]
  BY ImportingTyped DEF TypeOK, Import
<1>2. calls' \subseteq Call
  BY BeginTyped, ThreadsTyped DEF Import
<1> QED
  BY <1>1, <1>2 DEF TypeOK, Import, BeginUnchanged, poolVars, senderVars, blockVars

\* What the environment does: clients, blocks, the ledger.
LEMMA OutsideTyped ==
    ASSUME TypeOK, NEW n \in Nodes,
           \/ \E t \in Txs : Submit(n, t) \/ Block(n, t)
           \/ \E q \in asking[n] : AskPeer(n, q)
    PROVE  TypeOK'
<1> USE DEF poolVars, callVars, senderVars, threadVars, blockVars
<1>1. ASSUME NEW t \in Txs, Submit(n, t)
      PROVE  TypeOK'
  <2>1. calls' \subseteq Call
    BY <1>1, BeginTyped, ThreadsTyped DEF Submit
  <2> QED
    BY <2>1, <1>1 DEF TypeOK, Submit, BeginUnchanged
<1>2. ASSUME NEW t \in Txs, Remove(n, t)
      PROVE  TypeOK'
  BY <1>2 DEF TypeOK, Remove, BlockUnchanged
<1>3. ASSUME NEW t \in Txs, Register(n, t)
      PROVE  TypeOK'
  BY <1>3 DEF TypeOK, Register, BlockUnchanged
<1>4. ASSUME NEW t \in Txs, Release(n, t)
      PROVE  TypeOK'
  BY <1>4 DEF TypeOK, Release, BlockUnchanged
<1>5. ASSUME NEW q \in asking[n], AskPeer(n, q)
      PROVE  TypeOK'
  <2>1. q.peer \in Nodes /\ q.txs \subseteq Txs
    BY DEF TypeOK
  <2>2. PICK F \in SUBSET q.txs :
          /\ importing' = [importing EXCEPT ![n]["callback"] = @ \cup ({n} \X F)]
          /\ network' = IF F = q.txs THEN network
                        ELSE network \cup {[type |-> "request", from |-> n, to |-> q.peer,
                                            txs |-> q.txs \ F]}
    BY <1>5 DEF AskPeer
  <2>3. network' \subseteq Message
    BY <2>1, <2>2 DEF TypeOK, Message
  <2>4. importing' \in [Nodes -> [Downloaders -> SUBSET Pairs]]
    <3>1. {n} \X F \subseteq Pairs /\ "callback" \in Downloaders
      BY <2>1 DEF Pairs, Downloaders
    <3>2. importing \in [Nodes -> [Downloaders -> SUBSET Pairs]]
      BY DEF TypeOK
    <3> QED
      BY <2>2, <3>1, <3>2, ImportingTyped
  <2> QED
    BY <2>3, <2>4, <1>5 DEF TypeOK, AskPeer
<1> QED
  BY <1>1, <1>2, <1>3, <1>4, <1>5 DEF Block

\* Types; the sync thread sends when, and only when, it has fetched something;
\* a nonce is released only after the chain is known to carry it.
THEOREM TypeCorrect == Spec => []TypeOK
<1>1. Init => TypeOK
  BY SyncAssumption DEF Init, TypeOK
<1>2. TypeOK /\ [Next]_vars => TypeOK'
  <2>1. ASSUME TypeOK, Next
        PROVE  TypeOK'
    <3>1. ASSUME NEW n \in Nodes, NEW d \in Threads, Importer(n, d)
          PROVE  TypeOK'
      BY <2>1, <3>1, CallStepTyped, ImportTyped DEF Importer, Threads
    <3> QED
      BY <2>1, <3>1, MessagesStepTyped, SyncThreadTyped, OutsideTyped DEF Next, Node
  <2>2. ASSUME TypeOK, UNCHANGED vars
        PROVE  TypeOK'
    BY <2>2 DEF TypeOK, vars, poolVars, callVars, senderVars, threadVars, blockVars, outsideVars
  <2> QED
    BY <2>1, <2>2
<1> QED
  BY <1>1, <1>2, PTL DEF Spec
-----------------------------------------------------------------------------
(***************************************************************************)
(* What a node has, pooled or in a block, it keeps.                        *)
(***************************************************************************)
\* What a call stores, a client or an import began; blocks only move what is
\* held from the table to what is committed.
LEMMA CallStepCalls ==
    ASSUME TypeOK, NEW c \in calls, CallStep(c)
    PROVE  \/ Over(c)
           \/ \E p \in {"reserving", "inserting", "storing", "erasing"} :
                calls' = (calls \ {c}) \cup {Moved(c, p)}
BY GoToIs DEF CallStep, CheckNonce, Reserve, CheckAgain, Store, Land

LEMMA BeginCalls ==
    ASSUME NEW n, NEW d, NEW t, NEW K, Begin(n, d, t, K)
    PROVE  \/ calls' = calls
           \/ calls' = calls \cup {[node |-> n, by |-> d, tx |-> t, known |-> K,
                                    at |-> "verified"]}
BY DEF Begin

\* The steps that change what a node has, records, or is about to erase.
LEMMA PoolSteps ==
    ASSUME TypeOK, Next
    PROVE  \/ UNCHANGED <<m_txsTable, committed, m_missedTxs, calls>>
           \/ /\ UNCHANGED <<m_txsTable, committed, m_missedTxs>>
              /\ \E n \in Nodes, d \in Threads, t \in Txs, K \in SUBSET Nodes : Begin(n, d, t, K)
           \/ \E c \in calls : CallStep(c) /\ UNCHANGED committed
           \/ \E n \in Nodes : FilterStatus(n)
           \/ \E n \in Nodes, t \in Txs : Remove(n, t)
<1> USE DEF poolVars, callVars, senderVars, threadVars, blockVars, outsideVars
<1>1. ASSUME NEW n \in Nodes, NEW t \in Txs, Submit(n, t)
      PROVE  /\ UNCHANGED <<m_txsTable, committed, m_missedTxs>>
             /\ Begin(n, "rpc", t, {})
  BY <1>1 DEF Submit, BeginUnchanged
<1>2. ASSUME NEW n \in Nodes, NEW d \in Threads, NEW t \in Txs, NEW from \in Nodes,
             Import(n, d, from, t)
      PROVE  /\ UNCHANGED <<m_txsTable, committed, m_missedTxs>>
             /\ Begin(n, d, t, {from})
  BY <1>2 DEF Import, BeginUnchanged
<1>3. ASSUME NEW n \in Nodes, SyncThread(n) \/ Requester(n)
      PROVE  FilterStatus(n) \/ UNCHANGED <<m_txsTable, committed, m_missedTxs, calls>>
  BY <1>3 DEF SyncThread, Requester, TakeBuffer, Fetch, FetchUnchanged, ClearFlag, Send
<1>4. ASSUME NEW n \in Nodes, NEW q \in asking[n], AskPeer(n, q)
      PROVE  UNCHANGED <<m_txsTable, committed, m_missedTxs, calls>>
  BY <1>4 DEF AskPeer
<1>5. ASSUME NEW m \in network, Deliver(m) \/ Lose(m)
      PROVE  UNCHANGED <<m_txsTable, committed, m_missedTxs, calls>>
  BY <1>5 DEF Deliver, ReceiveTxs, TakeStatus, ReceiveRequest, ReceiveResponse, Lose
<1>6. ASSUME NEW c \in calls, CallStep(c)
      PROVE  UNCHANGED committed
  BY <1>6 DEF CallStep, CheckNonce, Reserve, CheckAgain, Store, Land, OnlyCalls, LandUnchanged
<1>7. ASSUME NEW n \in Nodes, NEW t \in Txs, Block(n, t)
      PROVE  Remove(n, t) \/ UNCHANGED <<m_txsTable, committed, m_missedTxs, calls>>
  BY <1>7 DEF Block, Register, Release, BlockUnchanged
<1>8. ASSUME NEW n \in Nodes, NEW d \in Threads, Importer(n, d)
      PROVE  \/ \E c \in calls : CallStep(c) /\ UNCHANGED committed
             \/ /\ UNCHANGED <<m_txsTable, committed, m_missedTxs>>
                /\ \E t \in Txs, K \in SUBSET Nodes : Begin(n, d, t, K)
  <2>1. ASSUME NEW t \in Txs, NEW from \in Nodes, Import(n, d, from, t)
        PROVE  /\ UNCHANGED <<m_txsTable, committed, m_missedTxs>>
               /\ \E K \in SUBSET Nodes : Begin(n, d, t, K)
    <3>1. {from} \in SUBSET Nodes
      OBVIOUS
    <3> QED
      BY <2>1, <3>1, <1>2
  <2> QED
    BY <1>8, <2>1, <1>6 DEF Importer
<1>9. ASSUME NEW n \in Nodes, NEW t \in Txs, Submit(n, t)
      PROVE  /\ UNCHANGED <<m_txsTable, committed, m_missedTxs>>
             /\ \E d \in Threads, K \in SUBSET Nodes : Begin(n, d, t, K)
  <2>1. {} \in SUBSET Nodes
    OBVIOUS
  <2> QED
    BY <1>9, <1>1, <2>1, ThreadsTyped
<1>10. ASSUME NEW n \in Nodes, Node(n)
       PROVE  \/ UNCHANGED <<m_txsTable, committed, m_missedTxs, calls>>
              \/ /\ UNCHANGED <<m_txsTable, committed, m_missedTxs>>
                 /\ \E d \in Threads, t \in Txs, K \in SUBSET Nodes : Begin(n, d, t, K)
              \/ \E c \in calls : CallStep(c) /\ UNCHANGED committed
              \/ FilterStatus(n)
  BY <1>10, <1>3, <1>4, <1>8 DEF Node
<1> QED
  BY <1>5, <1>7, <1>9, <1>10 DEF Next

\* Only Store puts something into the table, and it takes nothing out.
LEMMA CallStepTable ==
    ASSUME TypeOK, NEW c \in calls, CallStep(c)
    PROVE  \/ UNCHANGED m_txsTable
           \/ /\ Store(c) /\ c.node \in Nodes /\ c.tx \in Txs
              /\ m_txsTable' = [m_txsTable EXCEPT ![c.node] = @ \cup {c.tx}]
BY CallTyped
DEF CallStep, CheckNonce, Reserve, CheckAgain, Store, Land, OnlyCalls, LandUnchanged, poolVars

LEMMA HeldGrows ==
    ASSUME TypeOK, Next, NEW n \in Nodes
    PROVE  Held(n) \subseteq Held(n)'
<1>1. CASE UNCHANGED <<m_txsTable, committed>>
  BY <1>1 DEF Held
<1>2. ASSUME NEW c \in calls, CallStep(c), UNCHANGED committed
      PROVE  Held(n) \subseteq Held(n)'
  <2>1. CASE UNCHANGED m_txsTable
    BY <2>1, <1>2, <1>1
  <2>2. CASE c.node \in Nodes /\ m_txsTable' = [m_txsTable EXCEPT ![c.node] = @ \cup {c.tx}]
    BY <2>2, <1>2 DEF TypeOK, Held
  <2> QED
    BY <1>2, <2>1, <2>2, CallStepTable
<1>3. ASSUME NEW o \in Nodes, NEW t \in Txs, Remove(o, t)
      PROVE  Held(n) \subseteq Held(n)'
  BY <1>3 DEF TypeOK, Remove, Held
<1>4. ASSUME NEW o \in Nodes, FilterStatus(o)
      PROVE  UNCHANGED <<m_txsTable, committed>>
  BY <1>4 DEF FilterStatus, outsideVars, blockVars
<1> QED
  BY <1>1, <1>2, <1>3, <1>4, PoolSteps
-----------------------------------------------------------------------------
(***************************************************************************)
(* What is pooled is not taken for being fetched.                          *)
(***************************************************************************)
\* A call that is about to erase the hash of t at node n.
ErasedBy(c, n, t) == c.node = n /\ c.tx = t /\ c.at = "erasing"

LEMMA NotMissedIs ==
    NotMissedWhilePooled <=>
        \A n \in Nodes : \A t \in m_txsTable[n] \cap m_missedTxs[n] :
            \E c \in calls : ErasedBy(c, n, t)
BY DEF NotMissedWhilePooled, ErasedBy

LEMMA NotMissedIsPrimed ==
    NotMissedWhilePooled' <=>
        \A n \in Nodes : \A t \in m_txsTable'[n] \cap m_missedTxs'[n] :
            \E c \in calls' : ErasedBy(c, n, t)
BY DEF NotMissedWhilePooled, ErasedBy

\* A call that is not over keeps erasing what it is about to erase.
LEMMA StillErased ==
    ASSUME TypeOK, NEW c \in calls, CallStep(c), NEW x \in calls, NEW n, NEW t, ErasedBy(x, n, t),
           ~Land(x)
    PROVE  \E y \in calls' : ErasedBy(y, n, t)
<1>1. CASE x = c
  BY <1>1 DEF ErasedBy, CallStep, CheckNonce, Reserve, CheckAgain, Store
<1>2. CASE x # c
  <2>1. x \in calls'
    BY <1>2, CallStepCalls DEF Over
  <2> QED
    BY <2>1
<1> QED
  BY <1>1, <1>2

LEMMA NotMissedStep ==
    ASSUME TypeOK, NotMissedWhilePooled, [Next]_vars
    PROVE  NotMissedWhilePooled'
<1>0. \A n \in Nodes : \A t \in m_txsTable[n] \cap m_missedTxs[n] :
          \E c \in calls : ErasedBy(c, n, t)
  BY NotMissedIs
<1>1. CASE UNCHANGED <<m_txsTable, m_missedTxs>> /\ calls \subseteq calls'
  BY <1>0, <1>1, NotMissedIsPrimed
<1>2. ASSUME NEW c \in calls, CallStep(c), ~Land(c)
      PROVE  NotMissedWhilePooled'
  <2> SUFFICES ASSUME NEW n \in Nodes, NEW t \in m_txsTable'[n] \cap m_missedTxs'[n]
               PROVE  \E y \in calls' : ErasedBy(y, n, t)
    BY NotMissedIsPrimed
  <2>1. UNCHANGED m_missedTxs
    BY <1>2 DEF CallStep, CheckNonce, Reserve, CheckAgain, Store, OnlyCalls
  <2>2. CASE t \in m_txsTable[n]
    <3>1. PICK x \in calls : ErasedBy(x, n, t)
      BY <2>1, <2>2, <1>0
    <3>2. CASE Land(x)
      <4>1. x \in calls'
        BY <1>2, <3>2, CallStepCalls DEF Over, Land, CallStep
      <4> QED
        BY <3>1, <4>1
    <3>3. CASE ~Land(x)
      BY <1>2, <3>1, <3>3, StillErased
    <3> QED
      BY <3>2, <3>3
  <2>3. CASE t \notin m_txsTable[n]
    <3>1. Store(c) /\ c.node = n /\ c.tx = t
      BY <1>2, <2>3, CallStepTable DEF TypeOK
    <3>2. calls' = (calls \ {c}) \cup {Moved(c, "erasing")}
      BY <3>1, GoToIs DEF Store
    <3> QED
      BY <3>1, <3>2, MovedIs DEF ErasedBy
  <2> QED
    BY <2>2, <2>3
<1>3. ASSUME NEW c \in calls, Land(c)
      PROVE  NotMissedWhilePooled'
  <2> SUFFICES ASSUME NEW n \in Nodes, NEW t \in m_txsTable'[n] \cap m_missedTxs'[n]
               PROVE  \E y \in calls' : ErasedBy(y, n, t)
    BY NotMissedIsPrimed
  <2>1. t \in m_txsTable[n] \cap m_missedTxs[n] /\ ~(n = c.node /\ t = c.tx)
    BY <1>3, CallTyped DEF Land, LandUnchanged, TypeOK, poolVars
  <2>2. PICK x \in calls : ErasedBy(x, n, t)
    BY <2>1, <1>0
  <2>3. x # c
    BY <2>1, <2>2 DEF ErasedBy
  <2> QED
    BY <2>2, <2>3, <1>3 DEF Land, Over
<1>4. ASSUME NEW o \in Nodes, FilterStatus(o)
      PROVE  NotMissedWhilePooled'
  <2> SUFFICES ASSUME NEW n \in Nodes, NEW t \in m_txsTable'[n] \cap m_missedTxs'[n]
               PROVE  \E y \in calls' : ErasedBy(y, n, t)
    BY NotMissedIsPrimed
  <2>1. UNCHANGED <<m_txsTable, calls>>
    BY <1>4 DEF FilterStatus, callVars
  <2>2. t \in m_missedTxs[n]
    BY <1>4, <2>1 DEF FilterStatus, Unknown, TypeOK
  <2> QED
    BY <2>1, <2>2, <1>0
<1>5. ASSUME NEW o \in Nodes, NEW u \in Txs, Remove(o, u)
      PROVE  NotMissedWhilePooled'
  <2>1. UNCHANGED <<calls, m_missedTxs>> /\ \A n \in Nodes : m_txsTable'[n] \subseteq m_txsTable[n]
    BY <1>5 DEF Remove, BlockUnchanged, TypeOK
  <2> QED
    BY <2>1, <1>0, NotMissedIsPrimed
<1>6. ASSUME NEW n \in Nodes, NEW d \in Threads, NEW t \in Txs, NEW K \in SUBSET Nodes,
             Begin(n, d, t, K)
      PROVE  calls \subseteq calls'
  BY <1>6, BeginCalls
<1>7. CASE UNCHANGED vars
  BY <1>7, <1>1 DEF vars, poolVars, callVars
<1> QED
  BY <1>1, <1>2, <1>3, <1>4, <1>5, <1>6, <1>7, PoolSteps

\* A pooled transaction does not stay recorded as being fetched.
THEOREM NotMissedHolds == Spec => []NotMissedWhilePooled
<1>1. Init => NotMissedWhilePooled
  BY DEF Init, NotMissedWhilePooled
<1>2. TypeOK /\ NotMissedWhilePooled /\ [Next]_vars => NotMissedWhilePooled'
  BY NotMissedStep
<1> QED
  BY <1>1, <1>2, TypeCorrect, PTL DEF Spec
-----------------------------------------------------------------------------
(***************************************************************************)
(* A node tells others only of what it has.                                *)
(***************************************************************************)
\* The steps that fetch or send.
LEMMA SendingSteps ==
    ASSUME Next
    PROVE  UNCHANGED <<fetched, sent>> \/ \E n \in Nodes : Fetch(n) \/ Send(n)
<1> USE DEF poolVars, callVars, senderVars, threadVars, blockVars, outsideVars
<1>1. ASSUME NEW n \in Nodes, NEW t \in Txs, Submit(n, t) \/ Block(n, t)
      PROVE  UNCHANGED <<fetched, sent>>
  BY <1>1 DEF Submit, BeginUnchanged, Block, Remove, Register, Release, BlockUnchanged
<1>2. ASSUME NEW n \in Nodes, NEW d \in Threads, Importer(n, d)
      PROVE  UNCHANGED <<fetched, sent>>
  BY <1>2 DEF Importer, Import, BeginUnchanged, CallStep, CheckNonce, Reserve, CheckAgain, Store,
     Land, OnlyCalls, LandUnchanged
<1>3. ASSUME NEW n \in Nodes, SyncThread(n) \/ Requester(n)
      PROVE  UNCHANGED <<fetched, sent>> \/ Fetch(n) \/ Send(n)
  BY <1>3 DEF SyncThread, Requester, TakeBuffer, ClearFlag, FilterStatus
<1>4. ASSUME NEW n \in Nodes, NEW q \in asking[n], AskPeer(n, q)
      PROVE  UNCHANGED <<fetched, sent>>
  BY <1>4 DEF AskPeer
<1>5. ASSUME NEW m \in network, Deliver(m) \/ Lose(m)
      PROVE  UNCHANGED <<fetched, sent>>
  BY <1>5 DEF Deliver, ReceiveTxs, TakeStatus, ReceiveRequest, ReceiveResponse, Lose
<1> QED
  BY <1>1, <1>2, <1>3, <1>4, <1>5 DEF Next, Node

LEMMA SentStep ==
    ASSUME TypeOK, SentInv, [Next]_vars
    PROVE  SentInv'
<1>1. CASE UNCHANGED <<fetched, sent>> /\ Next
  BY <1>1, HeldGrows DEF SentInv
<1>2. ASSUME NEW o \in Nodes, Next, Fetch(o)
      PROVE  SentInv'
  <2>1. UNCHANGED <<sent, m_txsTable, committed>>
    BY <1>2 DEF Fetch, FetchUnchanged, outsideVars, blockVars
  <2>2. PICK T \in SUBSET Fresh(o) : fetched' = [fetched EXCEPT ![o] = T]
    BY <1>2 DEF Fetch
  <2>3. T \subseteq m_txsTable[o]
    BY DEF Fresh
  <2> QED
    BY <2>1, <2>2, <2>3 DEF SentInv, Held, TypeOK
<1>3. ASSUME NEW o \in Nodes, Next, Send(o)
      PROVE  SentInv'
  <2>1. UNCHANGED <<m_txsTable, committed>> /\ fetched' = [fetched EXCEPT ![o] = {}]
    BY <1>3 DEF Send, blockVars
  <2>2. \A a \in Broadcast(o) \cup Forward(o) : a[2] \in fetched[o]
    BY DEF Broadcast, Forward, FromRpc
  <2>3. ASSUME NEW n \in Nodes, NEW m \in Nodes, NEW t \in Txs,
               <<n, m, t>> \in sent', <<n, m, t>> \notin sent
        PROVE  n = o /\ t \in fetched[o]
    <3>1. PICK a \in Broadcast(o) \cup Forward(o) : <<n, m, t>> = <<o, a[1], a[2]>>
      BY <1>3, <2>3 DEF Send
    <3> QED
      BY <3>1, <2>2
  <2> QED
    BY <2>1, <2>3 DEF SentInv, Held, TypeOK
<1>4. CASE UNCHANGED vars
  BY <1>4 DEF vars, poolVars, senderVars, threadVars, blockVars, outsideVars, SentInv, Held
<1> QED
  BY <1>1, <1>2, <1>3, <1>4, SendingSteps

LEMMA SentAlways == Spec => []SentInv
<1>1. Init => SentInv
  BY DEF Init, SentInv
<1>2. TypeOK /\ SentInv /\ [Next]_vars => SentInv'
  BY SentStep
<1> QED
  BY <1>1, <1>2, TypeCorrect, PTL DEF Spec
-----------------------------------------------------------------------------
(***************************************************************************)
(* Nobody is taken to know what he was not told.                           *)
(***************************************************************************)
\* What HolderInv says of each place, of what nodes have after a step.
NetworkHolds(net) == \A m \in net : m.type # "request" => m.txs \subseteq Held(m.from)'
StatusHolds(st) ==
    \A n \in Nodes : \A m \in {st[n]} : m # Nothing => m.txs \subseteq Held(m.from)'
BufferHolds(buf) == \A n \in Nodes : \A a \in buf[n] : a[2] \in Held(a[1])'
ImportingHolds(imp) ==
    \A n \in Nodes, d \in Downloaders : \A a \in imp[n][d] : a[1] = n \/ a[2] \in Held(a[1])'
CallsHold(cs) == \A c \in cs : \A m \in c.known \ {c.node} : c.tx \in Held(m)'

LEMMA HolderParts ==
    ASSUME NetworkHolds(network'), StatusHolds(status'), BufferHolds(m_downloadTxsBuffer'),
           ImportingHolds(importing'), CallsHold(calls')
    PROVE  HolderInv'
BY DEF HolderInv, NetworkHolds, StatusHolds, BufferHolds, ImportingHolds, CallsHold

\* What travels or waits to be imported is held after the step.
LEMMA StillHeld ==
    ASSUME TypeOK, HolderInv, Next
    PROVE  /\ NetworkHolds(network) /\ StatusHolds(status)
           /\ BufferHolds(m_downloadTxsBuffer) /\ ImportingHolds(importing) /\ CallsHold(calls)
<1>1. NetworkHolds(network)
  <2>1. \A m \in network : m.from \in Nodes
    BY DEF TypeOK, Message
  <2> QED
    BY <2>1, HeldGrows DEF HolderInv, NetworkHolds
<1>2. StatusHolds(status)
  <2>1. \A n \in Nodes : status[n] # Nothing => status[n].from \in Nodes
    BY DEF TypeOK, Message
  <2> QED
    BY <2>1, HeldGrows DEF HolderInv, StatusHolds
<1>3. BufferHolds(m_downloadTxsBuffer)
  <2>1. \A n \in Nodes : \A a \in m_downloadTxsBuffer[n] : a[1] \in Nodes
    BY DEF TypeOK, Pairs
  <2> QED
    BY <2>1, HeldGrows DEF HolderInv, BufferHolds
<1>4. ImportingHolds(importing)
  <2>1. \A n \in Nodes, d \in Downloaders : \A a \in importing[n][d] : a[1] \in Nodes
    BY DEF TypeOK, Pairs
  <2> QED
    BY <2>1, HeldGrows DEF HolderInv, ImportingHolds
<1>5. CallsHold(calls)
  BY CallTyped, HeldGrows DEF HolderInv, CallsHold
<1> QED
  BY <1>1, <1>2, <1>3, <1>4, <1>5

LEMMA SentHolds ==
    ASSUME TypeOK, SentInv, Next, NEW n \in Nodes, Send(n), NetworkHolds(network)
    PROVE  NetworkHolds(network')
<1>1. ASSUME NEW kind, NEW A, \A a \in A : a[2] \in fetched[n],
             NEW m \in MessagesTo(n, kind, A)
      PROVE  m.txs \subseteq Held(m.from)'
  <2>1. m.from = n /\ \A t \in m.txs : \E a \in A : a[2] = t
    <3>1. PICK o \in {a[1] : a \in A} :
            m = [type |-> kind, from |-> n, to |-> o, txs |-> {t \in Txs : <<o, t>> \in A}]
      BY <1>1 DEF MessagesTo
    <3>2. \A t : <<o, t>>[2] = t
      OBVIOUS
    <3> QED
      BY <3>1, <3>2
  <2>2. m.txs \subseteq fetched[n]
    BY <1>1, <2>1
  <2> QED
    BY <2>1, <2>2, HeldGrows DEF SentInv
<1>2. \A a \in Broadcast(n) \cup Forward(n) : a[2] \in fetched[n]
  BY DEF Broadcast, Forward, FromRpc
<1>3. \A m \in MessagesTo(n, "txs", Broadcast(n)) : m.txs \subseteq Held(m.from)'
  BY <1>1, <1>2
<1>4. \A m \in MessagesTo(n, "status", Forward(n)) : m.txs \subseteq Held(m.from)'
  BY <1>1, <1>2
<1> QED
  BY <1>3, <1>4 DEF NetworkHolds, Send

\* A call knows what it was begun with.
LEMMA CallsStepHold ==
    ASSUME TypeOK, NEW c \in calls, CallStep(c), CallsHold(calls)
    PROVE  CallsHold(calls')
<1>1. CASE Over(c)
  BY <1>1 DEF CallsHold, Over
<1>2. ASSUME NEW p \in {"reserving", "inserting", "storing", "erasing"},
             calls' = (calls \ {c}) \cup {Moved(c, p)}
      PROVE  CallsHold(calls')
  <2>1. Moved(c, p).node = c.node /\ Moved(c, p).tx = c.tx /\ Moved(c, p).known = c.known
    BY MovedIs
  <2> QED
    BY <1>2, <2>1 DEF CallsHold
<1> QED
  BY <1>1, <1>2, CallStepCalls

LEMMA DeliverHolds ==
    ASSUME TypeOK, Next, NEW m \in network, Deliver(m) \/ Lose(m),
           NetworkHolds(network), StatusHolds(status), BufferHolds(m_downloadTxsBuffer),
           ImportingHolds(importing), CallsHold(calls)
    PROVE  HolderInv'
<1> USE DEF callVars, threadVars
<1>a. m \in Message /\ m.to \in Nodes /\ m.from \in Nodes /\ m.txs \subseteq Txs
  BY DEF TypeOK, Message
<1>b. m.type # "request" => m.txs \subseteq Held(m.from)'
  BY DEF NetworkHolds
<1>c. NetworkHolds(network \ {m})
  BY DEF NetworkHolds
<1>1. CASE ReceiveTxs(m)
  <2>1. \A n \in Nodes : \A a \in m_downloadTxsBuffer'[n] :
          a \in m_downloadTxsBuffer[n] \/ (a[1] = m.from /\ a[2] \in m.txs)
    BY <1>a, <1>1 DEF ReceiveTxs, TypeOK
  <2>2. BufferHolds(m_downloadTxsBuffer')
    BY <1>b, <1>1, <2>1 DEF BufferHolds, ReceiveTxs
  <2> QED
    BY <2>2, <1>1, <1>c, HolderParts DEF ReceiveTxs
<1>2. CASE TakeStatus(m)
  <2>1. StatusHolds(status')
    BY <1>a, <1>b, <1>2 DEF StatusHolds, TakeStatus, TypeOK
  <2> QED
    BY <2>1, <1>2, <1>c, HolderParts DEF TakeStatus
<1>3. CASE ReceiveRequest(m)
  <2>1. m_txsTable[m.to] \subseteq Held(m.to)'
    BY <1>a, HeldGrows DEF Held
  <2>2. NetworkHolds(network')
    BY <2>1, <1>3, <1>c DEF NetworkHolds, ReceiveRequest
  <2> QED
    BY <2>2, <1>3, HolderParts DEF ReceiveRequest
<1>4. CASE ReceiveResponse(m)
  <2>1. \A n \in Nodes, d \in Downloaders : \A a \in importing'[n][d] :
          a \in importing[n][d] \/ (a[1] = m.from /\ a[2] \in m.txs)
    BY <1>a, <1>4 DEF ReceiveResponse, TypeOK
  <2>2. ImportingHolds(importing')
    BY <1>b, <1>4, <2>1 DEF ImportingHolds, ReceiveResponse
  <2> QED
    BY <2>2, <1>4, <1>c, HolderParts DEF ReceiveResponse
<1>5. CASE Lose(m)
  BY <1>5, <1>c, HolderParts DEF Lose
<1> QED
  BY <1>1, <1>2, <1>3, <1>4, <1>5 DEF Deliver

\* What thread d imports is known by the node from which it comes.
LEMMA ImportHolds ==
    ASSUME TypeOK, Next, NEW n \in Nodes, NEW d \in Downloaders, NEW from \in Nodes,
           NEW t \in Txs, Import(n, d, from, t),
           NetworkHolds(network), StatusHolds(status), BufferHolds(m_downloadTxsBuffer),
           ImportingHolds(importing), CallsHold(calls)
    PROVE  HolderInv'
<1> DEFINE c == [node |-> n, by |-> d, tx |-> t, known |-> {from}, at |-> "verified"]
<1>1. ImportingHolds(importing')
  <2>1. \A o \in Nodes, e \in Downloaders : importing'[o][e] \subseteq importing[o][e]
    BY DEF Import, TypeOK
  <2> QED
    BY <2>1 DEF ImportingHolds
<1>2. from = n \/ t \in Held(from)'
  <2>1. <<from, t>> \in importing[n][d] /\ <<from, t>>[1] = from /\ <<from, t>>[2] = t
    BY DEF Import
  <2> QED
    BY <2>1 DEF ImportingHolds
<1>3. \A m \in c.known \ {c.node} : c.tx \in Held(m)'
  BY <1>2
<1>4. calls' = calls \/ calls' = calls \cup {c}
  BY BeginCalls DEF Import
<1> HIDE DEF c
<1>5. CallsHold(calls')
  BY <1>3, <1>4 DEF CallsHold
<1> QED
  BY <1>1, <1>5, HolderParts DEF Import, BeginUnchanged

LEMMA HolderStep ==
    ASSUME TypeOK, SentInv, HolderInv, [Next]_vars
    PROVE  HolderInv'
<1> USE DEF callVars, senderVars, threadVars, blockVars, outsideVars
<1>1. CASE UNCHANGED vars
  BY <1>1 DEF vars, poolVars, HolderInv, Held
<1>2. ASSUME Next
      PROVE  HolderInv'
  <2>0. /\ NetworkHolds(network) /\ StatusHolds(status)
        /\ BufferHolds(m_downloadTxsBuffer) /\ ImportingHolds(importing) /\ CallsHold(calls)
    BY <1>2, StillHeld
  <2> DEFINE places == <<network, status, m_downloadTxsBuffer, importing>>
  <2>1. CASE UNCHANGED places /\ CallsHold(calls')
    BY <2>0, <2>1, HolderParts
  <2>2. ASSUME NEW n \in Nodes, NEW t \in Txs, Submit(n, t)
        PROVE  HolderInv'
    <3> DEFINE c == [node |-> n, by |-> "rpc", tx |-> t, known |-> {}, at |-> "verified"]
    <3>1. calls' = calls \/ calls' = calls \cup {c}
      BY <2>2, BeginCalls DEF Submit
    <3>2. c.known = {}
      OBVIOUS
    <3> HIDE DEF c
    <3>3. CallsHold(calls')
      BY <2>0, <3>1, <3>2 DEF CallsHold
    <3>4. UNCHANGED places
      BY <2>2 DEF Submit, BeginUnchanged
    <3> QED
      BY <3>3, <3>4, <2>1
  <2>3. ASSUME NEW n \in Nodes, NEW d \in Downloaders, TakeBuffer(n, d)
        PROVE  HolderInv'
    <3>1. UNCHANGED <<network, status, calls>>
      BY <2>3 DEF TakeBuffer
    <3>2. BufferHolds(m_downloadTxsBuffer')
      BY <2>0, <2>3 DEF TakeBuffer, BufferHolds, TypeOK
    <3>3. ImportingHolds(importing')
      <4>1. \A o \in Nodes, e \in Downloaders :
              importing'[o][e] \subseteq importing[o][e] \cup m_downloadTxsBuffer[o]
        BY <2>3 DEF TakeBuffer, TypeOK
      <4> QED
        BY <4>1, <2>0 DEF ImportingHolds, BufferHolds
    <3> QED
      BY <3>1, <3>2, <3>3, <2>0, HolderParts
  <2>4. ASSUME NEW n \in Nodes,
               Fetch(n) \/ ClearFlag(n) \/ \E t \in Txs : Block(n, t)
        PROVE  UNCHANGED <<places, calls>>
    BY <2>4 DEF Fetch, FetchUnchanged, ClearFlag, Block, Remove, Register, Release, BlockUnchanged
  <2>5. ASSUME NEW n \in Nodes, Send(n)
        PROVE  HolderInv'
    BY <1>2, <2>0, <2>5, SentHolds, HolderParts DEF Send
  <2>6. ASSUME NEW n \in Nodes, FilterStatus(n)
        PROVE  HolderInv'
    <3>1. StatusHolds(status')
      BY <2>0, <2>6 DEF StatusHolds, FilterStatus, TypeOK
    <3> QED
      BY <3>1, <2>0, <2>6, HolderParts DEF FilterStatus
  <2>7. ASSUME NEW c \in calls, CallStep(c)
        PROVE  HolderInv'
    <3>1. CallsHold(calls')
      BY <2>0, <2>7, CallsStepHold
    <3>2. UNCHANGED places
      BY <2>7 DEF CallStep, CheckNonce, Reserve, CheckAgain, Store, Land, OnlyCalls, LandUnchanged
    <3> QED
      BY <3>1, <3>2, <2>1
  <2>8. ASSUME NEW n \in Nodes, NEW d \in Threads, d # "rpc", NEW from \in Nodes, NEW t \in Txs,
               Import(n, d, from, t)
        PROVE  HolderInv'
    BY <1>2, <2>0, <2>8, ImportHolds DEF Threads
  <2>9. ASSUME NEW n \in Nodes, NEW q \in asking[n], AskPeer(n, q)
        PROVE  HolderInv'
    <3>1. PICK F \in SUBSET q.txs :
            /\ importing' = [importing EXCEPT ![n]["callback"] = @ \cup ({n} \X F)]
            /\ network' = IF F = q.txs THEN network
                          ELSE network \cup {[type |-> "request", from |-> n, to |-> q.peer,
                                              txs |-> q.txs \ F]}
      BY <2>9 DEF AskPeer
    <3>2. \A m \in network' : m \in network \/ m.type = "request"
      BY <3>1
    <3>3. NetworkHolds(network')
      BY <3>2, <2>0 DEF NetworkHolds
    <3>4. \A o \in Nodes, d \in Downloaders : \A a \in importing'[o][d] :
            a \in importing[o][d] \/ a[1] = o
      BY <3>1 DEF TypeOK
    <3>5. ImportingHolds(importing')
      BY <3>4, <2>0 DEF ImportingHolds
    <3> QED
      BY <3>3, <3>5, <2>0, <2>9, HolderParts DEF AskPeer
  <2>10. ASSUME NEW m \in network, Deliver(m) \/ Lose(m)
         PROVE  HolderInv'
    BY <1>2, <2>0, <2>10, DeliverHolds
  <2> HIDE DEF places
  <2>11. ASSUME NEW n \in Nodes, Node(n)
         PROVE  HolderInv'
    BY <2>0, <2>1, <2>3, <2>4, <2>5, <2>6, <2>7, <2>8, <2>9, <2>11
    DEF Node, SyncThread, Requester, Importer, Downloaders
  <2> QED
    BY <1>2, <2>0, <2>1, <2>2, <2>4, <2>10, <2>11 DEF Next
<1> QED
  BY <1>1, <1>2

LEMMA HolderAlways == Spec => []HolderInv
<1>1. Init => HolderInv
  BY DEF Init, HolderInv, Downloaders
<1>2. TypeOK /\ SentInv /\ HolderInv /\ [Next]_vars => HolderInv'
  BY HolderStep
<1> QED
  BY <1>1, <1>2, TypeCorrect, SentAlways, PTL DEF Spec

\* Whoever n takes to know t was told of it, or has it: the goal for one object.
IsTold(n, m, t) == <<n, m, t>> \in sent \/ t \in Held(m)

LEMMA SentGrows ==
    ASSUME [Next]_vars
    PROVE  sent \subseteq sent'
<1>1. CASE UNCHANGED vars
  BY <1>1 DEF vars, outsideVars
<1>2. CASE Next
  BY <1>2, SendingSteps DEF Fetch, FetchUnchanged, outsideVars, Send
<1> QED
  BY <1>1, <1>2

LEMMA ToldStays ==
    ASSUME TypeOK, Next, NEW n \in Nodes, NEW m \in Nodes, NEW t \in Txs, IsTold(n, m, t)
    PROVE  IsTold(n, m, t)'
BY SentGrows, HeldGrows DEF IsTold

\* Send records, of an object in the table, only those to whom it sends or
\* announces the transaction.
LEMMA SendTells ==
    ASSUME TypeOK, Next, NEW n \in Nodes, Send(n),
           NEW t \in Txs, NEW m \in known'[n][t] \ {n}, m \notin known[n][t]
    PROVE  IsTold(n, m, t)'
<1>1. t \in fetched[n] /\ ~IsDetached(n, t) /\ m \in KnownOnceSent(n, t)
  BY DEF Send, TypeOK
<1>2. <<m, t>> \in Broadcast(n) \cup Forward(n)
  <2>1. CASE m \in SelectPeers(n, t)
    <3>1. <<m, t>> \in Consensus \X fetched[n] /\ <<m, t>>[1] = m /\ <<m, t>>[2] = t
      BY <1>1, <2>1, SelectedTyped
    <3> QED
      BY <3>1, <2>1 DEF Forward
  <2>2. CASE m \in KnownOnceBroadcast(n, t)
    <3>1. m \in Connected[n] \cap Consensus /\ t \in FromRpc(n)
      BY <2>2, <1>1 DEF KnownOnceBroadcast, KnownOf
    <3> QED
      BY <3>1 DEF Broadcast
  <2> QED
    BY <1>1, <2>1, <2>2 DEF KnownOnceSent
<1>3. <<n, m, t>> \in sent'
  <2>1. <<m, t>>[1] = m /\ <<m, t>>[2] = t
    OBVIOUS
  <2> QED
    BY <1>2, <2>1 DEF Send
<1> QED
  BY <1>3 DEF IsTold

\* The steps that change who is taken to know what.
LEMMA KnownSteps ==
    ASSUME Next
    PROVE  \/ UNCHANGED known
           \/ \E n \in Nodes : Send(n) \/ FilterStatus(n)
           \/ \E c \in calls : Store(c)
<1> USE DEF poolVars
<1>1. ASSUME NEW n \in Nodes, NEW t \in Txs, Submit(n, t) \/ Block(n, t)
      PROVE  UNCHANGED known
  BY <1>1 DEF Submit, BeginUnchanged, Block, Remove, Register, Release, BlockUnchanged
<1>2. ASSUME NEW n \in Nodes, NEW d \in Threads, Importer(n, d)
      PROVE  UNCHANGED known \/ \E c \in calls : Store(c)
  BY <1>2 DEF Importer, Import, BeginUnchanged, CallStep, CheckNonce, Reserve, CheckAgain,
     Land, OnlyCalls, LandUnchanged
<1>3. ASSUME NEW n \in Nodes, SyncThread(n) \/ Requester(n)
      PROVE  UNCHANGED known \/ Send(n) \/ FilterStatus(n)
  BY <1>3 DEF SyncThread, Requester, TakeBuffer, ClearFlag, Fetch, FetchUnchanged
<1>4. ASSUME NEW n \in Nodes, NEW q \in asking[n], AskPeer(n, q)
      PROVE  UNCHANGED known
  BY <1>4 DEF AskPeer
<1>5. ASSUME NEW m \in network, Deliver(m) \/ Lose(m)
      PROVE  UNCHANGED known
  BY <1>5 DEF Deliver, ReceiveTxs, TakeStatus, ReceiveRequest, ReceiveResponse, Lose
<1> QED
  BY <1>1, <1>2, <1>3, <1>4, <1>5 DEF Next, Node

LEMMA KnownStep ==
    ASSUME TypeOK, HolderInv, KnownIsTold, [Next]_vars
    PROVE  KnownIsTold'
<1>1. CASE UNCHANGED vars
  BY <1>1 DEF vars, poolVars, outsideVars, blockVars, KnownIsTold, Held
<1>2. ASSUME Next,
             NEW n \in Nodes, NEW t \in Txs, NEW m \in known'[n][t] \ {n}
      PROVE  IsTold(n, m, t)'
  <2>1. CASE m \in known[n][t]
    <3>1. m \in Nodes /\ IsTold(n, m, t)
      BY <1>2, <2>1 DEF KnownIsTold, IsTold, TypeOK
    <3> QED
      BY <3>1, <1>2, ToldStays
  <2>2. CASE m \notin known[n][t]
    <3>1. ASSUME NEW c \in calls, Store(c)
          PROVE  IsTold(n, m, t)'
      <4>1. c.node \in Nodes /\ c.tx \in Txs /\ c.known \subseteq Nodes
        BY CallTyped
      <4>2. n = c.node /\ t = c.tx /\ m \in c.known
        BY <1>2, <2>2, <3>1, <4>1 DEF Store, TypeOK
      <4>3. t \in Held(m)
        BY <1>2, <4>2 DEF HolderInv
      <4> QED
        BY <4>1, <4>2, <4>3, <1>2, HeldGrows DEF IsTold
    <3>2. ASSUME NEW o \in Nodes, Send(o)
          PROVE  IsTold(n, m, t)'
      <4>1. n = o
        BY <1>2, <2>2, <3>2 DEF Send, TypeOK
      <4> QED
        BY <4>1, <3>2, <1>2, <2>2, SendTells
    <3>3. ASSUME NEW o \in Nodes, FilterStatus(o)
          PROVE  IsTold(n, m, t)'
      <4>1. n = o /\ t \in status[n].txs /\ m = status[n].from
        BY <1>2, <2>2, <3>3 DEF FilterStatus, TypeOK
      <4>2. status[n] \in Message /\ status[n] # Nothing
        BY <4>1, <3>3 DEF FilterStatus, TypeOK
      <4>3. m \in Nodes
        BY <4>1, <4>2 DEF Message
      <4>4. t \in Held(m)
        BY <4>1, <4>2 DEF HolderInv
      <4> QED
        BY <4>3, <4>4, <1>2, HeldGrows DEF IsTold
    <3> QED
      BY <1>2, <2>2, <3>1, <3>2, <3>3, KnownSteps
  <2> QED
    BY <2>1, <2>2
<1> QED
  BY <1>1, <1>2 DEF KnownIsTold, IsTold

\* Whoever a node takes to know a transaction was told of it by this node, or
\* has it.
THEOREM KnownIsToldHolds == Spec => []KnownIsTold
<1>1. Init => KnownIsTold
  BY DEF Init, KnownIsTold
<1>2. TypeOK /\ HolderInv /\ KnownIsTold /\ [Next]_vars => KnownIsTold'
  BY KnownStep
<1> QED
  BY <1>1, <1>2, TypeCorrect, HolderAlways, PTL DEF Spec
-----------------------------------------------------------------------------
(***************************************************************************)
(* Nothing is fetched from two peers at the same time.                     *)
(***************************************************************************)
LEMMA LandStep ==
    ASSUME TypeOK, LandInv, [Next]_vars
    PROVE  LandInv'
<1>0. LandInv' <=> \A x \in calls' : x.at = "erasing" => x.tx \in Held(x.node)'
  BY DEF LandInv
<1>1. CASE UNCHANGED vars
  BY <1>1 DEF vars, poolVars, callVars, outsideVars, blockVars, LandInv, Held
<1>2. CASE Next /\ \A x \in calls' : x.at = "erasing" => x \in calls
  BY <1>0, <1>2, CallTyped, HeldGrows DEF LandInv
<1>3. ASSUME Next, NEW c \in calls, CheckNonce(c) \/ Reserve(c) \/ Land(c)
      PROVE  \A x \in calls' : x.at = "erasing" => x \in calls
  <2>1. CASE Over(c)
    BY <2>1 DEF Over
  <2>2. CASE GoTo(c, "reserving")
    BY <2>2, GoToIs, MovedIs
  <2>3. CASE GoTo(c, "inserting")
    BY <2>3, GoToIs, MovedIs
  <2> QED
    BY <1>3, <2>1, <2>2, <2>3 DEF CheckNonce, Reserve, Land
<1>4. ASSUME Next, NEW c \in calls, CheckAgain(c) \/ Store(c)
      PROVE  LandInv'
  <2>1. c.node \in Nodes /\ c.tx \in Txs
    BY CallTyped
  <2>2. PICK p \in {"storing", "erasing"} :
          /\ calls' = (calls \ {c}) \cup {Moved(c, p)}
          /\ p = "erasing" => c.tx \in Held(c.node)'
    <3>1. CASE CheckAgain(c)
      <4>1. UNCHANGED m_txsTable
        BY <3>1 DEF CheckAgain, OnlyCalls, poolVars
      <4>2. CASE c.tx \in m_txsTable[c.node]
        BY <3>1, <4>1, <4>2, GoToIs DEF CheckAgain, Held
      <4>3. CASE c.tx \notin m_txsTable[c.node]
        BY <3>1, <4>3, GoToIs DEF CheckAgain
      <4> QED
        BY <4>2, <4>3
    <3>2. CASE Store(c)
      <4>1. c.tx \in m_txsTable'[c.node]
        BY <2>1, <3>2 DEF Store, TypeOK
      <4> QED
        BY <3>2, <4>1, GoToIs DEF Store, Held
    <3> QED
      BY <1>4, <3>1, <3>2
  <2>3. /\ Moved(c, p).node = c.node /\ Moved(c, p).tx = c.tx /\ Moved(c, p).at = p
    BY MovedIs
  <2>4. ASSUME NEW x \in calls', x.at = "erasing"
        PROVE  x.tx \in Held(x.node)'
    <3>1. CASE x = Moved(c, p)
      BY <2>2, <2>3, <2>4, <3>1
    <3>2. CASE x \in calls
      BY <1>4, <2>4, <3>2, CallTyped, HeldGrows DEF LandInv
    <3> QED
      BY <2>2, <3>1, <3>2
  <2> QED
    BY <1>0, <2>4
<1>5. ASSUME NEW n \in Nodes, NEW d \in Threads, NEW t \in Txs, NEW K \in SUBSET Nodes,
             Begin(n, d, t, K)
      PROVE  \A x \in calls' : x.at = "erasing" => x \in calls
  <2> DEFINE c == [node |-> n, by |-> d, tx |-> t, known |-> K, at |-> "verified"]
  <2>1. c.at # "erasing"
    OBVIOUS
  <2>2. calls' = calls \/ calls' = calls \cup {c}
    BY <1>5, BeginCalls
  <2> HIDE DEF c
  <2> QED
    BY <2>1, <2>2
<1>6. ASSUME NEW n \in Nodes, FilterStatus(n) \/ \E t \in Txs : Remove(n, t)
      PROVE  UNCHANGED calls
  BY <1>6 DEF FilterStatus, callVars, Remove, BlockUnchanged
<1> QED
  BY <1>1, <1>2, <1>3, <1>4, <1>5, <1>6, PoolSteps DEF CallStep

LEMMA LandAlways == Spec => []LandInv
<1>1. Init => LandInv
  BY DEF Init, LandInv
<1>2. TypeOK /\ LandInv /\ [Next]_vars => LandInv'
  BY LandStep
<1> QED
  BY <1>1, <1>2, TypeCorrect, PTL DEF Spec

\* What is being fetched, and has not come, stays recorded.
LEMMA StaysMissed ==
    ASSUME TypeOK, LandInv, Next, NEW n \in Nodes, NEW t \in m_missedTxs[n],
           t \notin Held(n), Cardinality(Txs) < PoolLimit[n]
    PROVE  t \in m_missedTxs'[n]
<1>1. ASSUME NEW c \in calls, Land(c)
      PROVE  t \in m_missedTxs'[n]
  <2>1. c.tx \in Held(c.node) /\ c.node \in Nodes
    BY <1>1, CallTyped DEF Land, LandInv
  <2> QED
    BY <2>1, <1>1 DEF Land, TypeOK
<1>2. ASSUME NEW o \in Nodes, FilterStatus(o)
      PROVE  t \in m_missedTxs'[n]
  <2> DEFINE missed == m_missedTxs[o] \cup Unknown(o, status[o].txs)
  <2>1. m_missedTxs' = [m_missedTxs EXCEPT ![o] =
                           IF Cardinality(missed) >= PoolLimit[o] THEN {} ELSE missed]
    BY <1>2 DEF FilterStatus
  <2>2. missed \subseteq Txs
    BY <1>2 DEF FilterStatus, Unknown, TypeOK, Message
  <2>3. /\ Cardinality(missed) <= Cardinality(Txs)
        /\ Cardinality(missed) \in Nat /\ Cardinality(Txs) \in Nat
    BY <2>2, SyncAssumption, FS_Subset, FS_CardinalityType
  <2>4. n = o => ~(Cardinality(missed) >= PoolLimit[o])
    BY <2>3, SyncAssumption
  <2> HIDE DEF missed
  <2>5. t \in m_missedTxs[n] /\ (n = o => t \in missed)
    BY DEF missed
  <2> QED
    BY <2>1, <2>4, <2>5 DEF TypeOK
<1> QED
  <2>1. ASSUME NEW c \in calls, CallStep(c), ~Land(c)
        PROVE  UNCHANGED m_missedTxs
    BY <2>1 DEF CallStep, CheckNonce, Reserve, CheckAgain, Store, OnlyCalls
  <2>2. ASSUME NEW o \in Nodes, NEW u \in Txs, Remove(o, u)
        PROVE  UNCHANGED m_missedTxs
    BY <2>2 DEF Remove, BlockUnchanged
  <2> QED
    BY <1>1, <1>2, <2>1, <2>2, PoolSteps

\* A message that fetches t for n.
Carries(m, n, t) ==
    /\ t \in m.txs
    /\ \/ m.type = "request" /\ m.from = n
       \/ m.type = "response" /\ m.to = n

LEMMA FetchesAre ==
    ASSUME NEW n, NEW t, NEW f
    PROVE  f \in Fetches(n, t) <=>
             \/ \E q \in asking[n] : t \in q.txs /\ f = <<"ledger", q>>
             \/ \E m \in network : Carries(m, n, t) /\ f = <<"network", m>>
             \/ \E a \in importing[n]["callback"] : a[2] = t /\ f = <<"callback", a>>
BY DEF Fetches, Carries

LEMMA FetchesArePrimed ==
    ASSUME NEW n, NEW t, NEW f
    PROVE  f \in Fetches(n, t)' <=>
             \/ \E q \in asking'[n] : t \in q.txs /\ f = <<"ledger", q>>
             \/ \E m \in network' : Carries(m, n, t) /\ f = <<"network", m>>
             \/ \E a \in importing'[n]["callback"] : a[2] = t /\ f = <<"callback", a>>
BY DEF Fetches, Carries

\* A step that starts no fetch.
LEMMA NoFetch ==
    ASSUME NEW n, NEW t, asking'[n] \subseteq asking[n],
           importing'[n]["callback"] \subseteq importing[n]["callback"],
           \A m \in network' : m \in network \/ ~Carries(m, n, t)
    PROVE  Fetches(n, t)' \subseteq Fetches(n, t)
BY FetchesAre, FetchesArePrimed

\* A fetch that goes on, in another place.
Moves(n, t) ==
    \E f \in Fetches(n, t) : \E g : Fetches(n, t)' \subseteq (Fetches(n, t) \ {f}) \cup {g}

\* A fetch that starts.
Starts(n, t) ==
    /\ t \notin m_missedTxs[n] /\ t \in m_missedTxs'[n]
    /\ \E g : Fetches(n, t)' \subseteq Fetches(n, t) \cup {g}

LEMMA FilterFetches ==
    ASSUME TypeOK, NEW n \in Nodes, NEW t \in Txs, t \notin Held(n),
           Cardinality(Txs) < PoolLimit[n], NEW o \in Nodes, FilterStatus(o)
    PROVE  Fetches(n, t)' \subseteq Fetches(n, t) \/ Starts(n, t)
<1> DEFINE U == Unknown(o, status[o].txs)
           missed == m_missedTxs[o] \cup U
           q == [peer |-> status[o].from, txs |-> U]
<1>1. UNCHANGED <<importing, network>>
  BY DEF FilterStatus, outsideVars
<1>2. asking' = [asking EXCEPT ![o] = IF U = {} THEN @ ELSE @ \cup {q}]
  BY DEF FilterStatus
<1>3. CASE n = o /\ t \in U
  <2>1. Fetches(n, t)' \subseteq Fetches(n, t) \cup {<<"ledger", q>>}
    <3>1. \A p \in asking'[n] : p \in asking[n] \/ p = q
      BY <1>2 DEF TypeOK
    <3> HIDE DEF q
    <3> QED
      BY <3>1, <1>1, FetchesAre, FetchesArePrimed
  <2>2. t \in m_missedTxs'[n]
    <3>1. m_missedTxs' = [m_missedTxs EXCEPT ![o] =
                             IF Cardinality(missed) >= PoolLimit[o] THEN {} ELSE missed]
      BY DEF FilterStatus
    <3>2. missed \subseteq Txs
      BY DEF FilterStatus, Unknown, TypeOK, Message
    <3>3. /\ Cardinality(missed) <= Cardinality(Txs)
          /\ Cardinality(missed) \in Nat /\ Cardinality(Txs) \in Nat
      BY <3>2, SyncAssumption, FS_Subset, FS_CardinalityType
    <3>4. ~(Cardinality(missed) >= PoolLimit[o])
      BY <1>3, <3>3, SyncAssumption
    <3>5. t \in missed
      BY <1>3
    <3> HIDE DEF missed
    <3> QED
      BY <3>1, <3>4, <3>5, <1>3 DEF TypeOK
  <2>3. t \notin m_missedTxs[n]
    BY <1>3 DEF Unknown
  <2> QED
    BY <2>1, <2>2, <2>3 DEF Starts
<1>4. CASE ~(n = o /\ t \in U)
  <2>1. \A p \in asking'[n] : t \in p.txs => p \in asking[n]
    BY <1>2, <1>4 DEF TypeOK
  <2> QED
    BY <2>1, <1>1, FetchesAre, FetchesArePrimed
<1> QED
  BY <1>3, <1>4

LEMMA AskFetches ==
    ASSUME TypeOK, NEW n \in Nodes, NEW t \in Txs, NEW o \in Nodes, NEW q \in asking[o],
           AskPeer(o, q)
    PROVE  Fetches(n, t)' \subseteq Fetches(n, t) \/ Moves(n, t)
<1>1. PICK F \in SUBSET q.txs :
        /\ importing' = [importing EXCEPT ![o]["callback"] = @ \cup ({o} \X F)]
        /\ network' = IF F = q.txs THEN network
                      ELSE network \cup {[type |-> "request", from |-> o, to |-> q.peer,
                                          txs |-> q.txs \ F]}
  BY DEF AskPeer
<1> DEFINE r == [type |-> "request", from |-> o, to |-> q.peer, txs |-> q.txs \ F]
           b == <<o, t>>
           g == IF t \in F THEN <<"callback", b>> ELSE <<"network", r>>
<1>2. asking' = [asking EXCEPT ![o] = @ \ {q}]
  BY DEF AskPeer
<1>3. \A m \in network' : m \in network \/ m = r
  BY <1>1
<1>4. Carries(r, n, t) <=> n = o /\ t \in q.txs \ F
  BY DEF Carries
<1>5. \A a \in importing'[n]["callback"] :
        a[2] = t => a \in importing[n]["callback"] \/ (n = o /\ t \in F /\ a = b)
  BY <1>1 DEF TypeOK, Downloaders
<1> HIDE DEF r, b
<1>6. CASE n = o /\ t \in q.txs
  <2>1. <<"ledger", q>> \in Fetches(n, t)
    BY <1>6, FetchesAre
  <2>2. ASSUME NEW f \in Fetches(n, t)'
        PROVE  f \in (Fetches(n, t) \ {<<"ledger", q>>}) \cup {g}
    <3>1. CASE \E p \in asking'[n] : t \in p.txs /\ f = <<"ledger", p>>
      BY <3>1, <1>2, <1>6, FetchesAre DEF TypeOK
    <3>2. CASE \E m \in network' : Carries(m, n, t) /\ f = <<"network", m>>
      BY <3>2, <1>3, <1>4, FetchesAre
    <3>3. CASE \E a \in importing'[n]["callback"] : a[2] = t /\ f = <<"callback", a>>
      BY <3>3, <1>5, FetchesAre
    <3> QED
      BY <2>2, <3>1, <3>2, <3>3, FetchesArePrimed
  <2> QED
    BY <2>1, <2>2 DEF Moves
<1>7. CASE ~(n = o /\ t \in q.txs)
  <2>1. ASSUME NEW f \in Fetches(n, t)'
        PROVE  f \in Fetches(n, t)
    <3>1. CASE \E p \in asking'[n] : t \in p.txs /\ f = <<"ledger", p>>
      BY <3>1, <1>2, FetchesAre DEF TypeOK
    <3>2. CASE \E m \in network' : Carries(m, n, t) /\ f = <<"network", m>>
      BY <3>2, <1>3, <1>4, <1>7, FetchesAre
    <3>3. CASE \E a \in importing'[n]["callback"] : a[2] = t /\ f = <<"callback", a>>
      BY <3>3, <1>5, <1>7, FetchesAre
    <3> QED
      BY <2>1, <3>1, <3>2, <3>3, FetchesArePrimed
  <2> QED
    BY <2>1
<1> QED
  BY <1>6, <1>7

LEMMA RequestFetches ==
    ASSUME TypeOK, NEW n \in Nodes, NEW t \in Txs, NEW m \in network, ReceiveRequest(m)
    PROVE  Fetches(n, t)' \subseteq Fetches(n, t) \/ Moves(n, t)
<1> DEFINE r == [type |-> "response", from |-> m.to, to |-> m.from,
                 txs |-> m.txs \cap m_txsTable[m.to]]
<1>1. UNCHANGED <<importing, asking>>
  BY DEF ReceiveRequest, threadVars
<1>2. network' = (network \ {m}) \cup {r}
  BY DEF ReceiveRequest
<1>3. Carries(r, n, t) => Carries(m, n, t)
  BY DEF ReceiveRequest, Carries
<1> HIDE DEF r
<1>4. CASE Carries(r, n, t)
  <2>1. <<"network", m>> \in Fetches(n, t)
    BY <1>3, <1>4, FetchesAre
  <2>2. ASSUME NEW f \in Fetches(n, t)'
        PROVE  f \in (Fetches(n, t) \ {<<"network", m>>}) \cup {<<"network", r>>}
    <3>1. CASE \E p \in asking'[n] : t \in p.txs /\ f = <<"ledger", p>>
      BY <3>1, <1>1, FetchesAre
    <3>2. CASE \E x \in network' : Carries(x, n, t) /\ f = <<"network", x>>
      BY <3>2, <1>2, FetchesAre
    <3>3. CASE \E a \in importing'[n]["callback"] : a[2] = t /\ f = <<"callback", a>>
      BY <3>3, <1>1, FetchesAre
    <3> QED
      BY <2>2, <3>1, <3>2, <3>3, FetchesArePrimed
  <2> QED
    BY <2>1, <2>2 DEF Moves
<1>5. CASE ~Carries(r, n, t)
  BY <1>1, <1>2, <1>5, NoFetch
<1> QED
  BY <1>4, <1>5

LEMMA ResponseFetches ==
    ASSUME TypeOK, NEW n \in Nodes, NEW t \in Txs, NEW m \in network, ReceiveResponse(m)
    PROVE  Fetches(n, t)' \subseteq Fetches(n, t) \/ Moves(n, t)
<1> DEFINE b == <<m.from, t>>
<1>1. UNCHANGED asking /\ network' = network \ {m}
  BY DEF ReceiveResponse
<1>a. m \in Message /\ m.to \in Nodes /\ m.txs \subseteq Txs
  BY DEF TypeOK, Message
<1>2. importing' = [importing EXCEPT ![m.to]["callback"] = @ \cup ({m.from} \X m.txs)]
  BY DEF ReceiveResponse
<1>3. CASE Carries(m, n, t)
  <2>1. <<"network", m>> \in Fetches(n, t)
    BY <1>3, FetchesAre
  <2>2. \A a \in importing'[n]["callback"] : a[2] = t => a \in importing[n]["callback"] \/ a = b
    BY <1>a, <1>2 DEF TypeOK, Downloaders
  <2> HIDE DEF b
  <2>3. ASSUME NEW f \in Fetches(n, t)'
        PROVE  f \in (Fetches(n, t) \ {<<"network", m>>}) \cup {<<"callback", b>>}
    <3>1. CASE \E p \in asking'[n] : t \in p.txs /\ f = <<"ledger", p>>
      BY <3>1, <1>1, FetchesAre
    <3>2. CASE \E x \in network' : Carries(x, n, t) /\ f = <<"network", x>>
      BY <3>2, <1>1, FetchesAre
    <3>3. CASE \E a \in importing'[n]["callback"] : a[2] = t /\ f = <<"callback", a>>
      BY <3>3, <2>2, FetchesAre
    <3> QED
      BY <2>3, <3>1, <3>2, <3>3, FetchesArePrimed
  <2> QED
    BY <2>1, <2>3 DEF Moves
<1>4. CASE ~Carries(m, n, t)
  <2>1. \A a \in importing'[n]["callback"] : a[2] = t => a \in importing[n]["callback"]
    <3>1. ~(n = m.to /\ t \in m.txs)
      BY <1>4 DEF ReceiveResponse, Carries
    <3> QED
      BY <1>a, <1>2, <3>1 DEF TypeOK, Downloaders
  <2> QED
    BY <1>1, <2>1, FetchesAre, FetchesArePrimed
<1> QED
  BY <1>3, <1>4

\* What a step does to the fetches of a transaction that has not come.
LEMMA FetchSteps ==
    ASSUME TypeOK, Next, NEW n \in Nodes, NEW t \in Txs, t \notin Held(n),
           Cardinality(Txs) < PoolLimit[n]
    PROVE  Fetches(n, t)' \subseteq Fetches(n, t) \/ Moves(n, t) \/ Starts(n, t)
<1> USE DEF senderVars, threadVars
<1>1. ASSUME UNCHANGED <<asking, importing, network>>
      PROVE  Fetches(n, t)' \subseteq Fetches(n, t)
  BY <1>1, NoFetch
<1>2. ASSUME NEW o \in Nodes, NEW u \in Txs, Submit(o, u) \/ Block(o, u)
      PROVE  Fetches(n, t)' \subseteq Fetches(n, t)
  BY <1>1, <1>2 DEF Submit, BeginUnchanged, Block, Remove, Register, Release, BlockUnchanged
<1>3. ASSUME NEW c \in calls, CallStep(c)
      PROVE  Fetches(n, t)' \subseteq Fetches(n, t)
  BY <1>1, <1>3
  DEF CallStep, CheckNonce, Reserve, CheckAgain, Store, Land, OnlyCalls, LandUnchanged, outsideVars
<1>4. ASSUME NEW o \in Nodes, NEW d \in Downloaders, d # "callback", TakeBuffer(o, d)
      PROVE  Fetches(n, t)' \subseteq Fetches(n, t)
  <2>1. importing'[n]["callback"] = importing[n]["callback"]
    BY <1>4 DEF TakeBuffer, TypeOK, Downloaders
  <2>2. UNCHANGED <<asking, network>>
    BY <1>4 DEF TakeBuffer, outsideVars
  <2> QED
    BY <2>1, <2>2, NoFetch
<1>5. ASSUME NEW o \in Nodes, Send(o)
      PROVE  Fetches(n, t)' \subseteq Fetches(n, t)
  <2>1. UNCHANGED <<asking, importing>>
    BY <1>5 DEF Send
  <2>2. \A kind \in {"txs", "status"} : \A A : \A m \in MessagesTo(o, kind, A) : m.type = kind
    BY DEF MessagesTo
  <2>3. \A m \in network' : m \in network \/ m.type \in {"txs", "status"}
    BY <1>5, <2>2 DEF Send
  <2>4. \A m \in network' : m \in network \/ ~Carries(m, n, t)
    BY <2>3 DEF Carries
  <2> QED
    BY <2>1, <2>4, NoFetch
<1>6. ASSUME NEW o \in Nodes, NEW d \in Downloaders, NEW from \in Nodes, NEW u \in Txs,
             Import(o, d, from, u)
      PROVE  Fetches(n, t)' \subseteq Fetches(n, t)
  <2>1. importing'[n]["callback"] \subseteq importing[n]["callback"]
    BY <1>6 DEF Import, TypeOK, Downloaders
  <2>2. UNCHANGED <<asking, network>>
    BY <1>6 DEF Import, BeginUnchanged
  <2> QED
    BY <2>1, <2>2, NoFetch
<1>7. ASSUME NEW m \in network, ReceiveTxs(m) \/ TakeStatus(m) \/ Lose(m)
      PROVE  Fetches(n, t)' \subseteq Fetches(n, t)
  <2>1. network' \subseteq network /\ UNCHANGED <<asking, importing>>
    BY <1>7 DEF ReceiveTxs, TakeStatus, Lose
  <2> QED
    BY <2>1, NoFetch
<1>8. ASSUME NEW o \in Nodes, ClearFlag(o) \/ Fetch(o)
      PROVE  Fetches(n, t)' \subseteq Fetches(n, t)
  BY <1>1, <1>8 DEF ClearFlag, Fetch, FetchUnchanged, outsideVars
<1>9. ASSUME NEW o \in Nodes, NEW d \in Threads, Importer(o, d)
      PROVE  Fetches(n, t)' \subseteq Fetches(n, t)
  BY <1>9, <1>3, <1>6 DEF Importer, Threads
<1>10. ASSUME NEW o \in Nodes, SyncThread(o) \/ Requester(o), ~FilterStatus(o)
       PROVE  Fetches(n, t)' \subseteq Fetches(n, t)
  <2>1. \A d \in {"sync", "requester"} : d \in Downloaders /\ d # "callback"
    BY DEF Downloaders
  <2> QED
    BY <1>10, <2>1, <1>4, <1>5, <1>8 DEF SyncThread, Requester
<1>11. ASSUME NEW o \in Nodes, Node(o)
       PROVE  Fetches(n, t)' \subseteq Fetches(n, t) \/ Moves(n, t) \/ Starts(n, t)
  BY <1>11, <1>9, <1>10, FilterFetches, AskFetches DEF Node, Requester
<1> QED
  BY <1>2, <1>7, <1>11, RequestFetches, ResponseFetches DEF Next, Deliver

LEMMA FetchStep ==
    ASSUME TypeOK, LandInv, FetchInv, [Next]_vars
    PROVE  FetchInv'
<1>1. CASE UNCHANGED vars
  BY <1>1 DEF vars, poolVars, threadVars, outsideVars, blockVars, FetchInv, Held, Fetches
<1>2. ASSUME Next, NEW n \in Nodes, NEW t \in Txs, t \notin Held(n)', Cardinality(Txs) < PoolLimit[n]
      PROVE  /\ Fetches(n, t)' # {} => t \in m_missedTxs'[n]
             /\ \A f, g \in Fetches(n, t)' : f = g
  <2>1. t \notin Held(n)
    BY <1>2, HeldGrows
  <2>2. /\ Fetches(n, t) # {} => t \in m_missedTxs[n]
        /\ \A f, g \in Fetches(n, t) : f = g
    BY <1>2, <2>1 DEF FetchInv
  <2>3. t \in m_missedTxs[n] => t \in m_missedTxs'[n]
    BY <1>2, <2>1, StaysMissed
  <2>4. CASE Fetches(n, t)' \subseteq Fetches(n, t)
    BY <2>2, <2>3, <2>4
  <2>5. CASE Moves(n, t)
    BY <2>2, <2>3, <2>5 DEF Moves
  <2>6. CASE Starts(n, t)
    BY <2>2, <2>6 DEF Starts
  <2> QED
    BY <1>2, <2>1, <2>4, <2>5, <2>6, FetchSteps
<1> QED
  BY <1>1, <1>2 DEF FetchInv

\* A transaction that a node lacks is not fetched from two peers at the same
\* time, as long as the pool may hold more than there is to fetch.
THEOREM OneFetchHolds == Spec => []OneFetch
<1>1. Init => FetchInv
  BY DEF Init, FetchInv, Fetches, Downloaders
<1>2. TypeOK /\ LandInv /\ FetchInv /\ [Next]_vars => FetchInv'
  BY FetchStep
<1>3. FetchInv => OneFetch
  BY DEF FetchInv, OneFetch
<1> QED
  BY <1>1, <1>2, <1>3, TypeCorrect, LandAlways, PTL DEF Spec
-----------------------------------------------------------------------------
(***************************************************************************)
(* Transactions spread only by gossip (Gossip).                            *)
(***************************************************************************)
\* m told n of all transactions in T, as told records.
TellsAll(told, m, n, T) == \A t \in T : <<m, n, t>> \in told

\* Some node told n of t.
WasTold(told, n, t) == \E m \in Nodes : <<m, n, t>> \in told

(***************************************************************************)
(* Whatever travels to a node, the node from which it comes told it of;    *)
(* whoever is asked for a transaction told of it the one who asks; and     *)
(* what waits to be imported, or is on its way into the pool, a client     *)
(* submitted or some node told of.                                         *)
(***************************************************************************)
MessageTold(told, m) ==
    IF m.type = "request" THEN TellsAll(told, m.to, m.from, m.txs)
                          ELSE TellsAll(told, m.from, m.to, m.txs)

CallTold(subm, told, c) ==
    IF c.by = "rpc" THEN <<c.node, c.tx>> \in subm ELSE WasTold(told, c.node, c.tx)

PathNetwork(told, net) == \A m \in net : MessageTold(told, m)
PathStatus(told, st) ==
    \A n \in Nodes : \A m \in {st[n]} : m # Nothing => TellsAll(told, m.from, n, m.txs)
PathAsking(told, ask) == \A n \in Nodes : \A q \in ask[n] : TellsAll(told, q.peer, n, q.txs)
PathBuffer(told, buf) == \A n \in Nodes : \A a \in buf[n] : WasTold(told, n, a[2])
PathImporting(told, imp) ==
    \A n \in Nodes, d \in Downloaders : \A a \in imp[n][d] : WasTold(told, n, a[2])
PathCalls(subm, told, cs) == \A c \in cs : CallTold(subm, told, c)

PathInv ==
    /\ PathNetwork(sent, network)
    /\ PathStatus(sent, status)
    /\ PathAsking(sent, asking)
    /\ PathBuffer(sent, m_downloadTxsBuffer)
    /\ PathImporting(sent, importing)
    /\ PathCalls(submitted, sent, calls)

LEMMA PathParts ==
    ASSUME PathNetwork(sent', network'), PathStatus(sent', status'), PathAsking(sent', asking'),
           PathBuffer(sent', m_downloadTxsBuffer'), PathImporting(sent', importing'),
           PathCalls(submitted', sent', calls')
    PROVE  PathInv'
BY DEF PathInv

LEMMA SubmittedGrows ==
    ASSUME [Next]_vars
    PROVE  submitted \subseteq submitted'
<1> USE DEF outsideVars
<1>1. ASSUME NEW n \in Nodes, NEW t \in Txs, Submit(n, t) \/ Block(n, t)
      PROVE  submitted \subseteq submitted'
  BY <1>1 DEF Submit, Block, Remove, Register, Release, BlockUnchanged
<1>2. ASSUME NEW n \in Nodes, NEW d \in Threads, Importer(n, d)
      PROVE  UNCHANGED submitted
  BY <1>2 DEF Importer, Import, BeginUnchanged, CallStep, CheckNonce, Reserve, CheckAgain, Store,
     Land, OnlyCalls, LandUnchanged
<1>3. ASSUME NEW n \in Nodes, SyncThread(n) \/ Requester(n)
      PROVE  UNCHANGED submitted
  BY <1>3 DEF SyncThread, Requester, TakeBuffer, ClearFlag, FilterStatus, Fetch, FetchUnchanged,
     Send
<1>4. ASSUME NEW n \in Nodes, NEW q \in asking[n], AskPeer(n, q)
      PROVE  UNCHANGED submitted
  BY <1>4 DEF AskPeer
<1>5. ASSUME NEW m \in network, Deliver(m) \/ Lose(m)
      PROVE  UNCHANGED submitted
  BY <1>5 DEF Deliver, ReceiveTxs, TakeStatus, ReceiveRequest, ReceiveResponse, Lose
<1>6. CASE UNCHANGED vars
  BY <1>6 DEF vars
<1> QED
  BY <1>1, <1>2, <1>3, <1>4, <1>5, <1>6 DEF Next, Node

\* What was told stays told.
LEMMA StillTold ==
    ASSUME PathInv, [Next]_vars
    PROVE  /\ PathNetwork(sent', network) /\ PathStatus(sent', status)
           /\ PathAsking(sent', asking) /\ PathBuffer(sent', m_downloadTxsBuffer)
           /\ PathImporting(sent', importing) /\ PathCalls(submitted', sent', calls)
<1>1. \A m, n, T : TellsAll(sent, m, n, T) => TellsAll(sent', m, n, T)
  BY SentGrows DEF TellsAll
<1>2. \A n, t : WasTold(sent, n, t) => WasTold(sent', n, t)
  BY SentGrows DEF WasTold
<1>3. PathNetwork(sent', network)
  BY <1>1 DEF PathInv, PathNetwork, MessageTold
<1>4. PathStatus(sent', status)
  BY <1>1 DEF PathInv, PathStatus
<1>5. PathAsking(sent', asking)
  BY <1>1 DEF PathInv, PathAsking
<1>6. PathBuffer(sent', m_downloadTxsBuffer) /\ PathImporting(sent', importing)
  BY <1>2 DEF PathInv, PathBuffer, PathImporting
<1>7. PathCalls(submitted', sent', calls)
  BY <1>2, SubmittedGrows DEF PathInv, PathCalls, CallTold
<1> QED
  BY <1>3, <1>4, <1>5, <1>6, <1>7

LEMMA SentPath ==
    ASSUME NEW n \in Nodes, Send(n), PathNetwork(sent', network)
    PROVE  PathNetwork(sent', network')
<1>1. ASSUME NEW kind \in {"txs", "status"}, NEW A,
             A \subseteq Broadcast(n) \cup Forward(n),
             NEW m \in MessagesTo(n, kind, A)
      PROVE  MessageTold(sent', m)
  <2>1. PICK o \in {a[1] : a \in A} :
          m = [type |-> kind, from |-> n, to |-> o, txs |-> {t \in Txs : <<o, t>> \in A}]
    BY <1>1 DEF MessagesTo
  <2>2. ASSUME NEW t \in m.txs PROVE <<n, o, t>> \in sent'
    <3>1. <<o, t>> \in Broadcast(n) \cup Forward(n)
      BY <1>1, <2>1, <2>2
    <3>2. <<o, t>>[1] = o /\ <<o, t>>[2] = t
      OBVIOUS
    <3> QED
      BY <3>1, <3>2 DEF Send
  <2> QED
    BY <2>1, <2>2 DEF MessageTold, TellsAll
<1>2. \A m \in MessagesTo(n, "txs", Broadcast(n)) : MessageTold(sent', m)
  BY <1>1
<1>3. \A m \in MessagesTo(n, "status", Forward(n)) : MessageTold(sent', m)
  BY <1>1
<1> QED
  BY <1>2, <1>3 DEF PathNetwork, Send

\* A message that is handled: what it brings was told of.
LEMMA DeliverPath ==
    ASSUME TypeOK, PathInv, NEW m \in network, [Next]_vars, Deliver(m) \/ Lose(m)
    PROVE  PathInv'
<1> USE DEF callVars, threadVars
<1>0. /\ PathNetwork(sent', network) /\ PathStatus(sent', status) /\ PathAsking(sent', asking)
      /\ PathBuffer(sent', m_downloadTxsBuffer) /\ PathImporting(sent', importing)
      /\ PathCalls(submitted', sent', calls)
  BY StillTold
<1>a. m \in Message /\ m.to \in Nodes /\ m.from \in Nodes /\ m.txs \subseteq Txs
  BY DEF TypeOK, Message
<1>b. IF m.type = "request" THEN \A t \in m.txs : <<m.to, m.from, t>> \in sent'
                            ELSE \A t \in m.txs : <<m.from, m.to, t>> \in sent'
  BY <1>0 DEF PathNetwork, MessageTold, TellsAll
<1>c. PathNetwork(sent', network \ {m})
  BY <1>0 DEF PathNetwork
<1>d. UNCHANGED calls
  BY DEF Deliver, ReceiveTxs, TakeStatus, ReceiveRequest, ReceiveResponse, Lose
<1>1. CASE ReceiveTxs(m)
  <2>1. \A n \in Nodes : \A a \in m_downloadTxsBuffer'[n] :
          a \in m_downloadTxsBuffer[n] \/ (n = m.to /\ a[2] \in m.txs)
    BY <1>a, <1>1 DEF ReceiveTxs, TypeOK
  <2>2. \A t \in m.txs : WasTold(sent', m.to, t)
    BY <1>a, <1>b, <1>1 DEF ReceiveTxs, WasTold
  <2>3. PathBuffer(sent', m_downloadTxsBuffer')
    BY <2>1, <2>2, <1>0 DEF PathBuffer
  <2> QED
    BY <2>3, <1>1, <1>c, <1>d, <1>0, PathParts DEF ReceiveTxs
<1>2. CASE TakeStatus(m)
  <2>1. status' = [status EXCEPT ![m.to] = m] /\ m.type = "status"
    BY <1>2 DEF TakeStatus
  <2>2. TellsAll(sent', m.from, m.to, m.txs)
    BY <1>b, <2>1 DEF TellsAll
  <2>3. PathStatus(sent', status')
    BY <1>a, <2>1, <2>2, <1>0 DEF PathStatus, TypeOK
  <2> QED
    BY <2>3, <1>2, <1>c, <1>d, <1>0, PathParts DEF TakeStatus
<1>3. CASE ReceiveRequest(m)
  <2> DEFINE r == [type |-> "response", from |-> m.to, to |-> m.from,
                   txs |-> m.txs \cap m_txsTable[m.to]]
  <2>1. network' = (network \ {m}) \cup {r} /\ m.type = "request"
    BY <1>3 DEF ReceiveRequest
  <2>2. MessageTold(sent', r)
    BY <1>b, <2>1 DEF MessageTold, TellsAll
  <2> HIDE DEF r
  <2>3. PathNetwork(sent', network')
    BY <1>c, <2>1, <2>2 DEF PathNetwork
  <2> QED
    BY <2>3, <1>3, <1>d, <1>0, PathParts DEF ReceiveRequest
<1>4. CASE ReceiveResponse(m)
  <2>1. \A n \in Nodes, d \in Downloaders : \A a \in importing'[n][d] :
          a \in importing[n][d] \/ (n = m.to /\ a[2] \in m.txs)
    BY <1>a, <1>4 DEF ReceiveResponse, TypeOK
  <2>2. \A t \in m.txs : WasTold(sent', m.to, t)
    BY <1>a, <1>b, <1>4 DEF ReceiveResponse, WasTold
  <2>3. PathImporting(sent', importing')
    BY <2>1, <2>2, <1>0 DEF PathImporting
  <2> QED
    BY <2>3, <1>4, <1>c, <1>d, <1>0, PathParts DEF ReceiveResponse
<1>5. CASE Lose(m)
  BY <1>5, <1>c, <1>d, <1>0, PathParts DEF Lose
<1> QED
  BY <1>1, <1>2, <1>3, <1>4, <1>5 DEF Deliver

\* A call that goes on brings what it brought.
LEMMA CallsStepPath ==
    ASSUME TypeOK, NEW c \in calls, CallStep(c), NEW subm, NEW told, PathCalls(subm, told, calls)
    PROVE  PathCalls(subm, told, calls')
<1>1. CASE Over(c)
  BY <1>1 DEF PathCalls, Over
<1>2. ASSUME NEW p \in {"reserving", "inserting", "storing", "erasing"},
             calls' = (calls \ {c}) \cup {Moved(c, p)}
      PROVE  PathCalls(subm, told, calls')
  <2>1. Moved(c, p).node = c.node /\ Moved(c, p).tx = c.tx /\ Moved(c, p).by = c.by
    BY MovedIs
  <2> QED
    BY <1>2, <2>1 DEF PathCalls, CallTold
<1> QED
  BY <1>1, <1>2, CallStepCalls

LEMMA SubmitPath ==
    ASSUME PathInv, [Next]_vars, NEW n \in Nodes, NEW t \in Txs, Submit(n, t)
    PROVE  PathInv'
<1> DEFINE c == [node |-> n, by |-> "rpc", tx |-> t, known |-> {}, at |-> "verified"]
<1>1. calls' = calls \/ calls' = calls \cup {c}
  BY BeginCalls DEF Submit
<1>2. CallTold(submitted', sent', c)
  BY DEF Submit, CallTold
<1> HIDE DEF c
<1>3. PathCalls(submitted', sent', calls')
  BY <1>1, <1>2, StillTold DEF PathCalls
<1> QED
  BY <1>3, StillTold, PathParts DEF Submit, BeginUnchanged

LEMMA ImportPath ==
    ASSUME TypeOK, PathInv, [Next]_vars, NEW n \in Nodes, NEW d \in Downloaders,
           NEW from \in Nodes, NEW t \in Txs, Import(n, d, from, t)
    PROVE  PathInv'
<1> DEFINE c == [node |-> n, by |-> d, tx |-> t, known |-> {from}, at |-> "verified"]
<1>1. calls' = calls \/ calls' = calls \cup {c}
  BY BeginCalls DEF Import
<1>2. WasTold(sent', n, t)
  <2>1. <<from, t>> \in importing[n][d] /\ <<from, t>>[2] = t
    BY DEF Import
  <2> QED
    BY <2>1, StillTold DEF PathImporting
<1>3. CallTold(submitted', sent', c)
  BY <1>2 DEF CallTold, Downloaders
<1> HIDE DEF c
<1>4. PathCalls(submitted', sent', calls')
  BY <1>1, <1>3, StillTold DEF PathCalls
<1>5. \A o \in Nodes, e \in Downloaders : importing'[o][e] \subseteq importing[o][e]
  BY DEF Import, TypeOK
<1>6. PathImporting(sent', importing')
  BY <1>5, StillTold DEF PathImporting
<1> QED
  BY <1>4, <1>6, StillTold, PathParts DEF Import, BeginUnchanged

LEMMA AskPath ==
    ASSUME TypeOK, PathInv, [Next]_vars, NEW n \in Nodes, NEW q \in asking[n], AskPeer(n, q)
    PROVE  PathInv'
<1>1. PICK F \in SUBSET q.txs :
        /\ importing' = [importing EXCEPT ![n]["callback"] = @ \cup ({n} \X F)]
        /\ network' = IF F = q.txs THEN network
                      ELSE network \cup {[type |-> "request", from |-> n, to |-> q.peer,
                                          txs |-> q.txs \ F]}
  BY DEF AskPeer
<1> DEFINE r == [type |-> "request", from |-> n, to |-> q.peer, txs |-> q.txs \ F]
<1>2. TellsAll(sent', q.peer, n, q.txs)
  BY StillTold DEF PathAsking
<1>3. MessageTold(sent', r)
  BY <1>2 DEF MessageTold, TellsAll
<1>4. \A m \in network' : m \in network \/ m = r
  BY <1>1
<1> HIDE DEF r
<1>5. PathNetwork(sent', network')
  BY <1>3, <1>4, StillTold DEF PathNetwork
<1>6. PathAsking(sent', asking')
  BY StillTold DEF PathAsking, AskPeer, TypeOK
<1>7. \A t \in q.txs : WasTold(sent', n, t)
  <2>1. q.peer \in Nodes
    BY DEF TypeOK
  <2> QED
    BY <2>1, <1>2 DEF TellsAll, WasTold
<1>8. \A o \in Nodes, d \in Downloaders : \A a \in importing'[o][d] :
        a \in importing[o][d] \/ (o = n /\ a[2] \in F)
  BY <1>1 DEF TypeOK
<1>9. PathImporting(sent', importing')
  BY <1>7, <1>8, StillTold DEF PathImporting
<1> QED
  BY <1>5, <1>6, <1>9, StillTold, PathParts DEF AskPeer, callVars

LEMMA FilterPath ==
    ASSUME TypeOK, PathInv, [Next]_vars, NEW n \in Nodes, FilterStatus(n)
    PROVE  PathInv'
<1> DEFINE U == Unknown(n, status[n].txs)
<1>1. PathStatus(sent', status')
  BY StillTold DEF PathStatus, FilterStatus, TypeOK
<1>2. TellsAll(sent', status[n].from, n, U)
  <2>1. U \subseteq status[n].txs
    BY DEF Unknown
  <2>2. TellsAll(sent', status[n].from, n, status[n].txs)
    BY StillTold DEF PathStatus, FilterStatus
  <2> QED
    BY <2>1, <2>2 DEF TellsAll
<1>3. \A o \in Nodes : \A q \in asking'[o] :
        q \in asking[o] \/ (o = n /\ q = [peer |-> status[n].from, txs |-> U])
  BY DEF FilterStatus, TypeOK
<1> HIDE DEF U
<1>4. PathAsking(sent', asking')
  BY <1>2, <1>3, StillTold DEF PathAsking
<1> QED
  BY <1>1, <1>4, StillTold, PathParts DEF FilterStatus, callVars, outsideVars

LEMMA PathStep ==
    ASSUME TypeOK, PathInv, [Next]_vars
    PROVE  PathInv'
<1> USE DEF callVars, senderVars, threadVars, outsideVars
<1>0. /\ PathNetwork(sent', network) /\ PathStatus(sent', status) /\ PathAsking(sent', asking)
      /\ PathBuffer(sent', m_downloadTxsBuffer) /\ PathImporting(sent', importing)
      /\ PathCalls(submitted', sent', calls)
  BY StillTold
<1> DEFINE places == <<network, status, asking, m_downloadTxsBuffer, importing>>
<1>1. CASE UNCHANGED <<places, calls>>
  BY <1>0, <1>1, PathParts
<1>2. ASSUME NEW n \in Nodes, Fetch(n) \/ ClearFlag(n) \/ \E t \in Txs : Block(n, t)
      PROVE  UNCHANGED <<places, calls>>
  BY <1>2 DEF Fetch, FetchUnchanged, ClearFlag, Block, Remove, Register, Release, BlockUnchanged
<1>3. ASSUME NEW n \in Nodes, NEW d \in Downloaders, TakeBuffer(n, d)
      PROVE  PathInv'
  <2>1. PathBuffer(sent', m_downloadTxsBuffer')
    BY <1>0, <1>3 DEF TakeBuffer, PathBuffer, TypeOK
  <2>2. PathImporting(sent', importing')
    <3>1. \A o \in Nodes, e \in Downloaders :
            importing'[o][e] \subseteq importing[o][e] \cup m_downloadTxsBuffer[o]
      BY <1>3 DEF TakeBuffer, TypeOK
    <3> QED
      BY <3>1, <1>0 DEF PathImporting, PathBuffer
  <2> QED
    BY <2>1, <2>2, <1>0, <1>3, PathParts DEF TakeBuffer
<1>4. ASSUME NEW n \in Nodes, Send(n)
      PROVE  PathInv'
  BY <1>0, <1>4, SentPath, PathParts DEF Send
<1>5. ASSUME NEW c \in calls, CallStep(c)
      PROVE  PathInv'
  <2>1. PathCalls(submitted', sent', calls')
    BY <1>0, <1>5, CallsStepPath
  <2>2. UNCHANGED places
    BY <1>5 DEF CallStep, CheckNonce, Reserve, CheckAgain, Store, Land, OnlyCalls, LandUnchanged
  <2> QED
    BY <1>0, <2>1, <2>2, PathParts
<1>6. ASSUME NEW n \in Nodes, NEW d \in Threads, Importer(n, d)
      PROVE  PathInv'
  BY <1>5, <1>6, ImportPath DEF Importer, Threads
<1>7. CASE UNCHANGED vars
  BY <1>1, <1>7 DEF vars
<1> HIDE DEF places
<1>8. ASSUME NEW n \in Nodes, Node(n)
      PROVE  PathInv'
  BY <1>1, <1>2, <1>3, <1>4, <1>6, <1>8, FilterPath, AskPath
  DEF Node, SyncThread, Requester, Downloaders
<1> QED
  BY <1>1, <1>2, <1>7, <1>8, SubmitPath, DeliverPath DEF Next

LEMMA PathAlways == Spec => []PathInv
<1>1. Init => PathInv
  BY DEF Init, PathInv, PathNetwork, PathStatus, PathAsking, PathBuffer, PathImporting, PathCalls,
     Downloaders
<1>2. TypeOK /\ PathInv /\ [Next]_vars => PathInv'
  BY PathStep
<1> QED
  BY <1>1, <1>2, TypeCorrect, PTL DEF Spec

\* What a call stores was submitted to the node, or a node told it of it.
LEMMA CallMaps ==
    ASSUME TypeOK, PathInv, NEW c \in calls, CallStep(c)
    PROVE  [Spread!Next]_(Spread!vars)
<1>1. UNCHANGED <<committed, submitted, sent>>
  BY DEF CallStep, CheckNonce, Reserve, CheckAgain, Store, Land, OnlyCalls, LandUnchanged,
     outsideVars, blockVars
<1>2. CASE UNCHANGED m_txsTable
  BY <1>1, <1>2 DEF Spread!vars
<1>3. ASSUME c.node \in Nodes, c.tx \in Txs,
             m_txsTable' = [m_txsTable EXCEPT ![c.node] = @ \cup {c.tx}]
      PROVE  Spread!Next
  <2>1. <<c.node, c.tx>> \in submitted \/ \E m \in Nodes : <<m, c.node, c.tx>> \in sent
    BY DEF PathInv, PathCalls, CallTold, WasTold
  <2>2. Spread!Pool(c.node, c.tx)
    BY <1>1, <1>3, <2>1 DEF Spread!Pool
  <2> QED
    BY <1>3, <2>2 DEF Spread!Next
<1> QED
  BY <1>2, <1>3, CallStepTable

LEMMA SubmitMaps ==
    ASSUME NEW n \in Nodes, NEW t \in Txs, Submit(n, t)
    PROVE  Spread!Submit(n, t)
BY DEF Submit, BeginUnchanged, Spread!Submit, poolVars, blockVars

LEMMA BlockMaps ==
    ASSUME NEW n \in Nodes, NEW t \in Txs, Block(n, t)
    PROVE  Spread!Apply(n, t) \/ UNCHANGED Spread!vars
<1>1. CASE Remove(n, t)
  BY <1>1 DEF Remove, BlockUnchanged, Spread!Apply, Spread!Has
<1>2. CASE Register(n, t) \/ Release(n, t)
  BY <1>2 DEF Register, Release, BlockUnchanged, Spread!vars
<1> QED
  BY <1>1, <1>2 DEF Block

\* What is sent or announced is held.
LEMMA SendMaps ==
    ASSUME TypeOK, SentInv, NEW n \in Nodes, Send(n)
    PROVE  \E A \in SUBSET (Consensus \X Txs) : Spread!Tell(n, A)
<1> DEFINE A == Broadcast(n) \cup Forward(n)
<1>1. ASSUME NEW a \in A
      PROVE  a \in (Consensus \ {n}) \X Spread!Has(n) /\ a \in Consensus \X Txs
  <2>1. a[1] \in Consensus /\ a[2] \in fetched[n] /\ a = <<a[1], a[2]>>
    BY DEF Broadcast, Forward, FromRpc
  <2>2. a[1] # n
    <3>1. CASE a \in Broadcast(n)
      BY <3>1 DEF Broadcast
    <3>2. CASE a \in Forward(n)
      <4>1. a[1] \in SelectPeers(n, a[2])
        BY <3>2 DEF Forward
      <4> QED
        BY <4>1, SelectedTyped
    <3> QED
      BY <3>1, <3>2
  <2>3. a[2] \in Txs /\ a[2] \in Spread!Has(n)
    BY <2>1 DEF TypeOK, SentInv, Held, Spread!Has
  <2> QED
    BY <2>1, <2>2, <2>3
<1>2. /\ UNCHANGED <<m_txsTable, committed, submitted>>
      /\ sent' = sent \cup {<<n, a[1], a[2]>> : a \in A}
  BY DEF Send, blockVars
<1> HIDE DEF A
<1> QED
  BY <1>1, <1>2 DEF Spread!Tell

LEMMA SpreadStep ==
    ASSUME TypeOK, SentInv, PathInv, [Next]_vars
    PROVE  [Spread!Next]_(Spread!vars)
<1> USE DEF poolVars, blockVars, outsideVars
<1>1. ASSUME NEW n \in Nodes, NEW t \in Txs, Submit(n, t) \/ Block(n, t)
      PROVE  [Spread!Next]_(Spread!vars)
  BY <1>1, SubmitMaps, BlockMaps DEF Spread!Next
<1>2. ASSUME NEW n \in Nodes, NEW d \in Threads, Importer(n, d)
      PROVE  [Spread!Next]_(Spread!vars)
  <2>1. ASSUME NEW t \in Txs, NEW from \in Nodes, Import(n, d, from, t)
        PROVE  UNCHANGED Spread!vars
    BY <2>1 DEF Import, BeginUnchanged, Spread!vars
  <2> QED
    BY <1>2, <2>1, CallMaps DEF Importer
<1>3. ASSUME NEW n \in Nodes, SyncThread(n) \/ Requester(n)
      PROVE  [Spread!Next]_(Spread!vars)
  <2>1. CASE Send(n)
    BY <2>1, SendMaps DEF Spread!Next
  <2>2. CASE ~Send(n)
    BY <1>3, <2>2 DEF SyncThread, Requester, TakeBuffer, Fetch, FetchUnchanged, ClearFlag,
                      FilterStatus, Spread!vars
  <2> QED
    BY <2>1, <2>2
<1>4. ASSUME NEW n \in Nodes, NEW q \in asking[n], AskPeer(n, q)
      PROVE  UNCHANGED Spread!vars
  BY <1>4 DEF AskPeer, Spread!vars
<1>5. ASSUME NEW m \in network, Deliver(m) \/ Lose(m)
      PROVE  UNCHANGED Spread!vars
  BY <1>5 DEF Deliver, ReceiveTxs, TakeStatus, ReceiveRequest, ReceiveResponse, Lose, Spread!vars
<1>6. CASE UNCHANGED vars
  BY <1>6 DEF vars, Spread!vars
<1> QED
  BY <1>1, <1>2, <1>3, <1>4, <1>5, <1>6 DEF Next, Node

\* SpreadsByGossip: with any loss and any order of messages, with calls that
\* overtake each other and blocks that come in between, what a node pools was
\* submitted to it or told to it, and it tells others only of what it has.
THEOREM SpreadsByGossipHolds == Spec => SpreadsByGossip
<1>1. Init => Spread!Init
  BY DEF Init, Spread!Init
<1> QED
  BY <1>1, SpreadStep, TypeCorrect, SentAlways, PathAlways, PTL
  DEF Spec, SpreadsByGossip, Spread!Spec
-----------------------------------------------------------------------------
(***************************************************************************)
(* What gossip alone ensures.                                              *)
(***************************************************************************)
\* A client submitted t somewhere.
HasOrigin(t) == \E m \in Nodes : <<m, t>> \in submitted

\* Whatever a node has or told of comes from a client.
OriginInv ==
    /\ m_txsTable \in [Nodes -> SUBSET Txs] /\ committed \in [Nodes -> SUBSET Txs]
    /\ \A n \in Nodes : \A t \in Held(n) : HasOrigin(t)
    /\ \A n, m \in Nodes, t \in Txs : <<n, m, t>> \in sent => HasOrigin(t)

LEMMA OriginStep ==
    ASSUME OriginInv, [Spread!Next]_(Spread!vars)
    PROVE  OriginInv'
<1> USE DEF Spread!Has, Held, HasOrigin
<1>1. ASSUME NEW n \in Nodes, NEW t \in Txs, Spread!Submit(n, t)
      PROVE  OriginInv'
  <2>1. \A u : HasOrigin(u) => HasOrigin(u)'
    BY <1>1 DEF Spread!Submit
  <2> QED
    BY <1>1, <2>1 DEF OriginInv, Spread!Submit
<1>2. ASSUME NEW n \in Nodes, NEW t \in Txs, Spread!Pool(n, t)
      PROVE  OriginInv'
  <2>1. HasOrigin(t)
    BY <1>2 DEF OriginInv, Spread!Pool
  <2> QED
    BY <1>2, <2>1 DEF OriginInv, Spread!Pool
<1>3. ASSUME NEW n \in Nodes, NEW t \in Txs, Spread!Apply(n, t)
      PROVE  OriginInv'
  <2>1. HasOrigin(t)
    BY <1>3 DEF OriginInv, Spread!Apply
  <2> QED
    BY <1>3, <2>1 DEF OriginInv, Spread!Apply
<1>4. ASSUME NEW n \in Nodes, NEW A \in SUBSET (Consensus \X Txs), Spread!Tell(n, A)
      PROVE  OriginInv'
  <2>1. ASSUME NEW o \in Nodes, NEW m \in Nodes, NEW t \in Txs, <<o, m, t>> \in sent'
        PROVE  <<o, m, t>> \in sent \/ t \in Held(n)
    BY <1>4, <2>1 DEF Spread!Tell
  <2> QED
    BY <1>4, <2>1 DEF OriginInv, Spread!Tell
<1>5. CASE UNCHANGED Spread!vars
  BY <1>5 DEF OriginInv, Spread!vars
<1> QED
  BY <1>1, <1>2, <1>3, <1>4, <1>5 DEF Spread!Next

\* A node has only transactions that some client submitted to some node: none
\* is made up on the way.  It follows from gossip, whatever the messages are.
THEOREM NothingFromNowhere ==
    Spec => [](\A n \in Nodes : \A t \in Held(n) : HasOrigin(t))
<1>1. Spread!Init => OriginInv
  BY DEF Spread!Init, OriginInv, Held
<1>2. OriginInv => \A n \in Nodes : \A t \in Held(n) : HasOrigin(t)
  BY DEF OriginInv
<1> QED
  BY <1>1, <1>2, OriginStep, SpreadsByGossipHolds, PTL DEF SpreadsByGossip, Spread!Spec
=============================================================================
