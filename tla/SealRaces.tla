----------------------------- MODULE SealRaces -----------------------------
(***************************************************************************)
(* The loops of MemoryStorage.cpp that seal and mark transactions, one      *)
(* access to shared state at a time: batchFetchTxs for the sealer,          *)
(* batchMarkTxs and batchMarkAllTxs for consensus.  They hold x_txpoolMutex *)
(* for reading, and so run together, and together with insert.  The flags  *)
(* of a transaction have no lock of their own; m_sealedTxsSize is atomic,   *)
(* but is changed apart from the flags it counts.                          *)
(*                                                                         *)
(* What decides which transactions are submitted, dropped or committed is  *)
(* the subject of MemoryStorage, which leaves the flags, the batch hashes  *)
(* and the counter to this module.                                         *)
(***************************************************************************)
EXTENDS Naturals, FiniteSets

CONSTANTS
    Txs,          \* the transactions
    Proposals,    \* the batch hashes of proposals
    TxsIn,        \* TxsIn[p]: the transactions of proposal p
    NoBatch,      \* the zero hash
    NoTx,         \* no transaction
    Markers,      \* the threads of consensus that mark and unmark
    Importers,    \* the threads that import the transactions of proposals
    Skippable,    \* bound: what the sealer may pass over although it is not sealed
    SizeMax,      \* bound: the largest value of the size_t counter
    Workers       \* bound: threads that run at the same time

\* The threads: of the sealer, of a reset, of a submission, of a block result.
Singles == {"sealer", "reset", "submit", "remove"}
Threads == Singles \cup Markers \cup Importers

ASSUME RacesAssumption ==
    /\ IsFiniteSet(Txs)
    /\ TxsIn \in [Proposals -> SUBSET Txs]
    /\ NoBatch \notin Proposals /\ NoTx \notin Txs
    /\ Markers \cap Importers = {} /\ Singles \cap (Markers \cup Importers) = {}
    /\ Skippable \subseteq Txs
    /\ SizeMax \in Nat /\ 2 * Cardinality(Txs) <= SizeMax
    /\ Workers \in Nat

VARIABLES
    m_txsTable,       \* the pooled transactions
    sealed,           \* those whose sealed flag is set
    batchHash,        \* batchHash[t]: the proposal t was marked for
    m_sealedTxsSize,  \* the counter of sealed transactions
    job,              \* job[k]: what thread k is doing
    sealerView,       \* the unsealed size the sealer was last told
    clash             \* history: threads have disturbed each other's counting

vars == <<m_txsTable, sealed, batchHash, m_sealedTxsSize, job, sealerView, clash>>

\* The places of a thread, the transaction whose object it holds and those it
\* has yet to visit, and the mark it sets.  A thread in a loop holds NoTx once
\* another object has taken the place of the one it is at.
Places == {"idle", "loop", "chosen", "adding", "setting", "hashing", "upgrading", "inserting",
           "storing", "telling", "correcting"}
Job == [at : Places, tx : Txs \cup {NoTx}, todo : SUBSET Txs, batch : Proposals \cup {NoBatch},
        flag : BOOLEAN]
Resting == [at |-> "idle", tx |-> NoTx, todo |-> {}, batch |-> NoBatch, flag |-> FALSE]

TypeOK ==
    /\ m_txsTable \subseteq Txs
    /\ sealed \subseteq m_txsTable
    /\ batchHash \in [Txs -> Proposals \cup {NoBatch}]
    /\ m_sealedTxsSize \in 0 .. SizeMax
    /\ job \in [Threads -> Job]
    /\ sealerView \in 0 .. Cardinality(Txs)
    /\ clash \in BOOLEAN

Init ==
    /\ m_txsTable = {}
    /\ sealed = {}
    /\ batchHash = [t \in Txs |-> NoBatch]
    /\ m_sealedTxsSize = 0
    /\ job = [k \in Threads |-> Resting]
    /\ sealerView = 0
    /\ clash = FALSE
-----------------------------------------------------------------------------
(***************************************************************************)
(* Threads and locks.                                                      *)
(***************************************************************************)
At(k, places) == job[k].at \in places

Become(k, j) == job' = [job EXCEPT ![k] = j]
Goto(k, place) == job' = [job EXCEPT ![k].at = place]

\* A thread is taken up.
MayStart(k) ==
    /\ At(k, {"idle"})
    /\ Cardinality({o \in Threads : job[o].at # "idle"}) < Workers

\* Variant, a slip: an import lets go of the lock before its upgrade.
ReadsButUpgrade(k) ==
    \/ k \notin Importers \cup {"remove"} /\ ~At(k, {"idle"})
    \/ k \in Importers /\ At(k, {"storing", "telling", "correcting"})

\* ReadGuard or UpgradableGuard on x_txpoolMutex: all threads at work but an
\* import between its look-up and its insert, and a block result when it
\* tells the sealer.
Reads(k) ==
    \/ k \notin Importers \cup {"remove"} /\ ~At(k, {"idle"})
    \/ k \in Importers /\ At(k, {"upgrading", "storing", "telling", "correcting"})

\* The threads between the choice of a transaction and the end of its change,
\* in a loop or in an import.
Visiting == {k \in Threads : At(k, {"chosen", "adding", "setting", "hashing"})}
Changing == Visiting \cup {k \in Importers : At(k, {"inserting", "storing"})}
Inside(t) == {k \in Changing : job[k].tx = t}
ResetRuns == At("reset", {"loop", "hashing"})

\* Thread k turns to transaction t, which another thread is changing, or while
\* a reset goes through the table.
Disturbs(k, t) == Inside(t) \ {k} # {} \/ ResetRuns

SizePlus == (m_sealedTxsSize + 1) % (SizeMax + 1)

\* m_sealedTxsSize -= n on a size_t.
SizeMinus(n) == (m_sealedTxsSize + SizeMax + 1 - n) % (SizeMax + 1)
-----------------------------------------------------------------------------
(***************************************************************************)
(* The loops.                                                              *)
(***************************************************************************)
BeginSeal ==
    /\ MayStart("sealer")
    /\ Become("sealer", [Resting EXCEPT !.at = "loop", !.todo = m_txsTable, !.flag = TRUE])
    /\ UNCHANGED <<m_txsTable, sealed, batchHash, m_sealedTxsSize, sealerView, clash>>

BeginMark(k, p, f) ==
    /\ MayStart(k)
    /\ Become(k, [at |-> "loop", tx |-> NoTx, todo |-> TxsIn[p], batch |-> p, flag |-> f])
    /\ UNCHANGED <<m_txsTable, sealed, batchHash, m_sealedTxsSize, sealerView, clash>>

\* batchMarkAllTxs(false).  It sets the counter in the end whatever it was, so
\* that it repairs what it does not disturb.
BeginReset ==
    /\ MayStart("reset")
    /\ Become("reset", [Resting EXCEPT !.at = "loop", !.todo = m_txsTable])
    /\ clash' = (Changing # {})
    /\ UNCHANGED <<m_txsTable, sealed, batchHash, m_sealedTxsSize, sealerView>>

\* The sealer takes what is not sealed; an unmark leaves alone what is sealed
\* for another proposal.
Open(k, t) ==
    IF k = "sealer" THEN t \notin sealed
    ELSE t \in m_txsTable /\ (job[k].flag \/ batchHash[t] \in {NoBatch, job[k].batch})

\* The next transaction is skipped: it is not open, or, for the sealer, it is
\* to be avoided, waits to be dropped, or has failed the check of the chain.
Skip(k, t) ==
    /\ k \in Markers \cup {"sealer"}
    /\ At(k, {"loop"}) /\ t \in job[k].todo
    /\ ~Open(k, t) \/ (k = "sealer" /\ t \in Skippable)
    /\ Become(k, [job[k] EXCEPT !.todo = @ \ {t}])
    /\ UNCHANGED <<m_txsTable, sealed, batchHash, m_sealedTxsSize, sealerView, clash>>

Choose(k, t) ==
    /\ k # "reset"
    /\ At(k, {"loop"}) /\ t \in job[k].todo
    /\ Open(k, t)
    /\ Become(k, [job[k] EXCEPT !.at = "chosen", !.tx = t, !.todo = @ \ {t}])
    /\ clash' = (clash \/ Disturbs(k, t))
    /\ UNCHANGED <<m_txsTable, sealed, batchHash, m_sealedTxsSize, sealerView>>

\* Variant, a slip: what is marked again counts again.
AddsAgain(k) == job[k].flag \/ job[k].tx \in sealed

\* The change counts only if it changes the flag.
Adds(k) == (job[k].tx \in sealed) # job[k].flag

\* if (!tx->sealed()), or for an unmark if (tx->sealed()).  An object that was
\* replaced has the flag it had.
ReadSealed(k) ==
    /\ At(k, {"chosen"})
    /\ \E adds \in (IF job[k].tx = NoTx THEN BOOLEAN ELSE {Adds(k)}) :
         Goto(k, IF adds THEN "adding" ELSE "setting")
    /\ UNCHANGED <<m_txsTable, sealed, batchHash, m_sealedTxsSize, sealerView, clash>>

\* m_sealedTxsSize++, or --.
Add(k) ==
    /\ At(k, {"adding"})
    /\ m_sealedTxsSize' = IF job[k].flag THEN SizePlus ELSE SizeMinus(1)
    /\ Goto(k, IF k \in Importers THEN "inserting" ELSE "setting")
    /\ UNCHANGED <<m_txsTable, sealed, batchHash, sealerView, clash>>

\* The pooled transaction that thread k changes.
Held(k) == {job[k].tx} \ {NoTx}

\* setSealed(flag); an unmark leaves the batch hash as it is.
SetSealed(k) ==
    /\ At(k, {"setting"})
    /\ sealed' = IF job[k].flag THEN sealed \cup Held(k) ELSE sealed \ Held(k)
    /\ IF job[k].flag THEN Goto(k, "hashing")
                      ELSE Become(k, [job[k] EXCEPT !.at = "loop", !.tx = NoTx])
    /\ UNCHANGED <<m_txsTable, batchHash, m_sealedTxsSize, sealerView, clash>>

\* A reset clears the flag without a look at it.
ClearSealed(t) ==
    /\ At("reset", {"loop"}) /\ t \in job["reset"].todo
    /\ sealed' = sealed \ {t}
    /\ Become("reset", [job["reset"] EXCEPT !.at = "hashing", !.tx = t, !.todo = @ \ {t}])
    /\ UNCHANGED <<m_txsTable, batchHash, m_sealedTxsSize, sealerView, clash>>

\* setBatchHash.  The sealer stops when it has as many as it asked for.
SetHash(k) ==
    /\ At(k, {"hashing"})
    /\ batchHash' = [t \in Txs |-> IF t \in Held(k) THEN job[k].batch ELSE batchHash[t]]
    /\ \E next \in {"loop"} \cup (IF k = "sealer" THEN {"telling"} ELSE {}) :
         Become(k, [job[k] EXCEPT !.at = next, !.tx = NoTx])
    /\ UNCHANGED <<m_txsTable, sealed, m_sealedTxsSize, sealerView, clash>>

\* The loop is over; a reset sets the counter to 0.
EndLoop(k) ==
    /\ At(k, {"loop"}) /\ job[k].todo = {}
    /\ IF k \in Markers THEN Become(k, Resting) ELSE Goto(k, "telling")
    /\ m_sealedTxsSize' = IF k = "reset" THEN 0 ELSE m_sealedTxsSize
    /\ UNCHANGED <<m_txsTable, sealed, batchHash, sealerView, clash>>
-----------------------------------------------------------------------------
(***************************************************************************)
(* Inserts and removals.                                                   *)
(***************************************************************************)
\* A submission reaches insert and finds t unknown.
BeginSubmit(t) ==
    /\ MayStart("submit")
    /\ t \notin m_txsTable
    /\ Become("submit", [Resting EXCEPT !.at = "storing", !.tx = t])
    /\ UNCHANGED <<m_txsTable, sealed, batchHash, m_sealedTxsSize, sealerView, clash>>

\* An import reaches insert.  If t was inserted since, the import leaves it
\* without its mark, and its count stays.
CheckAgain(k) ==
    /\ At(k, {"inserting"})
    /\ IF job[k].tx \in m_txsTable
       THEN Become(k, Resting) /\ clash' = TRUE
       ELSE Goto(k, "storing") /\ UNCHANGED clash
    /\ UNCHANGED <<m_txsTable, sealed, batchHash, m_sealedTxsSize, sealerView>>

(***************************************************************************)
(* Thread k stores its object of t and goes on to tell the sealer.  The    *)
(* table is a tbb::concurrent_unordered_map: a loop through it may come to *)
(* a new t, or not.  If another object is there by now it is replaced, and *)
(* the loops that are at t go on with the old one.                         *)
(***************************************************************************)
Stored(k, t) ==
    \E K \in SUBSET {o \in {"sealer", "reset"} : ~At(o, {"idle", "telling", "correcting"})} :
        job' = [o \in Threads |->
            IF o = k THEN [Resting EXCEPT !.at = "telling"]
            ELSE IF t \in m_txsTable
                 THEN IF o \in Visiting \ Importers /\ job[o].tx = t
                      THEN [job[o] EXCEPT !.tx = NoTx] ELSE job[o]
            ELSE IF o \in K THEN [job[o] EXCEPT !.todo = @ \cup {t}] ELSE job[o]]

\* insert.  The object of an import is sealed for its proposal, that of a
\* submission is not.
Store(k) ==
    LET t == job[k].tx IN
    /\ At(k, {"storing"})
    /\ m_txsTable' = m_txsTable \cup {t}
    /\ sealed' = IF job[k].flag THEN sealed \cup {t} ELSE sealed \ {t}
    /\ batchHash' = [batchHash EXCEPT ![t] = job[k].batch]
    /\ clash' = (clash \/ t \in m_txsTable)
    /\ Stored(k, t)
    /\ UNCHANGED <<m_sealedTxsSize, sealerView>>

\* enforceSubmitTransaction finds t unknown: it counts t before it inserts it.
\* If t is unsealed, or sealed for no proposal, it is to be marked.
Lookup(k, t, p) ==
    /\ t \in TxsIn[p]
    /\ t \in sealed => batchHash[t] = NoBatch
    /\ MayStart(k)
    /\ \A o \in Importers : ~At(o, {"upgrading"})
    /\ Become(k, [at |-> IF t \in m_txsTable THEN "upgrading" ELSE "adding", tx |-> t, todo |-> {},
                  batch |-> p, flag |-> TRUE])
    /\ clash' = (clash \/ (t \notin m_txsTable /\ Disturbs(k, t)))
    /\ UNCHANGED <<m_txsTable, sealed, batchHash, m_sealedTxsSize, sealerView>>

\* UpgradeGuard: the readers have left; but another import may have counted t
\* before t was in the table, and has yet to insert it.
Upgrade(k) ==
    LET t == job[k].tx IN
    /\ At(k, {"upgrading"})
    /\ \A o \in Threads \ {k} : ~Reads(o)
    /\ m_sealedTxsSize' = IF t \in sealed THEN m_sealedTxsSize ELSE SizePlus
    /\ sealed' = sealed \cup {t}
    /\ batchHash' = [batchHash EXCEPT ![t] = job[k].batch]
    /\ clash' = (clash \/ Disturbs(k, t))
    /\ Become(k, Resting)
    /\ UNCHANGED <<m_txsTable, sealerView>>

\* batchRemove, under the write lock.
Remove(R) ==
    /\ MayStart("remove")
    /\ \A o \in Threads : ~Reads(o)
    /\ m_txsTable' = m_txsTable \ R
    /\ sealed' = sealed \ R
    /\ batchHash' = [t \in Txs |-> IF t \in R THEN NoBatch ELSE batchHash[t]]
    /\ m_sealedTxsSize' = SizeMinus(Cardinality(R \cap sealed))
    /\ Become("remove", [Resting EXCEPT !.at = "telling"])
    /\ UNCHANGED <<sealerView, clash>>

\* notifyUnsealedTxsSize: the sealer is told how many are not sealed, unless the
\* counter is above the size of the table, and has to be corrected first.
Tell(k) ==
    LET n == Cardinality(m_txsTable) IN
    /\ At(k, {"telling"})
    /\ IF n < m_sealedTxsSize
       THEN Goto(k, "correcting") /\ UNCHANGED sealerView
       ELSE Become(k, Resting) /\ sealerView' = n - m_sealedTxsSize
    /\ UNCHANGED <<m_txsTable, sealed, batchHash, m_sealedTxsSize, clash>>

\* An empty table makes the counter exact; else the correction is a guess.
Correct(k) ==
    /\ At(k, {"correcting"})
    /\ m_sealedTxsSize' = Cardinality(m_txsTable)
    /\ sealerView' = 0
    /\ clash' = ~(m_txsTable = {} /\ Changing = {})
    /\ Become(k, Resting)
    /\ UNCHANGED <<m_txsTable, sealed, batchHash>>
-----------------------------------------------------------------------------
Step(k) ==
    \/ \E t \in Txs : Skip(k, t) \/ Choose(k, t)
    \/ ReadSealed(k) \/ Add(k) \/ SetSealed(k) \/ SetHash(k) \/ EndLoop(k)
    \/ Upgrade(k) \/ CheckAgain(k) \/ Store(k)
    \/ Tell(k) \/ Correct(k)

Next ==
    \/ BeginSeal \/ BeginReset
    \/ \E k \in Markers, p \in Proposals, f \in BOOLEAN : BeginMark(k, p, f)
    \/ \E k \in Importers, t \in Txs, p \in Proposals : Lookup(k, t, p)
    \/ \E t \in Txs : BeginSubmit(t) \/ ClearSealed(t)
    \/ \E R \in SUBSET m_txsTable : Remove(R)
    \/ \E k \in Threads : Step(k)

Spec == Init /\ [][Next]_vars

\* A thread that was taken up runs to its end, and the sealer asks as long as
\* it has been told of unsealed transactions.  That no thread is taken up while
\* as many as Workers are at work is a bound of this model, hence SF.
Fairness ==
    /\ \A k \in Threads : WF_vars(Step(k) \/ (k = "reset" /\ \E t \in Txs : ClearSealed(t)))
    /\ SF_vars(sealerView > 0 /\ BeginSeal)

FairSpec == Spec /\ Fairness
-----------------------------------------------------------------------------
(***************************************************************************)
(* Properties.                                                             *)
(***************************************************************************)
\* What was added to the counter, or taken from it, ahead of the flag.
Ahead == {k \in Threads :
            /\ job[k].flag /\ job[k].tx \notin sealed
            /\ At(k, {"setting"}) \/ (k \in Importers /\ At(k, {"inserting", "storing"}))}
Behind == {k \in Threads : At(k, {"setting"}) /\ ~job[k].flag /\ job[k].tx \in sealed}

\* The counter counts the sealed transactions although flags and counter are
\* changed apart, as long as no two threads change the same transaction at a
\* time, none stores an object over another one, none runs into a reset, and no
\* notification corrects the counter while an import has counted what it has yet
\* to insert.  After that only a reset that is not disturbed, or an empty pool,
\* makes it count again.
CountsWithoutClash ==
    ~clash /\ ~ResetRuns =>
        m_sealedTxsSize + Cardinality(Behind) = Cardinality(sealed) + Cardinality(Ahead)

\* A pooled transaction that is not sealed is sealed at last, or leaves, since the
\* sealer is told of it ("notify the sealer the latest unsealed txs",
\* TxPoolStorageInterface.h:108).
EventuallySealed ==
    \A t \in Txs : (t \in m_txsTable \ sealed) ~> (t \in sealed \/ t \notin m_txsTable)
=============================================================================
