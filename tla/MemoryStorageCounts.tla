------------------------ MODULE MemoryStorageCounts ------------------------
(***************************************************************************)
(* How far the pool of MemoryStorage exceeds its limit, for every number   *)
(* of transactions, calls and workers.                                     *)
(***************************************************************************)
EXTENDS MemoryStorageProofs

\* The submissions under way, and the imports for proposals that are over.
Pending == InPhase(Running) \cap Submits
Enforced == {e \in Enforces : pc[e] = "accepted"}

BusyInv == Cardinality(InProgress) <= Workers

\* What is pooled, and what may still come to be pooled.
BoundInv == Cardinality(m_txsTable) + Cardinality(Pending)
                < PoolLimit + Workers + Cardinality(Enforced)
-----------------------------------------------------------------------------
(***************************************************************************)
(* The size of the pool.                                                   *)
(***************************************************************************)
\* A call that begins finds a worker, and a submission that goes on from
\* there found room.
Begins(c, p) ==
    /\ Moves(c, p)
    /\ pc[c] = "idle" => MayBegin(c)
    /\ pc[c] = "idle" /\ c \in Submits /\ p \in Running => Cardinality(m_txsTable) < PoolLimit

LEMMA CheckBegins ==
    ASSUME CheckStep
    PROVE  \E c \in Calls, p \in Phases : Begins(c, p)
<1> USE DEF Phases, Running, SubmitPhases, EnforcePhases, InsertPhases
<1>1. ASSUME NEW s \in Submits, MayBegin(s), Refuse(s)
      PROVE  \E c \in Calls, p \in Phases : Begins(c, p)
  BY <1>1 DEF MayBegin, Refuse, Moves, Begins, Calls
<1>2. ASSUME NEW s \in Submits, CheckSize(s)
      PROVE  \E c \in Calls, p \in Phases : Begins(c, p)
  BY <1>2 DEF CheckSize, Check, MayBegin, Refuse, Moves, Begins, Calls
<1>3. ASSUME NEW e \in Enforces, EnforceCheckNonce(e)
      PROVE  \E c \in Calls, p \in Phases : Begins(c, p)
  BY <1>3, StorageAssumption DEF EnforceCheckNonce, MayBegin, Moves, Begins, Calls, Submits
<1>4. ASSUME NEW s \in Calls, pc[s] \in Running, Refuse(s)
      PROVE  \E c \in Calls, p \in Phases : Begins(c, p)
  BY <1>4 DEF Refuse, Moves, Begins
<1>5. ASSUME NEW s \in Calls, pc[s] \in Running,
             NEW passes, NEW next \in SubmitPhases \cup {"inserting"}, Check(s, passes, next)
      PROVE  \E c \in Calls, p \in Phases : Begins(c, p)
  BY <1>4, <1>5 DEF Check, Moves, Begins
<1>6. CASE \E s \in Submits : CheckExist(s) \/ CheckLedgerNonce(s) \/ CheckPoolNonce(s)
  BY <1>5, <1>6 DEF CheckExist, CheckLedgerNonce, CheckPoolNonce, Calls
<1>10. CASE \E s \in Submits : CheckLimitAndSignature(s)
  BY <1>4, <1>10 DEF CheckLimitAndSignature, Moves, Begins, Calls
<1>11. CASE \E e \in Enforces : MarkForProposal(e)
  BY <1>11, StorageAssumption DEF MarkForProposal, Moves, Begins, Calls, Submits
<1>7. CASE \E e \in Enforces : Lookup(e)
  BY <1>7, StorageAssumption DEF Lookup, Moves, Begins, Calls, Submits
<1>8. CASE \E c \in Calls : CheckAgain(c)
  BY <1>4, <1>8, StorageAssumption DEF CheckAgain, Moves, Begins, Submits
<1>9. CASE \E s \in Submits : RefuseOutside(s)
  BY <1>1, <1>9 DEF RefuseOutside
<1> QED
  BY <1>2, <1>3, <1>6, <1>7, <1>8, <1>9, <1>10, <1>11 DEF CheckStep

LEMMA CallsTyped ==
    ASSUME IsFiniteSet(Calls)
    PROVE  /\ IsFiniteSet(InProgress) /\ IsFiniteSet(Pending) /\ IsFiniteSet(Enforced)
           /\ Pending \subseteq InProgress
           /\ InProgress \subseteq Calls /\ Enforced \subseteq Calls
           /\ Cardinality(InProgress) \in Nat /\ Cardinality(Pending) \in Nat
           /\ Cardinality(Enforced) \in Nat
<1>1. InProgress \in SUBSET Calls /\ Pending \in SUBSET Calls /\ Enforced \in SUBSET Calls
  BY DEF InProgress, InPhase, Pending, Enforced, Calls
<1>2. IsFiniteSet(InProgress) /\ IsFiniteSet(Pending) /\ IsFiniteSet(Enforced)
  BY <1>1, FS_Subset
<1> QED
  BY <1>1, <1>2, FS_CardinalityType DEF InProgress, Pending

\* What the proofs below need of a finite set and a part of it.
LEMMA Fewer ==
    ASSUME NEW S, NEW T, IsFiniteSet(S), T \subseteq S
    PROVE  /\ IsFiniteSet(T) /\ Cardinality(T) <= Cardinality(S)
           /\ Cardinality(T) \in Nat /\ Cardinality(S) \in Nat
<1>1. IsFiniteSet(T) /\ Cardinality(T) <= Cardinality(S)
  BY FS_Subset
<1> QED
  BY <1>1, FS_CardinalityType

LEMMA OneMore ==
    ASSUME NEW S, NEW x, IsFiniteSet(S)
    PROVE  /\ IsFiniteSet(S \cup {x})
           /\ Cardinality(S \cup {x}) <= Cardinality(S) + 1
           /\ Cardinality(S \cup {x}) \in Nat
<1>1. Cardinality(S) \in Nat
  BY FS_CardinalityType
<1> QED
  BY <1>1, FS_AddElement

BoundAssumption == IsFiniteSet(Calls) /\ Workers \in Nat \ {0}

\* Nothing is pooled, and no submission comes up.
LEMMA BoundStays ==
    ASSUME BoundAssumption, TypeOK, BoundInv, m_txsTable' \subseteq m_txsTable,
           Pending' \subseteq Pending, Enforced \subseteq Enforced', Enforced' \subseteq Calls
    PROVE  BoundInv'
<1>1. IsFiniteSet(m_txsTable)
  BY StorageAssumption, FS_Subset DEF TypeOK
<1>2. /\ Cardinality(m_txsTable') <= Cardinality(m_txsTable)
      /\ Cardinality(m_txsTable') \in Nat /\ Cardinality(m_txsTable) \in Nat
  BY <1>1, Fewer
<1>3. /\ Cardinality(Pending') <= Cardinality(Pending)
      /\ Cardinality(Pending') \in Nat /\ Cardinality(Pending) \in Nat
  BY CallsTyped, Fewer DEF BoundAssumption
<1>4. IsFiniteSet(Enforced')
  BY FS_Subset DEF BoundAssumption
<1>5. /\ Cardinality(Enforced) <= Cardinality(Enforced')
      /\ Cardinality(Enforced') \in Nat /\ Cardinality(Enforced) \in Nat
  BY <1>4, Fewer
<1> QED
  BY <1>2, <1>3, <1>5, StorageAssumption DEF BoundInv, BoundAssumption

LEMMA PhasesMove ==
    ASSUME TypeOK, NEW c \in Calls, NEW p \in Phases, Goto(c, p)
    PROVE  /\ \A d \in Calls : pc'[d] = IF d = c THEN p ELSE pc[d]
           /\ InProgress' \subseteq InProgress \cup {c}
           /\ Pending' \subseteq Pending \cup {c}
           /\ c \notin Submits \/ p \notin Running => Pending' \subseteq Pending
           /\ p \notin Running \/ pc[c] \in Running => InProgress' \subseteq InProgress
           /\ pc[c] \in Running => Pending' \subseteq Pending
           /\ pc[c] # "accepted" => Enforced \subseteq Enforced'
           /\ Enforced' \subseteq Calls
<1>1. \A d \in Calls : pc'[d] = IF d = c THEN p ELSE pc[d]
  BY DEF Goto, TypeOK
<1> QED
  BY <1>1 DEF InProgress, InPhase, Pending, Enforced, Calls

LEMMA BusyGoes ==
    ASSUME BoundAssumption, TypeOK, BusyInv, NEW c \in Calls, NEW p \in Phases, Goto(c, p),
           pc[c] \notin Running /\ p \in Running => Cardinality(InProgress) < Workers
    PROVE  BusyInv'
<1>1. CASE InProgress' \subseteq InProgress
  <2>1. /\ Cardinality(InProgress') <= Cardinality(InProgress)
        /\ Cardinality(InProgress') \in Nat /\ Cardinality(InProgress) \in Nat
    BY <1>1, CallsTyped, Fewer DEF BoundAssumption
  <2> QED
    BY <2>1 DEF BusyInv, BoundAssumption
<1>2. CASE ~(InProgress' \subseteq InProgress)
  <2>1. Cardinality(InProgress) < Workers /\ InProgress' \subseteq InProgress \cup {c}
    BY <1>2, PhasesMove
  <2>2. /\ IsFiniteSet(InProgress \cup {c}) /\ Cardinality(InProgress) \in Nat
        /\ Cardinality(InProgress \cup {c}) <= Cardinality(InProgress) + 1
    BY CallsTyped, OneMore DEF BoundAssumption
  <2>3. /\ Cardinality(InProgress') <= Cardinality(InProgress \cup {c})
        /\ Cardinality(InProgress') \in Nat /\ Cardinality(InProgress \cup {c}) \in Nat
    BY <2>1, <2>2, Fewer
  <2> QED
    BY <2>1, <2>2, <2>3 DEF BusyInv, BoundAssumption
<1> QED
  BY <1>1, <1>2

LEMMA CheckBound ==
    ASSUME BoundAssumption, TypeOK, BusyInv, BoundInv, CheckStep
    PROVE  BusyInv' /\ BoundInv'
<1>1. PICK c \in Calls, p \in Phases : Begins(c, p)
  BY CheckBegins
<1>2. UNCHANGED m_txsTable /\ Goto(c, p) /\ pc[c] \in Running \cup {"idle"}
  BY <1>1, CheckMoves DEF OnlyCall, tableVars, Begins, Moves
<1>3. BusyInv'
  BY <1>1, <1>2, BusyGoes DEF Begins, MayBegin
<1>4. pc[c] # "accepted"
  BY <1>2 DEF Running, SubmitPhases, EnforcePhases, InsertPhases
<1>5. CASE Pending' \subseteq Pending
  <2>1. Enforced \subseteq Enforced' /\ Enforced' \subseteq Calls
    BY <1>2, <1>4, PhasesMove
  <2>2. m_txsTable' \subseteq m_txsTable
    BY <1>2
  <2> QED
    BY <1>3, <1>5, <2>1, <2>2, BoundStays
<1>6. CASE ~(Pending' \subseteq Pending)
  <2>1. c \in Submits /\ p \in Running /\ pc[c] = "idle"
    BY <1>2, <1>6, PhasesMove
  <2>2. Cardinality(m_txsTable) < PoolLimit
    BY <1>1, <2>1 DEF Begins
  <2>3. Pending' \subseteq InProgress' /\ IsFiniteSet(InProgress')
    <3>1. InProgress' \subseteq Calls
      BY DEF InProgress, InPhase
    <3> QED
      BY <3>1, FS_Subset DEF Pending, InProgress, BoundAssumption
  <2>4. /\ Cardinality(Pending') <= Cardinality(InProgress')
        /\ Cardinality(Pending') \in Nat /\ Cardinality(InProgress') \in Nat
    BY <2>3, Fewer
  <2>5. Cardinality(Enforced') \in Nat
    <3>1. Enforced' \subseteq Calls
      BY <1>2, PhasesMove
    <3> QED
      BY <3>1, Fewer DEF BoundAssumption
  <2>6. Cardinality(m_txsTable) \in Nat /\ m_txsTable' = m_txsTable
    BY <1>2, StorageAssumption, Fewer DEF TypeOK
  <2> QED
    BY <1>3, <2>2, <2>4, <2>5, <2>6, StorageAssumption DEF BusyInv, BoundInv, BoundAssumption
<1> QED
  BY <1>3, <1>5, <1>6

LEMMA StoreBound ==
    ASSUME BoundAssumption, TypeOK, BusyInv, BoundInv, NEW c \in Calls, Store(c)
    PROVE  BusyInv' /\ BoundInv'
<1>1. /\ pc[c] = "storing" /\ Goto(c, "accepted") /\ m_txsTable' = m_txsTable \cup {CallTx[c]}
      /\ "accepted" \in Phases /\ "storing" \in Running /\ "accepted" \notin Running
  BY DEF Store, StoreObject, Phases, Running, SubmitPhases, EnforcePhases, InsertPhases
<1>2. BusyInv'
  BY <1>1, BusyGoes
<1>3. /\ IsFiniteSet(m_txsTable) /\ Cardinality(m_txsTable) \in Nat
      /\ Cardinality(m_txsTable') \in Nat
      /\ Cardinality(m_txsTable') <= Cardinality(m_txsTable) + 1
  <2>1. IsFiniteSet(m_txsTable) /\ Cardinality(m_txsTable) \in Nat
    BY StorageAssumption, Fewer DEF TypeOK
  <2> QED
    BY <1>1, <2>1, FS_AddElement
<1>4. \A d \in Calls : pc'[d] = IF d = c THEN "accepted" ELSE pc[d]
  BY <1>1, PhasesMove
<1>5. CASE c \in Submits
  <2>1. Pending' = Pending \ {c} /\ c \in Pending /\ Enforced' = Enforced
    BY <1>1, <1>4, <1>5, StorageAssumption
       DEF Pending, Enforced, InPhase, Running, SubmitPhases, EnforcePhases, InsertPhases, Calls
  <2>2. Cardinality(Pending') = Cardinality(Pending) - 1
    BY <2>1, CallsTyped, FS_RemoveElement DEF BoundAssumption
  <2>3. Cardinality(Pending) \in Nat /\ Cardinality(Enforced) \in Nat
    BY CallsTyped DEF BoundAssumption
  <2> QED
    BY <1>2, <1>3, <2>1, <2>2, <2>3, StorageAssumption DEF BoundInv, BoundAssumption
<1>6. CASE c \in Enforces
  <2>1. Enforced' = Enforced \cup {c} /\ c \notin Enforced /\ Pending' = Pending
    BY <1>1, <1>4, <1>6, StorageAssumption
       DEF Pending, Enforced, InPhase, Running, SubmitPhases, EnforcePhases, InsertPhases, Calls
  <2>2. Cardinality(Enforced') = Cardinality(Enforced) + 1
    BY <2>1, CallsTyped, FS_AddElement DEF BoundAssumption
  <2>3. Cardinality(Pending) \in Nat /\ Cardinality(Enforced) \in Nat
    BY CallsTyped DEF BoundAssumption
  <2> QED
    BY <1>2, <1>3, <2>1, <2>2, <2>3, StorageAssumption DEF BoundInv, BoundAssumption
<1> QED
  BY <1>5, <1>6 DEF Calls

LEMMA StepBound ==
    ASSUME BoundAssumption, TypeOK, BusyInv, BoundInv, [Next]_vars
    PROVE  BusyInv' /\ BoundInv'
<1>0. Step
  BY NextIsStep
<1>1. CASE CheckStep
  BY <1>1, CheckBound
<1>2. CASE \E c \in Calls : Store(c)
  BY <1>2, StoreBound
<1>3. ASSUME NEW c \in Calls, NEW p \in Phases, Goto(c, p), UNCHANGED m_txsTable,
             pc[c] \in Running
      PROVE  BusyInv' /\ BoundInv'
  <2>1. BusyInv'
    BY <1>3, BusyGoes
  <2>2. pc[c] # "accepted"
    BY <1>3 DEF Running, SubmitPhases, EnforcePhases, InsertPhases
  <2>3. Pending' \subseteq Pending /\ Enforced \subseteq Enforced' /\ Enforced' \subseteq Calls
    BY <1>3, <2>2, PhasesMove
  <2>4. m_txsTable' \subseteq m_txsTable
    BY <1>3
  <2> QED
    BY <2>1, <2>3, <2>4, BoundStays
<1>4. CASE \E s \in Submits : ReserveNonce(s)
  BY <1>3, <1>4
     DEF ReserveNonce, tableVars, Calls, Phases, Running, SubmitPhases, InsertPhases
<1>5. CASE UNCHANGED pc /\ m_txsTable' \subseteq m_txsTable
  <2>1. InProgress' = InProgress /\ Pending' = Pending /\ Enforced' = Enforced
    BY <1>5 DEF InProgress, Pending, Enforced, InPhase
  <2>2. Enforced \subseteq Calls
    BY CallsTyped DEF BoundAssumption
  <2>3. BoundInv'
    BY <1>5, <2>1, <2>2, BoundStays
  <2> QED
    BY <2>1, <2>3 DEF BusyInv
<1> QED
  BY <1>0, <1>1, <1>2, <1>4, <1>5, SealIsQuiet, LookUpIsQuiet
     DEF Step, Cleanup, Drop, Commit, RemoveBatch, AdvanceNumber, RegisterNonces, ForgetNonces,
         ReleaseNonces, tableVars, vars

(***************************************************************************)
(* However many calls pass the size check together, the pool exceeds its   *)
(* limit by less than the number of workers, not counting the imports for   *)
(* proposals, which are not limited.                                       *)
(***************************************************************************)
THEOREM PoolBoundHolds == ASSUME BoundAssumption PROVE Spec => []PoolBound
<1>1. Init => BusyInv /\ BoundInv
  <2> SUFFICES ASSUME Init PROVE BusyInv /\ BoundInv
    OBVIOUS
  <2>1. InProgress = {} /\ Pending = {} /\ Enforced = {} /\ m_txsTable = {}
    BY DEF Init, InProgress, InPhase, Pending, Enforced, Running, SubmitPhases, EnforcePhases,
       InsertPhases, Calls
  <2>2. Cardinality({}) = 0
    BY FS_EmptySet
  <2> QED
    BY <2>1, <2>2, StorageAssumption DEF BusyInv, BoundInv, BoundAssumption
<1>2. TypeOK /\ (BusyInv /\ BoundInv) /\ [Next]_vars => (BusyInv /\ BoundInv)'
  BY StepBound
<1>3. TypeOK /\ BoundInv => PoolBound
  <2> SUFFICES ASSUME TypeOK, BoundInv PROVE PoolBound
    OBVIOUS
  <2>1. Cardinality(Pending) \in Nat /\ Cardinality(Enforced) \in Nat
    BY CallsTyped DEF BoundAssumption
  <2>2. Cardinality(m_txsTable) \in Nat
    BY StorageAssumption, Fewer DEF TypeOK
  <2> QED
    BY <2>1, <2>2, StorageAssumption DEF BoundInv, PoolBound, Enforced, BoundAssumption
<1> QED
  BY <1>1, <1>2, <1>3, TypeCorrect, PTL DEF Spec
=============================================================================
