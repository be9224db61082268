-------------------------- MODULE SealRacesProofs --------------------------
(***************************************************************************)
(* Proofs about SealRaces, for every set of transactions, proposals and    *)
(* threads: types, and what the counter counts while the loops, inserts and *)
(* removals go on at the same time.                                        *)
(***************************************************************************)
EXTENDS SealRaces, FiniteSetTheorems, TLAPS

\* The places between the choice of a transaction and the end of its change.
Within == {"chosen", "adding", "setting", "hashing"}

\* A loop holds the lock for reading, and so its transaction stays in the table,
\* and those that it has yet to visit.
LoopInv(k) ==
    /\ At(k, Within) => job[k].tx \in m_txsTable \cup {NoTx}
    /\ k \in {"sealer", "reset"} => job[k].todo \subseteq m_txsTable
    /\ k \in {"sealer", "reset"} /\ At(k, {"idle"}) => job[k].todo = {}
    /\ k = "sealer" /\ ~At(k, {"idle"}) => job[k].flag
    /\ k = "reset" => At(k, {"idle", "loop", "hashing", "telling", "correcting"})
    /\ k = "submit" => At(k, {"idle", "storing", "telling", "correcting"})
    /\ k = "remove" => At(k, {"idle", "telling", "correcting"})
    /\ At(k, {"storing"}) => k = "submit" /\ job[k].tx \in Txs /\ job[k].flag = FALSE
    /\ ~At(k, {"upgrading", "inserting"})

\* An import holds the lock only when it is about to upgrade it, and in insert.
ImportInv(k) ==
    /\ At(k, {"idle", "upgrading", "adding", "inserting", "storing", "telling", "correcting"})
    /\ At(k, {"upgrading"}) => job[k].tx \in m_txsTable
    /\ At(k, {"adding", "inserting", "storing"}) => job[k].tx \in Txs

ThreadInv(k) == IF k \in Importers THEN ImportInv(k) ELSE LoopInv(k)

SealInv ==
    /\ TypeOK
    /\ \A k \in Threads : ThreadInv(k)

\* As long as no threads have disturbed each other, they change different pooled
\* transactions, and none changes one while a reset runs.
ApartInv ==
    ~clash => /\ \A k \in Changing : job[k].tx \in Txs
              /\ \A k, o \in Changing : k # o => job[k].tx # job[o].tx
              /\ ResetRuns => Changing \subseteq {"reset"}

RaceInv == SealInv /\ ApartInv

\* Thread k has counted a change, or has nothing to count, and is to make it.
Pending(k) == At(k, {"setting"}) \/ (k \in Importers /\ At(k, {"inserting", "storing"}))

\* A thread is about to set the flag of t to f.
Setting(t, f) == \E k \in Threads : Pending(k) /\ job[k].tx = t /\ job[k].flag = f

\* What the counter counts: the sealed transactions, with the changes that are
\* counted but not made yet.
Counted == {t \in Txs : IF t \in sealed THEN ~Setting(t, FALSE) ELSE Setting(t, TRUE)}

\* An import sets the flag of what it inserts.
FlagInv == \A k \in Importers : At(k, {"adding", "inserting", "storing"}) => job[k].flag

\* A thread has read a flag that is to stay until it has counted; or it is an
\* import, and what it inserts is to stay unsealed.
Watching(k) == At(k, {"adding"}) \/ (k \in Importers /\ At(k, {"inserting", "storing"}))

\* As long as threads have not disturbed each other: the flag that a thread has
\* read stays as it was; a reset has yet to visit all that is sealed; and the
\* counter counts.
AddInv == ~clash => \A k \in Threads : Watching(k) => Adds(k)
ResetInv == ~clash /\ ResetRuns => sealed \subseteq job["reset"].todo
SumInv == ~clash /\ ~ResetRuns => m_sealedTxsSize = Cardinality(Counted)

CountInv == RaceInv /\ FlagInv /\ AddInv /\ ResetInv /\ SumInv
-----------------------------------------------------------------------------
(***************************************************************************)
(* Threads.                                                                *)
(***************************************************************************)
LEMMA ThreadNames ==
    /\ {"sealer", "reset", "submit", "remove"} \subseteq Threads \ (Markers \cup Importers)
    /\ Markers \subseteq Threads /\ Importers \subseteq Threads /\ Markers \cap Importers = {}
BY RacesAssumption DEF Threads, Singles

LEMMA JobTyped ==
    /\ \A at \in Places, tx \in Txs \cup {NoTx}, todo \in SUBSET Txs,
          batch \in Proposals \cup {NoBatch}, flag \in BOOLEAN :
         [at |-> at, tx |-> tx, todo |-> todo, batch |-> batch, flag |-> flag] \in Job
    /\ \A j \in Job, at \in Places, tx \in Txs \cup {NoTx}, todo \in SUBSET Txs :
         /\ [j EXCEPT !.at = at] \in Job
         /\ [j EXCEPT !.todo = todo] \in Job
         /\ [j EXCEPT !.at = at, !.tx = tx] \in Job
         /\ [j EXCEPT !.at = at, !.tx = tx, !.todo = todo] \in Job
    /\ Resting \in Job
    /\ \A at \in Places, todo \in SUBSET Txs :
         /\ [Resting EXCEPT !.at = at] \in Job
         /\ [Resting EXCEPT !.at = at, !.todo = todo] \in Job
         /\ [Resting EXCEPT !.at = at, !.todo = todo, !.flag = TRUE] \in Job
<1>1. \A at \in Places, tx \in Txs \cup {NoTx}, todo \in SUBSET Txs,
          batch \in Proposals \cup {NoBatch}, flag \in BOOLEAN :
         [at |-> at, tx |-> tx, todo |-> todo, batch |-> batch, flag |-> flag] \in Job
  BY DEF Job
<1>2. \A j \in Job, at \in Places, tx \in Txs \cup {NoTx}, todo \in SUBSET Txs :
         /\ [j EXCEPT !.at = at] \in Job
         /\ [j EXCEPT !.todo = todo] \in Job
         /\ [j EXCEPT !.at = at, !.tx = tx] \in Job
         /\ [j EXCEPT !.at = at, !.tx = tx, !.todo = todo] \in Job
  BY DEF Job
<1>3. Resting \in Job
  BY DEF Resting, Job, Places
<1>4. \A at \in Places, todo \in SUBSET Txs :
         /\ [Resting EXCEPT !.at = at] \in Job
         /\ [Resting EXCEPT !.at = at, !.todo = todo] \in Job
         /\ [Resting EXCEPT !.at = at, !.todo = todo, !.flag = TRUE] \in Job
  BY DEF Resting, Job, Places
<1> QED
  BY <1>1, <1>2, <1>3, <1>4

LEMMA JobFields ==
    ASSUME NEW j \in Job
    PROVE  /\ j.at \in Places /\ j.tx \in Txs \cup {NoTx} /\ j.todo \in SUBSET Txs
           /\ j.batch \in Proposals \cup {NoBatch} /\ j.flag \in BOOLEAN
BY DEF Job

\* A step of thread k leaves the other threads where they are.
LEMMA OnlyOne ==
    ASSUME TypeOK, NEW k \in Threads, NEW j \in Job, Become(k, j)
    PROVE  job' \in [Threads -> Job] /\ job'[k] = j /\ \A o \in Threads \ {k} : job'[o] = job[o]
BY DEF TypeOK, Become

LEMMA OnlyPlace ==
    ASSUME TypeOK, NEW k \in Threads, NEW place \in Places, Goto(k, place)
    PROVE  /\ job' \in [Threads -> Job] /\ job'[k] = [job[k] EXCEPT !.at = place]
           /\ \A o \in Threads \ {k} : job'[o] = job[o]
<1>1. job[k] \in Job
  BY DEF TypeOK
<1> QED
  BY <1>1, JobTyped DEF TypeOK, Goto

\* A store may show a new transaction to the loops through the table; and the
\* loops that are at an old one go on with the object that it replaces.
Shown(o, t) ==
    \/ job'[o] = job[o]
    \/ /\ t \in m_txsTable /\ At(o, Within) /\ o \notin Importers
       /\ job'[o] = [job[o] EXCEPT !.tx = NoTx]
    \/ /\ t \notin m_txsTable
       /\ o \in {"sealer", "reset"} /\ ~At(o, {"idle"})
       /\ job'[o] = [job[o] EXCEPT !.todo = @ \cup {t}]

LEMMA StoredFrame ==
    ASSUME TypeOK, NEW k \in Threads, NEW t \in Txs, Stored(k, t)
    PROVE  /\ job' \in [Threads -> Job] /\ job'[k] = [Resting EXCEPT !.at = "telling"]
           /\ \A o \in Threads \ {k} : Shown(o, t)
<1> DEFINE new(o, K) ==
        IF o = k THEN [Resting EXCEPT !.at = "telling"]
        ELSE IF t \in m_txsTable
             THEN IF o \in Visiting \ Importers /\ job[o].tx = t
                  THEN [job[o] EXCEPT !.tx = NoTx] ELSE job[o]
        ELSE IF o \in K THEN [job[o] EXCEPT !.todo = @ \cup {t}] ELSE job[o]
<1>1. PICK K \in SUBSET {o \in {"sealer", "reset"} : ~At(o, {"idle", "telling", "correcting"})} :
        job' = [o \in Threads |-> new(o, K)]
  BY DEF Stored
<1>2. \A o \in Threads : job[o] \in Job
  BY DEF TypeOK
<1>3. ASSUME NEW o \in Threads
      PROVE  [job[o] EXCEPT !.todo = @ \cup {t}] \in Job /\ [job[o] EXCEPT !.tx = NoTx] \in Job
  BY <1>2 DEF Job
<1>4. [Resting EXCEPT !.at = "telling"] \in Job
  BY JobTyped DEF Places
<1>5. \A o \in Threads : job'[o] = new(o, K)
  BY <1>1
<1>6. \A o \in Threads : new(o, K) \in Job
  BY <1>2, <1>3, <1>4
<1>7. job' \in [Threads -> Job]
  BY <1>1, <1>6
<1>8. ASSUME NEW o \in Threads \ {k}
      PROVE  Shown(o, t)
  <2>1. CASE t \in m_txsTable
    BY <1>5, <2>1 DEF Shown, Visiting, At, Within
  <2>2. CASE t \notin m_txsTable
    BY <1>1, <1>5, <2>2 DEF Shown, At
  <2> QED
    BY <2>1, <2>2
<1> QED
  BY <1>5, <1>7, <1>8

LEMMA ShownFields ==
    ASSUME TypeOK, NEW o \in Threads, NEW t, Shown(o, t)
    PROVE  /\ job'[o].at = job[o].at /\ job'[o].flag = job[o].flag
           /\ job'[o].batch = job[o].batch /\ job[o].todo \subseteq job'[o].todo
           /\ t \notin m_txsTable => job'[o].tx = job[o].tx
BY DEF TypeOK, Shown, Job

LEMMA SizeTyped ==
    ASSUME TypeOK
    PROVE  /\ SizePlus \in 0 .. SizeMax
           /\ \A n \in 0 .. SizeMax + 1 : SizeMinus(n) \in 0 .. SizeMax
           /\ \A S \in SUBSET Txs : Cardinality(S) \in 0 .. SizeMax
<1>1. SizePlus \in 0 .. SizeMax
  BY RacesAssumption DEF TypeOK, SizePlus
<1>2. \A n \in 0 .. SizeMax + 1 : SizeMinus(n) \in 0 .. SizeMax
  BY RacesAssumption DEF TypeOK, SizeMinus
<1>3. ASSUME NEW S \in SUBSET Txs
      PROVE  Cardinality(S) \in 0 .. SizeMax
  <2>1. /\ Cardinality(S) \in Nat /\ Cardinality(Txs) \in Nat
        /\ Cardinality(S) <= Cardinality(Txs)
    BY RacesAssumption, FS_Subset, FS_CardinalityType
  <2> QED
    BY <2>1, RacesAssumption
<1> QED
  BY <1>1, <1>2, <1>3

\* What a step of k does to the table and to what the sealer holds leaves the
\* other threads right, unless it removes transactions.
LEMMA OthersKeep ==
    ASSUME SealInv, NEW k \in Threads,
           \A o \in Threads \ {k} : job'[o] = job[o],
           m_txsTable \subseteq m_txsTable'
    PROVE  \A o \in Threads \ {k} : ThreadInv(o)'
BY ThreadNames DEF SealInv, ThreadInv, LoopInv, ImportInv, At
-----------------------------------------------------------------------------
(***************************************************************************)
(* Types, and what the sealer holds.                                       *)
(***************************************************************************)
LEMMA SealInvInit == Init => SealInv
<1> SUFFICES ASSUME Init PROVE SealInv
  OBVIOUS
<1>1. TypeOK
  <2>1. Cardinality(Txs) \in Nat
    BY RacesAssumption, FS_CardinalityType
  <2>2. 0 \in 0 .. SizeMax /\ 0 \in 0 .. Cardinality(Txs)
    BY <2>1, RacesAssumption
  <2>3. job \in [Threads -> Job]
    BY JobTyped DEF Init
  <2> QED
    BY <2>2, <2>3 DEF Init, TypeOK
<1>2. \A k \in Threads : job[k] = Resting
  BY DEF Init
<1>3. Resting.at = "idle" /\ Resting.todo = {}
  BY DEF Resting
<1>4. \A k \in Threads : ThreadInv(k)
  BY <1>2, <1>3 DEF ThreadInv, LoopInv, ImportInv, At, Within
<1> QED
  BY <1>1, <1>4 DEF Init, SealInv

LEMMA BeginSealKeeps ==
    ASSUME SealInv, BeginSeal
    PROVE  SealInv'
<1> DEFINE j == [Resting EXCEPT !.at = "loop", !.todo = m_txsTable, !.flag = TRUE]
<1>a. j \in Job
  BY JobTyped, JobFields, RacesAssumption, ThreadNames DEF SealInv, TypeOK, Places, BeginSeal
<1>j. /\ job' \in [Threads -> Job] /\ job'["sealer"] = j
      /\ \A o \in Threads \ {"sealer"} : job'[o] = job[o]
  BY <1>a, OnlyOne, ThreadNames DEF SealInv, BeginSeal
<1>1. TypeOK'
  BY <1>a, <1>j, SizeTyped, RacesAssumption, JobFields, ThreadNames
  DEF BeginSeal, SealInv, TypeOK, ThreadInv, LoopInv, ImportInv, At, Within, Resting
<1>2. ThreadInv("sealer")'
  BY <1>a, <1>j, JobFields, ThreadNames
  DEF BeginSeal, SealInv, TypeOK, ThreadInv, LoopInv, ImportInv, At, Within, Places, Resting
<1>3. \A o \in Threads \ {"sealer"} : ThreadInv(o)'
  BY <1>j, OthersKeep, ThreadNames DEF BeginSeal
<1> QED
  BY <1>1, <1>2, <1>3 DEF SealInv

LEMMA BeginResetKeeps ==
    ASSUME SealInv, BeginReset
    PROVE  SealInv'
<1> DEFINE j == [Resting EXCEPT !.at = "loop", !.todo = m_txsTable]
<1>a. j \in Job
  BY JobTyped, JobFields, RacesAssumption, ThreadNames DEF SealInv, TypeOK, Places, BeginReset
<1>j. /\ job' \in [Threads -> Job] /\ job'["reset"] = j
      /\ \A o \in Threads \ {"reset"} : job'[o] = job[o]
  BY <1>a, OnlyOne, ThreadNames DEF SealInv, BeginReset
<1>1. TypeOK'
  BY <1>a, <1>j, SizeTyped, RacesAssumption, JobFields, ThreadNames
  DEF BeginReset, SealInv, TypeOK, ThreadInv, LoopInv, ImportInv, At, Within, Resting
<1>2. ThreadInv("reset")'
  BY <1>a, <1>j, JobFields, ThreadNames
  DEF BeginReset, SealInv, TypeOK, ThreadInv, LoopInv, ImportInv, At, Within, Places, Resting
<1>3. \A o \in Threads \ {"reset"} : ThreadInv(o)'
  BY <1>j, OthersKeep, ThreadNames DEF BeginReset
<1> QED
  BY <1>1, <1>2, <1>3 DEF SealInv

LEMMA BeginMarkKeeps ==
    ASSUME SealInv, NEW k \in Markers, NEW p \in Proposals, NEW f \in BOOLEAN, BeginMark(k, p, f)
    PROVE  SealInv'
<1> DEFINE j == [at |-> "loop", tx |-> NoTx, todo |-> TxsIn[p], batch |-> p, flag |-> f]
<1>a. j \in Job
  BY JobTyped, JobFields, RacesAssumption, ThreadNames DEF SealInv, TypeOK, Places, BeginMark
<1>j. /\ job' \in [Threads -> Job] /\ job'[k] = j
      /\ \A o \in Threads \ {k} : job'[o] = job[o]
  BY <1>a, OnlyOne, ThreadNames DEF SealInv, BeginMark
<1>1. TypeOK'
  BY <1>a, <1>j, SizeTyped, RacesAssumption, JobFields, ThreadNames
  DEF BeginMark, SealInv, TypeOK, ThreadInv, LoopInv, ImportInv, At, Within
<1>2. ThreadInv(k)'
  BY <1>a, <1>j, JobFields, ThreadNames
  DEF BeginMark, SealInv, TypeOK, ThreadInv, LoopInv, ImportInv, At, Within, Places
<1>3. \A o \in Threads \ {k} : ThreadInv(o)'
  BY <1>j, OthersKeep, ThreadNames DEF BeginMark
<1> QED
  BY <1>1, <1>2, <1>3 DEF SealInv

LEMMA SkipKeeps ==
    ASSUME SealInv, NEW k \in Threads, NEW t \in Txs, Skip(k, t)
    PROVE  SealInv'
<1> DEFINE j == [job[k] EXCEPT !.todo = @ \ {t}]
<1>a. j \in Job
  BY JobTyped, JobFields, RacesAssumption, ThreadNames DEF SealInv, TypeOK, Places, Skip
<1>j. /\ job' \in [Threads -> Job] /\ job'[k] = j
      /\ \A o \in Threads \ {k} : job'[o] = job[o]
  BY <1>a, OnlyOne, ThreadNames DEF SealInv, Skip
<1>1. TypeOK'
  BY <1>a, <1>j, SizeTyped, RacesAssumption, JobFields, ThreadNames
  DEF Skip, SealInv, TypeOK, ThreadInv, LoopInv, ImportInv, At, Within
<1>2. ThreadInv(k)'
  BY <1>a, <1>j, JobFields, ThreadNames
  DEF Skip, SealInv, TypeOK, ThreadInv, LoopInv, ImportInv, At, Within, Places
<1>3. \A o \in Threads \ {k} : ThreadInv(o)'
  BY <1>j, OthersKeep, ThreadNames DEF Skip
<1> QED
  BY <1>1, <1>2, <1>3 DEF SealInv

LEMMA ChooseKeeps ==
    ASSUME SealInv, NEW k \in Threads, NEW t \in Txs, Choose(k, t)
    PROVE  SealInv'
<1> DEFINE j == [job[k] EXCEPT !.at = "chosen", !.tx = t, !.todo = @ \ {t}]
<1>a. j \in Job
  BY JobTyped, JobFields, RacesAssumption, ThreadNames DEF SealInv, TypeOK, Places, Choose
<1>j. /\ job' \in [Threads -> Job] /\ job'[k] = j
      /\ \A o \in Threads \ {k} : job'[o] = job[o]
  BY <1>a, OnlyOne, ThreadNames DEF SealInv, Choose
<1>1. TypeOK'
  BY <1>a, <1>j, SizeTyped, RacesAssumption, JobFields, ThreadNames
  DEF Choose, SealInv, TypeOK, ThreadInv, LoopInv, ImportInv, At, Within, Open
<1>2. ThreadInv(k)'
  BY <1>a, <1>j, JobFields, ThreadNames
  DEF Choose, SealInv, TypeOK, ThreadInv, LoopInv, ImportInv, At, Within, Places, Open
<1>3. \A o \in Threads \ {k} : ThreadInv(o)'
  BY <1>j, OthersKeep, ThreadNames DEF Choose
<1> QED
  BY <1>1, <1>2, <1>3 DEF SealInv

LEMMA ReadSealedKeeps ==
    ASSUME SealInv, NEW k \in Threads, ReadSealed(k)
    PROVE  SealInv'
<1>0. PICK place \in {"adding", "setting"} : Goto(k, place)
  BY DEF ReadSealed
<1>j. /\ job' \in [Threads -> Job] /\ job'[k] = [job[k] EXCEPT !.at = place]
      /\ \A o \in Threads \ {k} : job'[o] = job[o]
  BY <1>0, OnlyPlace DEF SealInv, Places
<1>a. /\ job'[k].at = place /\ job'[k].tx = job[k].tx /\ job'[k].todo = job[k].todo
      /\ job'[k].flag = job[k].flag
  BY <1>j DEF SealInv, TypeOK, Job
<1>1. TypeOK'
  BY <1>j DEF ReadSealed, SealInv, TypeOK
<1>2. ThreadInv(k)'
  BY <1>a, ThreadNames DEF ReadSealed, SealInv, ThreadInv, LoopInv, ImportInv, At, Within
<1>3. \A o \in Threads \ {k} : ThreadInv(o)'
  BY <1>j, OthersKeep DEF ReadSealed
<1> QED
  BY <1>1, <1>2, <1>3 DEF SealInv

LEMMA AddKeeps ==
    ASSUME SealInv, NEW k \in Threads, Add(k)
    PROVE  SealInv'
<1> DEFINE place == IF k \in Importers THEN "inserting" ELSE "setting"
<1>j. /\ job' \in [Threads -> Job] /\ job'[k] = [job[k] EXCEPT !.at = place]
      /\ \A o \in Threads \ {k} : job'[o] = job[o]
  BY OnlyPlace DEF SealInv, Add, Places
<1>a. /\ job'[k].at = place /\ job'[k].tx = job[k].tx /\ job'[k].todo = job[k].todo
      /\ job'[k].flag = job[k].flag
  BY <1>j DEF SealInv, TypeOK, Job
<1>1. TypeOK'
  <2>1. m_sealedTxsSize' \in 0 .. SizeMax
    BY SizeTyped, RacesAssumption DEF Add, SealInv
  <2> QED
    BY <1>j, <2>1 DEF Add, SealInv, TypeOK
<1>2. ThreadInv(k)'
  BY <1>a, ThreadNames DEF Add, SealInv, ThreadInv, LoopInv, ImportInv, At, Within
<1>3. \A o \in Threads \ {k} : ThreadInv(o)'
  BY <1>j, OthersKeep DEF Add
<1> QED
  BY <1>1, <1>2, <1>3 DEF SealInv

LEMMA SetSealedKeeps ==
    ASSUME SealInv, NEW k \in Threads, SetSealed(k)
    PROVE  SealInv'
<1> DEFINE j == IF job[k].flag THEN [job[k] EXCEPT !.at = "hashing"]
                ELSE [job[k] EXCEPT !.at = "loop", !.tx = NoTx]
<1>a. j \in Job
  BY JobTyped, JobFields, RacesAssumption, ThreadNames DEF SealInv, TypeOK, Places, SetSealed
<1>j. /\ job' \in [Threads -> Job] /\ job'[k] = j
      /\ \A o \in Threads \ {k} : job'[o] = job[o]
  BY OnlyPlace, <1>a, OnlyOne, ThreadNames DEF SealInv, SetSealed, Places
<1>1. TypeOK'
  <2>1. Held(k) \subseteq m_txsTable
    BY ThreadNames DEF SetSealed, Held, SealInv, ThreadInv, LoopInv, ImportInv, At, Within
  <2>2. sealed' \subseteq m_txsTable'
    BY <2>1 DEF SetSealed, SealInv, TypeOK
  <2> QED
    BY <1>j, <2>2 DEF SetSealed, SealInv, TypeOK
<1>2. ThreadInv(k)'
  BY <1>a, <1>j, JobFields, ThreadNames
  DEF SetSealed, SealInv, TypeOK, ThreadInv, LoopInv, ImportInv, At, Within, Places
<1>3. \A o \in Threads \ {k} : ThreadInv(o)'
  BY <1>j, OthersKeep, ThreadNames DEF SetSealed
<1> QED
  BY <1>1, <1>2, <1>3 DEF SealInv

LEMMA ClearSealedKeeps ==
    ASSUME SealInv, NEW t \in Txs, ClearSealed(t)
    PROVE  SealInv'
<1> DEFINE j == [job["reset"] EXCEPT !.at = "hashing", !.tx = t, !.todo = @ \ {t}]
<1>a. j \in Job
  BY JobTyped, JobFields, RacesAssumption, ThreadNames DEF SealInv, TypeOK, Places, ClearSealed
<1>j. /\ job' \in [Threads -> Job] /\ job'["reset"] = j
      /\ \A o \in Threads \ {"reset"} : job'[o] = job[o]
  BY <1>a, OnlyOne, ThreadNames DEF SealInv, ClearSealed
<1>1. TypeOK'
  BY <1>a, <1>j, SizeTyped, RacesAssumption, JobFields, ThreadNames
  DEF ClearSealed, SealInv, TypeOK, ThreadInv, LoopInv, ImportInv, At, Within
<1>2. ThreadInv("reset")'
  BY <1>a, <1>j, JobFields, ThreadNames
  DEF ClearSealed, SealInv, TypeOK, ThreadInv, LoopInv, ImportInv, At, Within, Places
<1>3. \A o \in Threads \ {"reset"} : ThreadInv(o)'
  BY <1>j, OthersKeep, ThreadNames DEF ClearSealed
<1> QED
  BY <1>1, <1>2, <1>3 DEF SealInv

LEMMA SetHashKeeps ==
    ASSUME SealInv, NEW k \in Threads, SetHash(k)
    PROVE  SealInv'
<1>0. PICK next \in {"loop", "telling"} :
        /\ next = "telling" => k = "sealer"
        /\ Become(k, [job[k] EXCEPT !.at = next, !.tx = NoTx])
  BY DEF SetHash
<1> DEFINE j == [job[k] EXCEPT !.at = next, !.tx = NoTx]
<1>a. j \in Job
  BY JobTyped, JobFields DEF SealInv, TypeOK, Places
<1>j. /\ job' \in [Threads -> Job] /\ job'[k] = j
      /\ \A o \in Threads \ {k} : job'[o] = job[o]
  BY <1>0, <1>a, OnlyOne DEF SealInv
<1>1. TypeOK'
  BY <1>j, JobFields DEF SetHash, SealInv, TypeOK
<1>2. ThreadInv(k)'
  BY <1>0, <1>a, <1>j, JobFields, ThreadNames
  DEF SetHash, SealInv, TypeOK, ThreadInv, LoopInv, ImportInv, At, Within, Places
<1>3. \A o \in Threads \ {k} : ThreadInv(o)'
  BY <1>j, OthersKeep DEF SetHash
<1> QED
  BY <1>1, <1>2, <1>3 DEF SealInv, SetHash

LEMMA EndLoopKeeps ==
    ASSUME SealInv, NEW k \in Threads, EndLoop(k)
    PROVE  SealInv'
<1> DEFINE j == IF k \in Markers THEN Resting ELSE [job[k] EXCEPT !.at = "telling"]
<1>a. j \in Job
  BY JobTyped, JobFields, RacesAssumption, ThreadNames DEF SealInv, TypeOK, Places, EndLoop
<1>j. /\ job' \in [Threads -> Job] /\ job'[k] = j
      /\ \A o \in Threads \ {k} : job'[o] = job[o]
  BY OnlyPlace, <1>a, OnlyOne, ThreadNames DEF SealInv, EndLoop, Places
<1>1. TypeOK'
  BY <1>a, <1>j, SizeTyped, RacesAssumption, JobFields, ThreadNames
  DEF EndLoop, SealInv, TypeOK, ThreadInv, LoopInv, ImportInv, At, Within, Resting
<1>2. ThreadInv(k)'
  BY <1>a, <1>j, JobFields, ThreadNames
  DEF EndLoop, SealInv, TypeOK, ThreadInv, LoopInv, ImportInv, At, Within, Places, Resting
<1>3. \A o \in Threads \ {k} : ThreadInv(o)'
  BY <1>j, OthersKeep, ThreadNames DEF EndLoop
<1> QED
  BY <1>1, <1>2, <1>3 DEF SealInv

LEMMA LookupKeeps ==
    ASSUME SealInv, NEW k \in Importers, NEW t \in Txs, NEW p \in Proposals, Lookup(k, t, p)
    PROVE  SealInv'
<1> DEFINE j == [at |-> IF t \in m_txsTable THEN "upgrading" ELSE "adding", tx |-> t, todo |-> {},
                batch |-> p, flag |-> TRUE]
<1>a. j \in Job
  BY JobTyped, JobFields, RacesAssumption, ThreadNames DEF SealInv, TypeOK, Places, Lookup
<1>j. /\ job' \in [Threads -> Job] /\ job'[k] = j
      /\ \A o \in Threads \ {k} : job'[o] = job[o]
  BY <1>a, OnlyOne, ThreadNames DEF SealInv, Lookup
<1>1. TypeOK'
  BY <1>a, <1>j, SizeTyped, RacesAssumption, JobFields, ThreadNames
  DEF Lookup, SealInv, TypeOK, ThreadInv, LoopInv, ImportInv, At, Within
<1>2. ThreadInv(k)'
  BY <1>a, <1>j, JobFields, ThreadNames
  DEF Lookup, SealInv, TypeOK, ThreadInv, LoopInv, ImportInv, At, Within, Places
<1>3. \A o \in Threads \ {k} : ThreadInv(o)'
  BY <1>j, OthersKeep, ThreadNames DEF Lookup
<1> QED
  BY <1>1, <1>2, <1>3 DEF SealInv

LEMMA UpgradeKeeps ==
    ASSUME SealInv, NEW k \in Threads, Upgrade(k)
    PROVE  SealInv'
<1> DEFINE j == Resting
<1>a. j \in Job
  BY JobTyped, JobFields, RacesAssumption, ThreadNames DEF SealInv, TypeOK, Places, Upgrade
<1>j. /\ job' \in [Threads -> Job] /\ job'[k] = j
      /\ \A o \in Threads \ {k} : job'[o] = job[o]
  BY <1>a, OnlyOne, ThreadNames DEF SealInv, Upgrade
<1>1. TypeOK'
  BY <1>a, <1>j, SizeTyped, RacesAssumption, JobFields, ThreadNames
  DEF Upgrade, SealInv, TypeOK, ThreadInv, LoopInv, ImportInv, At, Within, Resting
<1>2. ThreadInv(k)'
  BY <1>a, <1>j, JobFields, ThreadNames
  DEF Upgrade, SealInv, TypeOK, ThreadInv, LoopInv, ImportInv, At, Within, Places, Resting
<1>3. \A o \in Threads \ {k} : ThreadInv(o)'
  BY <1>j, OthersKeep, ThreadNames DEF Upgrade
<1> QED
  BY <1>1, <1>2, <1>3 DEF SealInv

LEMMA TellKeeps ==
    ASSUME SealInv, NEW k \in Threads, Tell(k)
    PROVE  SealInv'
<1> DEFINE j == IF Cardinality(m_txsTable) < m_sealedTxsSize
                THEN [job[k] EXCEPT !.at = "correcting"] ELSE Resting
<1>a. j \in Job
  BY JobTyped, JobFields, RacesAssumption, ThreadNames DEF SealInv, TypeOK, Places, Tell
<1>j. /\ job' \in [Threads -> Job] /\ job'[k] = j
      /\ \A o \in Threads \ {k} : job'[o] = job[o]
  BY OnlyPlace, <1>a, OnlyOne, ThreadNames DEF SealInv, Tell, Places
<1>1. TypeOK'
  <2> DEFINE n == Cardinality(m_txsTable)
  <2>1. n \in Nat /\ Cardinality(Txs) \in Nat /\ n <= Cardinality(Txs)
    BY RacesAssumption, FS_Subset, FS_CardinalityType DEF SealInv, TypeOK
  <2>2. m_sealedTxsSize \in 0 .. SizeMax /\ SizeMax \in Nat
    BY RacesAssumption DEF SealInv, TypeOK
  <2>3. ~(n < m_sealedTxsSize) => n - m_sealedTxsSize \in 0 .. Cardinality(Txs)
    BY <2>1, <2>2
  <2>4. sealerView' \in 0 .. Cardinality(Txs)
    BY <2>3 DEF Tell, SealInv, TypeOK
  <2> QED
    BY <1>j, <2>4 DEF Tell, SealInv, TypeOK
<1>2. ThreadInv(k)'
  BY <1>a, <1>j, JobFields, ThreadNames
  DEF Tell, SealInv, TypeOK, ThreadInv, LoopInv, ImportInv, At, Within, Places, Resting
<1>3. \A o \in Threads \ {k} : ThreadInv(o)'
  BY <1>j, OthersKeep, ThreadNames DEF Tell
<1> QED
  BY <1>1, <1>2, <1>3 DEF SealInv

LEMMA CorrectKeeps ==
    ASSUME SealInv, NEW k \in Threads, Correct(k)
    PROVE  SealInv'
<1> DEFINE j == Resting
<1>a. j \in Job
  BY JobTyped, JobFields, RacesAssumption, ThreadNames DEF SealInv, TypeOK, Places, Correct
<1>j. /\ job' \in [Threads -> Job] /\ job'[k] = j
      /\ \A o \in Threads \ {k} : job'[o] = job[o]
  BY <1>a, OnlyOne, ThreadNames DEF SealInv, Correct
<1>1. TypeOK'
  <2>1. m_sealedTxsSize' \in 0 .. SizeMax
    BY SizeTyped DEF Correct, SealInv, TypeOK
  <2>2. sealerView' \in 0 .. Cardinality(Txs)
    BY RacesAssumption, FS_CardinalityType DEF Correct
  <2> QED
    BY <1>j, <2>1, <2>2 DEF Correct, SealInv, TypeOK
<1>2. ThreadInv(k)'
  BY <1>a, <1>j, JobFields, ThreadNames
  DEF Correct, SealInv, TypeOK, ThreadInv, LoopInv, ImportInv, At, Within, Places, Resting
<1>3. \A o \in Threads \ {k} : ThreadInv(o)'
  BY <1>j, OthersKeep, ThreadNames DEF Correct
<1> QED
  BY <1>1, <1>2, <1>3 DEF SealInv

\* Whoever holds the lock for reading is not at work when transactions leave.
LEMMA RemoveKeeps ==
    ASSUME SealInv, NEW R \in SUBSET m_txsTable, Remove(R)
    PROVE  SealInv'
<1> DEFINE j == [Resting EXCEPT !.at = "telling"]
<1>a. j \in Job
  BY JobTyped DEF Places
<1>j. /\ job' \in [Threads -> Job] /\ job'["remove"] = j
      /\ \A o \in Threads \ {"remove"} : job'[o] = job[o]
  BY <1>a, OnlyOne, ThreadNames DEF SealInv, Remove
<1>1. TypeOK'
  <2>1. Cardinality(R \cap sealed) \in 0 .. SizeMax
    BY SizeTyped DEF SealInv, TypeOK
  <2>2. SizeMinus(Cardinality(R \cap sealed)) \in 0 .. SizeMax
    BY <2>1, SizeTyped, RacesAssumption DEF SealInv
  <2> QED
    BY <1>j, <2>2 DEF Remove, SealInv, TypeOK
<1>2. ThreadInv("remove")'
  BY <1>j, ThreadNames DEF ThreadInv, LoopInv, At, Within, Resting
<1>3. ASSUME NEW o \in Threads \ {"remove"}
      PROVE  ThreadInv(o)'
  <2>1. job'[o] = job[o] /\ ~Reads(o) /\ ThreadInv(o)
    BY <1>j, <1>3 DEF Remove, SealInv
  <2>2. CASE o \in Importers
    BY <2>1, <2>2 DEF ThreadInv, ImportInv, Reads, At
  <2>3. CASE o \notin Importers
    BY <2>1, <2>3 DEF ThreadInv, LoopInv, Reads, At, Within
  <2> QED
    BY <2>2, <2>3
<1> QED
  BY <1>1, <1>2, <1>3 DEF SealInv, Remove

LEMMA ShownKeeps ==
    ASSUME SealInv, NEW k \in Threads, NEW t \in Txs,
           \A o \in Threads \ {k} : Shown(o, t), m_txsTable' = m_txsTable \cup {t}
    PROVE  \A o \in Threads \ {k} : ThreadInv(o)'
<1> SUFFICES ASSUME NEW o \in Threads \ {k}
             PROVE  ThreadInv(o)'
  OBVIOUS
<1>0. Shown(o, t) /\ job[o] \in Job
  BY DEF SealInv, TypeOK
<1>1. CASE job'[o] = job[o]
  BY <1>1 DEF SealInv, ThreadInv, LoopInv, ImportInv, At
<1>2. CASE /\ t \in m_txsTable /\ At(o, Within) /\ o \notin Importers
           /\ job'[o] = [job[o] EXCEPT !.tx = NoTx]
  <2>1. /\ job'[o].at = job[o].at /\ job'[o].tx = NoTx /\ job'[o].flag = job[o].flag
        /\ job'[o].todo = job[o].todo
    BY <1>0, <1>2 DEF Job
  <2> QED
    BY <1>2, <2>1 DEF SealInv, ThreadInv, LoopInv, At, Within
<1>3. CASE /\ o \in {"sealer", "reset"} /\ ~At(o, {"idle"})
           /\ job'[o] = [job[o] EXCEPT !.todo = @ \cup {t}]
  <2>1. /\ job'[o].at = job[o].at /\ job'[o].tx = job[o].tx /\ job'[o].flag = job[o].flag
        /\ job'[o].todo = job[o].todo \cup {t}
    BY <1>0, <1>3 DEF Job
  <2> QED
    BY <1>3, <2>1, ThreadNames DEF SealInv, ThreadInv, LoopInv, At
<1> QED
  BY <1>0, <1>1, <1>2, <1>3 DEF Shown

LEMMA BeginSubmitKeeps ==
    ASSUME SealInv, NEW t \in Txs, BeginSubmit(t)
    PROVE  SealInv'
<1> DEFINE j == [Resting EXCEPT !.at = "storing", !.tx = t]
<1>a. j \in Job /\ j.at = "storing" /\ j.tx = t /\ j.flag = FALSE
  BY DEF Job, Resting, Places
<1>j. /\ job' \in [Threads -> Job] /\ job'["submit"] = j
      /\ \A o \in Threads \ {"submit"} : job'[o] = job[o]
  BY <1>a, OnlyOne, ThreadNames DEF SealInv, BeginSubmit
<1>1. TypeOK'
  BY <1>j DEF BeginSubmit, SealInv, TypeOK
<1>2. ThreadInv("submit")'
  BY <1>a, <1>j, ThreadNames DEF ThreadInv, LoopInv, At, Within
<1>3. \A o \in Threads \ {"submit"} : ThreadInv(o)'
  BY <1>j, OthersKeep, ThreadNames DEF BeginSubmit
<1> QED
  BY <1>1, <1>2, <1>3 DEF SealInv

LEMMA CheckAgainKeeps ==
    ASSUME SealInv, NEW k \in Threads, CheckAgain(k)
    PROVE  SealInv'
<1>0. k \in Importers /\ job[k].tx \in Txs /\ job[k] \in Job
  BY DEF CheckAgain, SealInv, TypeOK, ThreadInv, LoopInv, ImportInv, At
<1> DEFINE j == IF job[k].tx \in m_txsTable THEN Resting ELSE [job[k] EXCEPT !.at = "storing"]
<1>a. j \in Job
  BY <1>0, JobTyped DEF Places
<1>b. j.at = "idle" \/ (j.at = "storing" /\ j.tx = job[k].tx)
  BY <1>0 DEF Resting, Job
<1>j. /\ job' \in [Threads -> Job] /\ job'[k] = j
      /\ \A o \in Threads \ {k} : job'[o] = job[o]
  BY <1>a, OnlyPlace, OnlyOne DEF SealInv, CheckAgain, Places
<1>1. TypeOK'
  BY <1>j DEF CheckAgain, SealInv, TypeOK
<1>2. ThreadInv(k)'
  BY <1>0, <1>b, <1>j DEF ThreadInv, ImportInv, At
<1>3. \A o \in Threads \ {k} : ThreadInv(o)'
  BY <1>j, OthersKeep DEF CheckAgain
<1> QED
  BY <1>1, <1>2, <1>3 DEF SealInv

LEMMA StoreKeeps ==
    ASSUME SealInv, NEW k \in Threads, Store(k)
    PROVE  SealInv'
<1> DEFINE t == job[k].tx
<1>0. t \in Txs /\ job[k].batch \in Proposals \cup {NoBatch}
  BY JobFields DEF Store, SealInv, TypeOK, ThreadInv, LoopInv, ImportInv, At
<1>j. /\ job' \in [Threads -> Job] /\ job'[k] = [Resting EXCEPT !.at = "telling"]
      /\ \A o \in Threads \ {k} : Shown(o, t)
  BY <1>0, StoredFrame DEF Store, SealInv
<1>a. job'[k].at = "telling" /\ job'[k].todo = {} /\ (k \in Importers \cup {"submit"})
  BY <1>j DEF Resting, Store, SealInv, ThreadInv, LoopInv, At
<1>1. TypeOK'
  <2>1. /\ m_txsTable' = m_txsTable \cup {t} /\ sealed' \subseteq sealed \cup {t}
        /\ batchHash' = [batchHash EXCEPT ![t] = job[k].batch]
        /\ m_sealedTxsSize' = m_sealedTxsSize /\ sealerView' = sealerView
        /\ clash' = (clash \/ t \in m_txsTable)
    BY DEF Store
  <2>2. clash' \in BOOLEAN
    BY <2>1 DEF SealInv, TypeOK
  <2> QED
    BY <1>0, <1>j, <2>1, <2>2 DEF SealInv, TypeOK
<1>2. ThreadInv(k)'
  BY <1>a, ThreadNames DEF ThreadInv, ImportInv, LoopInv, At, Within
<1>3. \A o \in Threads \ {k} : ThreadInv(o)'
  BY <1>0, <1>j, ShownKeeps DEF Store
<1> QED
  BY <1>1, <1>2, <1>3 DEF SealInv

\* No step of one thread takes a transaction out of the table that another one
\* is changing.
LEMMA SealInvStep == SealInv /\ [Next]_vars => SealInv'
<1> SUFFICES ASSUME SealInv, [Next]_vars PROVE SealInv'
  OBVIOUS
<1>1. CASE BeginSeal
  BY <1>1, BeginSealKeeps
<1>2. CASE BeginReset
  BY <1>2, BeginResetKeeps
<1>3. ASSUME NEW k \in Markers, NEW p \in Proposals, NEW f \in BOOLEAN, BeginMark(k, p, f)
      PROVE  SealInv'
  BY <1>3, BeginMarkKeeps
<1>4. ASSUME NEW k \in Importers, NEW t \in Txs, NEW p \in Proposals, Lookup(k, t, p)
      PROVE  SealInv'
  BY <1>4, LookupKeeps
<1>5. ASSUME NEW t \in Txs, BeginSubmit(t) \/ ClearSealed(t)
      PROVE  SealInv'
  BY <1>5, BeginSubmitKeeps, ClearSealedKeeps
<1>6. ASSUME NEW R \in SUBSET m_txsTable, Remove(R)
      PROVE  SealInv'
  BY <1>6, RemoveKeeps
<1>7. ASSUME NEW k \in Threads, Step(k)
      PROVE  SealInv'
  BY <1>7, SkipKeeps, ChooseKeeps, ReadSealedKeeps, AddKeeps, SetSealedKeeps, SetHashKeeps,
     EndLoopKeeps, UpgradeKeeps, CheckAgainKeeps, StoreKeeps, TellKeeps, CorrectKeeps DEF Step
<1>8. CASE UNCHANGED vars
  BY <1>8 DEF vars, SealInv, TypeOK, ThreadInv, LoopInv, ImportInv, At
<1> QED
  BY <1>1, <1>2, <1>3, <1>4, <1>5, <1>6, <1>7, <1>8 DEF Next

LEMMA SealAlways == Spec => []SealInv
BY SealInvInit, SealInvStep, PTL DEF Spec

\* The flags, the counter and the threads keep their types; only pooled
\* transactions are sealed, whatever the loops, imports and removals do at the
\* same time (batchFetchTxs, batchMarkTxs, enforceSubmitTransaction, batchRemove).
THEOREM TypeCorrect == Spec => []TypeOK
<1>1. SealInv => TypeOK
  BY DEF SealInv
<1> QED
  BY <1>1, SealAlways, PTL

-----------------------------------------------------------------------------
(***************************************************************************)
(* Who changes what.                                                       *)
(***************************************************************************)
\* Thread k is between the choice of a transaction and the end of its change.
Busy(k) == At(k, Within) \/ (k \in Importers /\ At(k, {"inserting", "storing"}))

LEMMA ChangingIs ==
    /\ \A o : o \in Changing <=> o \in Threads /\ Busy(o)
    /\ \A o : o \in Changing' <=> o \in Threads /\ Busy(o)'
BY ThreadNames DEF Changing, Visiting, Busy, At, Within

LEMMA ApartKeeps ==
    ASSUME ApartInv, clash => clash', ResetRuns' => ResetRuns,
           \A o \in Changing' : o \in Changing /\ job'[o].tx = job[o].tx
    PROVE  ApartInv'
BY DEF ApartInv

\* What thread k turns to, no other thread is changing.
LEMMA ApartJoins ==
    ASSUME ApartInv, NEW k \in Threads \ {"reset"}, NEW t \in Txs, job'[k].tx = t,
           \A o \in Threads \ {k} : job'[o] = job[o],
           clash' <=> (clash \/ Disturbs(k, t))
    PROVE  ApartInv'
<1> SUFFICES ASSUME ~clash' PROVE ApartInv'
  BY DEF ApartInv
<1>1. ~clash /\ Inside(t) \ {k} = {} /\ ~ResetRuns
  BY DEF Disturbs
<1>2. ~ResetRuns'
  BY <1>1, ThreadNames DEF ResetRuns, At
<1>3. \A o \in Changing' \ {k} : o \in Changing /\ job'[o].tx = job[o].tx /\ job[o].tx # t
  <2>1. \A o \in Changing' \ {k} : o \in Changing /\ job'[o].tx = job[o].tx
    BY ChangingIs DEF Busy, At
  <2>2. \A o \in Changing \ {k} : job[o].tx # t
    BY <1>1 DEF Inside
  <2> QED
    BY <2>1, <2>2
<1>4. \A n, o \in Changing' : n # o => job'[n].tx # job'[o].tx
  <2> SUFFICES ASSUME NEW n \in Changing', NEW o \in Changing', n # o
               PROVE  job'[n].tx # job'[o].tx
    OBVIOUS
  <2>1. CASE n = k \/ o = k
    BY <1>3, <2>1
  <2>2. CASE n # k /\ o # k
    BY <1>1, <1>3, <2>2 DEF ApartInv
  <2> QED
    BY <2>1, <2>2
<1>5. \A o \in Changing' : job'[o].tx \in Txs
  BY <1>1, <1>3 DEF ApartInv
<1> QED
  BY <1>2, <1>4, <1>5 DEF ApartInv

LEMMA BeginSealApart ==
    ASSUME RaceInv, BeginSeal
    PROVE  ApartInv'
<1> DEFINE j == [Resting EXCEPT !.at = "loop", !.todo = m_txsTable, !.flag = TRUE]
<1>a. j \in Job
  BY JobTyped, JobFields, RacesAssumption, ThreadNames
  DEF RaceInv, SealInv, TypeOK, Places, BeginSeal
<1>j. /\ job'["sealer"] = j /\ job["sealer"] \in Job
      /\ \A o \in Threads \ {"sealer"} : job'[o] = job[o]
  BY <1>a, OnlyOne, ThreadNames
  DEF RaceInv, SealInv, TypeOK, BeginSeal
<1> QED
  BY <1>j, ApartKeeps, JobFields, ThreadNames
  DEF BeginSeal, RaceInv, ResetRuns, Changing, Visiting, At, Resting

LEMMA BeginResetApart ==
    ASSUME RaceInv, BeginReset
    PROVE  ApartInv'
<1> DEFINE j == [Resting EXCEPT !.at = "loop", !.todo = m_txsTable]
<1>a. j \in Job
  BY JobTyped, JobFields, RacesAssumption, ThreadNames
  DEF RaceInv, SealInv, TypeOK, Places, BeginReset
<1>j. /\ job'["reset"] = j /\ job["reset"] \in Job
      /\ \A o \in Threads \ {"reset"} : job'[o] = job[o]
  BY <1>a, OnlyOne, ThreadNames
  DEF RaceInv, SealInv, TypeOK, BeginReset
<1>1. ~clash' => \A o \in Threads : o \notin Changing'
  BY <1>j, ThreadNames DEF BeginReset, Changing, Visiting, At, Resting
<1>2. ApartInv'
  BY <1>1, ThreadNames DEF ApartInv, Changing, Visiting, At
<1> QED
  BY <1>1, <1>2

LEMMA BeginMarkApart ==
    ASSUME RaceInv, NEW k \in Markers, NEW p \in Proposals, NEW f \in BOOLEAN, BeginMark(k, p, f)
    PROVE  ApartInv'
<1> DEFINE j == [at |-> "loop", tx |-> NoTx, todo |-> TxsIn[p], batch |-> p, flag |-> f]
<1>a. j \in Job
  BY JobTyped, JobFields, RacesAssumption, ThreadNames
  DEF RaceInv, SealInv, TypeOK, Places, BeginMark
<1>j. /\ job'[k] = j /\ job[k] \in Job
      /\ \A o \in Threads \ {k} : job'[o] = job[o]
  BY <1>a, OnlyOne, ThreadNames
  DEF RaceInv, SealInv, TypeOK, BeginMark
<1> QED
  BY <1>j, ApartKeeps, JobFields, ThreadNames
  DEF BeginMark, RaceInv, ResetRuns, Changing, Visiting, At

LEMMA SkipApart ==
    ASSUME RaceInv, NEW k \in Threads, NEW t \in Txs, Skip(k, t)
    PROVE  ApartInv'
<1> DEFINE j == [job[k] EXCEPT !.todo = @ \ {t}]
<1>a. j \in Job
  BY JobTyped, JobFields, RacesAssumption, ThreadNames
  DEF RaceInv, SealInv, TypeOK, Places, Skip
<1>j. /\ job'[k] = j /\ job[k] \in Job
      /\ \A o \in Threads \ {k} : job'[o] = job[o]
  BY <1>a, OnlyOne, ThreadNames
  DEF RaceInv, SealInv, TypeOK, Skip
<1> QED
  BY <1>j, ApartKeeps, JobFields, ThreadNames
  DEF Skip, RaceInv, ResetRuns, Changing, Visiting, At, Job

LEMMA ChooseApart ==
    ASSUME RaceInv, NEW k \in Threads, NEW t \in Txs, Choose(k, t)
    PROVE  ApartInv'
<1> DEFINE j == [job[k] EXCEPT !.at = "chosen", !.tx = t, !.todo = @ \ {t}]
<1>a. j \in Job
  BY JobTyped, JobFields, RacesAssumption, ThreadNames
  DEF RaceInv, SealInv, TypeOK, Places, Choose
<1>j. /\ job'[k] = j /\ job[k] \in Job
      /\ \A o \in Threads \ {k} : job'[o] = job[o]
  BY <1>a, OnlyOne, ThreadNames
  DEF RaceInv, SealInv, TypeOK, Choose
<1>0. j.at = "chosen" /\ j.tx = t /\ j.flag = job[k].flag /\ j.batch = job[k].batch
  BY <1>j DEF Job
<1>1. clash' <=> (clash \/ Disturbs(k, t))
  BY DEF Choose
<1> QED
  BY <1>0, <1>1, <1>j, ApartJoins DEF Choose, RaceInv

LEMMA ReadSealedApart ==
    ASSUME RaceInv, NEW k \in Threads, ReadSealed(k)
    PROVE  ApartInv'
<1>0. PICK place \in {"adding", "setting"} : Goto(k, place)
  BY DEF ReadSealed
<1>j. /\ job'[k] = [job[k] EXCEPT !.at = place] /\ job[k] \in Job
      /\ \A o \in Threads \ {k} : job'[o] = job[o]
  BY <1>0, OnlyPlace DEF RaceInv, SealInv, TypeOK, Places
<1>1. job'[k].at = place /\ job'[k].tx = job[k].tx
  BY <1>j DEF Job
<1>2. k # "reset"
  BY ThreadNames DEF ReadSealed, RaceInv, SealInv, ThreadInv, LoopInv, At
<1>3. ResetRuns' => ResetRuns
  BY <1>2, <1>j, ThreadNames DEF ResetRuns, At
<1>4. k \in Changing
  BY DEF ReadSealed, Changing, Visiting, At
<1>5. \A o \in Changing' : o \in Changing /\ job'[o].tx = job[o].tx
  BY <1>1, <1>4, <1>j, ChangingIs DEF Busy, At, Within
<1> QED
  BY <1>3, <1>5, ApartKeeps DEF ReadSealed, RaceInv

LEMMA AddApart ==
    ASSUME RaceInv, NEW k \in Threads, Add(k)
    PROVE  ApartInv'
<1> DEFINE place == IF k \in Importers THEN "inserting" ELSE "setting"
<1>j. /\ job'[k] = [job[k] EXCEPT !.at = place] /\ job[k] \in Job
      /\ \A o \in Threads \ {k} : job'[o] = job[o]
  BY OnlyPlace DEF Add, RaceInv, SealInv, TypeOK, Places
<1>1. job'[k].at = place /\ job'[k].tx = job[k].tx
  BY <1>j DEF Job
<1>2. k # "reset"
  BY ThreadNames DEF Add, RaceInv, SealInv, ThreadInv, LoopInv, At
<1>3. ResetRuns' => ResetRuns
  BY <1>2, <1>j, ThreadNames DEF ResetRuns, At
<1>4. k \in Changing
  BY DEF Add, Changing, Visiting, At
<1>5. \A o \in Changing' : o \in Changing /\ job'[o].tx = job[o].tx
  BY <1>1, <1>4, <1>j, ChangingIs DEF Busy, At, Within
<1> QED
  BY <1>3, <1>5, ApartKeeps DEF Add, RaceInv

LEMMA SetSealedApart ==
    ASSUME RaceInv, NEW k \in Threads, SetSealed(k)
    PROVE  ApartInv'
<1> DEFINE j == IF job[k].flag THEN [job[k] EXCEPT !.at = "hashing"]
                ELSE [job[k] EXCEPT !.at = "loop", !.tx = NoTx]
<1>a. j \in Job
  BY JobTyped, JobFields, RacesAssumption, ThreadNames
  DEF RaceInv, SealInv, TypeOK, Places, SetSealed
<1>j. /\ job'[k] = j /\ job[k] \in Job
      /\ \A o \in Threads \ {k} : job'[o] = job[o]
  BY OnlyPlace, <1>a, OnlyOne, ThreadNames
  DEF RaceInv, SealInv, TypeOK, SetSealed, Places
<1>0. /\ j.at \in {"hashing", "loop"} /\ (j.at = "hashing" => j.tx = job[k].tx)
  BY <1>j DEF Job
<1>1. At(k, {"setting"}) /\ (clash' <=> clash)
  BY DEF SetSealed
<1>2. /\ job'[k].at \in {"hashing", "loop"}
      /\ job'[k].at = "hashing" => job'[k].tx = job[k].tx
      /\ \A o \in Threads \ {k} : job'[o] = job[o]
  BY <1>0, <1>j
<1>3. \A o \in Changing' : o \in Changing /\ job'[o].tx = job[o].tx
  BY <1>1, <1>2, ChangingIs DEF Busy, At, Within
<1>4. k # "reset"
  BY <1>1, ThreadNames DEF RaceInv, SealInv, ThreadInv, LoopInv, At
<1>5. ResetRuns' => ResetRuns
  BY <1>2, <1>4, ThreadNames DEF ResetRuns, At
<1> QED
  BY <1>1, <1>3, <1>5, ApartKeeps DEF RaceInv

LEMMA ClearSealedApart ==
    ASSUME RaceInv, NEW t \in Txs, ClearSealed(t)
    PROVE  ApartInv'
<1> DEFINE j == [job["reset"] EXCEPT !.at = "hashing", !.tx = t, !.todo = @ \ {t}]
<1>a. j \in Job
  BY JobTyped, JobFields, RacesAssumption, ThreadNames
  DEF RaceInv, SealInv, TypeOK, Places, ClearSealed
<1>j. /\ job'["reset"] = j /\ job["reset"] \in Job
      /\ \A o \in Threads \ {"reset"} : job'[o] = job[o]
  BY <1>a, OnlyOne, ThreadNames
  DEF RaceInv, SealInv, TypeOK, ClearSealed
<1>1. /\ job'["reset"].at = "hashing" /\ job'["reset"].tx = t
      /\ ResetRuns /\ t \in Txs /\ clash' = clash
  BY <1>j DEF ClearSealed, ResetRuns, At, Job
<1>2. ~clash => Changing' \subseteq {"reset"}
  BY <1>1, <1>j, ChangingIs DEF RaceInv, ApartInv, Busy, At
<1> QED
  BY <1>1, <1>2 DEF ApartInv

LEMMA SetHashApart ==
    ASSUME RaceInv, NEW k \in Threads, SetHash(k)
    PROVE  ApartInv'
<1>0. PICK next \in {"loop", "telling"} : Become(k, [job[k] EXCEPT !.at = next, !.tx = NoTx])
  BY DEF SetHash
<1> DEFINE j == [job[k] EXCEPT !.at = next, !.tx = NoTx]
<1>a. job[k] \in Job /\ j \in Job
  BY JobTyped DEF RaceInv, SealInv, TypeOK, Places
<1>b. j.at = next
  BY <1>a DEF Job
<1>j. /\ job'[k] = j
      /\ \A o \in Threads \ {k} : job'[o] = job[o]
  BY <1>0, <1>a, OnlyOne DEF RaceInv, SealInv
<1> QED
  BY <1>b, <1>j, ApartKeeps, ThreadNames DEF SetHash, RaceInv, ResetRuns, Changing, Visiting, At

LEMMA EndLoopApart ==
    ASSUME RaceInv, NEW k \in Threads, EndLoop(k)
    PROVE  ApartInv'
<1> DEFINE j == IF k \in Markers THEN Resting ELSE [job[k] EXCEPT !.at = "telling"]
<1>a. j \in Job
  BY JobTyped, JobFields, RacesAssumption, ThreadNames
  DEF RaceInv, SealInv, TypeOK, Places, EndLoop
<1>j. /\ job'[k] = j /\ job[k] \in Job
      /\ \A o \in Threads \ {k} : job'[o] = job[o]
  BY OnlyPlace, <1>a, OnlyOne, ThreadNames
  DEF RaceInv, SealInv, TypeOK, EndLoop, Places
<1> QED
  BY <1>j, ApartKeeps, JobFields, ThreadNames
  DEF EndLoop, RaceInv, ResetRuns, Changing, Visiting, At, Resting, Job

LEMMA LookupApart ==
    ASSUME RaceInv, NEW k \in Importers, NEW t \in Txs, NEW p \in Proposals, Lookup(k, t, p)
    PROVE  ApartInv'
<1> DEFINE j == [at |-> IF t \in m_txsTable THEN "upgrading" ELSE "adding", tx |-> t, todo |-> {},
                batch |-> p, flag |-> TRUE]
<1>a. j \in Job
  BY JobTyped, JobFields, RacesAssumption, ThreadNames
  DEF RaceInv, SealInv, TypeOK, Places, Lookup
<1>j. /\ job'[k] = j /\ job[k] \in Job
      /\ \A o \in Threads \ {k} : job'[o] = job[o]
  BY <1>a, OnlyOne, ThreadNames
  DEF RaceInv, SealInv, TypeOK, Lookup
<1>1. CASE t \in m_txsTable
  <2>1. j.at = "upgrading" /\ (clash' <=> clash) /\ k # "reset"
    BY <1>1, ThreadNames DEF Lookup
  <2>2. \A o \in Changing' : o \in Changing /\ job'[o].tx = job[o].tx
    BY <1>j, <2>1, ChangingIs DEF Busy, At, Within
  <2>3. ResetRuns' => ResetRuns
    BY <1>j, <2>1, ThreadNames DEF ResetRuns, At
  <2> QED
    BY <2>1, <2>2, <2>3, ApartKeeps DEF RaceInv
<1>2. CASE t \notin m_txsTable
  <2>1. clash' <=> (clash \/ Disturbs(k, t))
    BY <1>2 DEF Lookup
  <2> QED
    BY <1>j, <2>1, ApartJoins, ThreadNames DEF RaceInv
<1> QED
  BY <1>1, <1>2

LEMMA UpgradeApart ==
    ASSUME RaceInv, NEW k \in Threads, Upgrade(k)
    PROVE  ApartInv'
<1> DEFINE j == Resting
<1>a. j \in Job
  BY JobTyped, JobFields, RacesAssumption, ThreadNames
  DEF RaceInv, SealInv, TypeOK, Places, Upgrade
<1>j. /\ job'[k] = j /\ job[k] \in Job
      /\ \A o \in Threads \ {k} : job'[o] = job[o]
  BY <1>a, OnlyOne, ThreadNames
  DEF RaceInv, SealInv, TypeOK, Upgrade
<1>c. clash => clash'
  BY DEF Upgrade
<1> QED
  BY <1>c, <1>j, ApartKeeps, ThreadNames DEF RaceInv, ResetRuns, Changing, Visiting, At, Resting

LEMMA TellApart ==
    ASSUME RaceInv, NEW k \in Threads, Tell(k)
    PROVE  ApartInv'
<1> DEFINE j == IF Cardinality(m_txsTable) < m_sealedTxsSize
                THEN [job[k] EXCEPT !.at = "correcting"] ELSE Resting
<1>a. j \in Job
  BY JobTyped, JobFields, RacesAssumption, ThreadNames
  DEF RaceInv, SealInv, TypeOK, Places, Tell
<1>j. /\ job'[k] = j /\ job[k] \in Job
      /\ \A o \in Threads \ {k} : job'[o] = job[o]
  BY OnlyPlace, <1>a, OnlyOne, ThreadNames
  DEF RaceInv, SealInv, TypeOK, Tell, Places
<1> QED
  BY <1>j, ApartKeeps, JobFields, ThreadNames
  DEF Tell, RaceInv, ResetRuns, Changing, Visiting, At, Resting, Job

LEMMA CorrectApart ==
    ASSUME RaceInv, NEW k \in Threads, Correct(k)
    PROVE  ApartInv'
<1> DEFINE j == Resting
<1>a. j \in Job
  BY JobTyped, JobFields, RacesAssumption, ThreadNames
  DEF RaceInv, SealInv, TypeOK, Places, Correct
<1>j. /\ job'[k] = j /\ job[k] \in Job
      /\ \A o \in Threads \ {k} : job'[o] = job[o]
  BY <1>a, OnlyOne, ThreadNames
  DEF RaceInv, SealInv, TypeOK, Correct
<1>1. ~clash' => \A o \in Threads : o \notin Changing'
  <2>1. ~clash' => Changing = {}
    BY DEF Correct
  <2>2. \A o \in Threads : o \in Changing' => o \in Changing
    BY <1>j DEF Changing, Visiting, At, Resting
  <2> QED
    BY <2>1, <2>2
<1>2. ApartInv'
  BY <1>1, ThreadNames DEF ApartInv, Changing, Visiting, At
<1> QED
  BY <1>1, <1>2

LEMMA RemoveApart ==
    ASSUME RaceInv, NEW R \in SUBSET m_txsTable, Remove(R)
    PROVE  ApartInv'
<1> DEFINE j == [Resting EXCEPT !.at = "telling"]
<1>j. /\ job'["remove"] = j /\ j.at = "telling"
      /\ \A o \in Threads \ {"remove"} : job'[o] = job[o]
  BY OnlyOne, JobTyped, ThreadNames DEF Remove, RaceInv, SealInv, Places, Resting
<1> QED
  BY <1>j, ApartKeeps, ThreadNames DEF Remove, RaceInv, ResetRuns, Changing, Visiting, At

LEMMA BeginSubmitApart ==
    ASSUME RaceInv, NEW t \in Txs, BeginSubmit(t)
    PROVE  ApartInv'
<1> DEFINE j == [Resting EXCEPT !.at = "storing", !.tx = t]
<1>j. /\ job'["submit"] = j /\ j.at = "storing"
      /\ \A o \in Threads \ {"submit"} : job'[o] = job[o]
  <2>1. j \in Job /\ j.at = "storing"
    BY DEF Job, Resting, Places
  <2> QED
    BY <2>1, OnlyOne, ThreadNames DEF BeginSubmit, RaceInv, SealInv
<1> QED
  BY <1>j, ApartKeeps, ThreadNames
  DEF BeginSubmit, RaceInv, ResetRuns, Changing, Visiting, At

LEMMA CheckAgainApart ==
    ASSUME RaceInv, NEW k \in Threads, CheckAgain(k)
    PROVE  ApartInv'
<1>1. CASE job[k].tx \in m_txsTable
  BY <1>1 DEF CheckAgain, ApartInv
<1>2. CASE job[k].tx \notin m_txsTable
  <2>1. /\ k \in Importers /\ job[k] \in Job
    BY DEF CheckAgain, RaceInv, SealInv, TypeOK, ThreadInv, LoopInv, At
  <2>2. /\ job'[k] = [job[k] EXCEPT !.at = "storing"]
        /\ \A o \in Threads \ {k} : job'[o] = job[o]
    BY <1>2, OnlyPlace DEF CheckAgain, RaceInv, SealInv, Places
  <2>3. job'[k].at = "storing" /\ job'[k].tx = job[k].tx
    BY <2>1, <2>2 DEF Job
  <2>4. ResetRuns' => ResetRuns
    BY <2>1, <2>2, ThreadNames DEF ResetRuns, At
  <2>5. k \in Changing
    BY <2>1 DEF CheckAgain, Changing, At
  <2>6. \A o \in Changing' : o \in Changing /\ job'[o].tx = job[o].tx
    BY <2>1, <2>2, <2>3, <2>5, ChangingIs DEF Busy, At, Within
  <2> QED
    BY <1>2, <2>4, <2>6, ApartKeeps DEF CheckAgain, RaceInv
<1> QED
  BY <1>1, <1>2

\* What a store leaves as it is when it replaces nothing.
LEMMA StoredApart ==
    ASSUME RaceInv, NEW k \in Threads, Store(k)
    PROVE  /\ k \in Importers \cup {"submit"} /\ k # "reset" /\ job[k].tx \in Txs
           /\ job'[k].at = "telling"
           /\ \A o \in Threads \ {k} :
                /\ job'[o].at = job[o].at /\ job'[o].flag = job[o].flag
                /\ job[o].todo \subseteq job'[o].todo
                /\ job[k].tx \notin m_txsTable => job'[o].tx = job[o].tx
<1>1. k \in Importers \cup {"submit"} /\ job[k].tx \in Txs
  BY DEF Store, RaceInv, SealInv, ThreadInv, LoopInv, ImportInv, At
<1>2. /\ job'[k] = [Resting EXCEPT !.at = "telling"]
      /\ \A o \in Threads \ {k} : Shown(o, job[k].tx)
  BY <1>1, StoredFrame DEF Store, RaceInv, SealInv
<1> QED
  BY <1>1, <1>2, ShownFields, ThreadNames DEF Resting, RaceInv, SealInv

LEMMA StoreApart ==
    ASSUME RaceInv, NEW k \in Threads, Store(k)
    PROVE  ApartInv'
<1>1. CASE job[k].tx \in m_txsTable
  BY <1>1 DEF Store, ApartInv
<1>2. CASE job[k].tx \notin m_txsTable
  <2>1. \A o \in Changing' : o \in Changing /\ job'[o].tx = job[o].tx
    BY <1>2, StoredApart, ChangingIs DEF Busy, At, Within
  <2>2. ResetRuns' => ResetRuns
    BY StoredApart, ThreadNames DEF ResetRuns, At
  <2> QED
    BY <1>2, <2>1, <2>2, ApartKeeps DEF Store, RaceInv
<1> QED
  BY <1>1, <1>2

LEMMA RaceInvStep == RaceInv /\ [Next]_vars => RaceInv'
<1> SUFFICES ASSUME RaceInv, [Next]_vars PROVE ApartInv'
  BY SealInvStep DEF RaceInv
<1>1. CASE BeginSeal
  BY <1>1, BeginSealApart
<1>2. CASE BeginReset
  BY <1>2, BeginResetApart
<1>3. ASSUME NEW k \in Markers, NEW p \in Proposals, NEW f \in BOOLEAN, BeginMark(k, p, f)
      PROVE  ApartInv'
  BY <1>3, BeginMarkApart
<1>4. ASSUME NEW k \in Importers, NEW t \in Txs, NEW p \in Proposals, Lookup(k, t, p)
      PROVE  ApartInv'
  BY <1>4, LookupApart
<1>5. ASSUME NEW t \in Txs, BeginSubmit(t) \/ ClearSealed(t)
      PROVE  ApartInv'
  BY <1>5, BeginSubmitApart, ClearSealedApart
<1>6. ASSUME NEW R \in SUBSET m_txsTable, Remove(R)
      PROVE  ApartInv'
  BY <1>6, RemoveApart
<1>7. ASSUME NEW k \in Threads, Step(k)
      PROVE  ApartInv'
  BY <1>7, SkipApart, ChooseApart, ReadSealedApart, AddApart, SetSealedApart, SetHashApart,
     EndLoopApart, UpgradeApart, CheckAgainApart, StoreApart, TellApart, CorrectApart DEF Step
<1>8. CASE UNCHANGED vars
  BY <1>8 DEF vars, RaceInv, ApartInv, Changing, Visiting, ResetRuns, At
<1> QED
  BY <1>1, <1>2, <1>3, <1>4, <1>5, <1>6, <1>7, <1>8 DEF Next

-----------------------------------------------------------------------------
(***************************************************************************)
(* What the counter counts.                                                *)
(***************************************************************************)
LEMMA ChangedIsTx ==
    ASSUME RaceInv, NEW k \in Threads, (k \in Changing /\ ~clash) \/ At(k, {"upgrading"})
    PROVE  job[k].tx \in Txs
BY ThreadNames DEF RaceInv, SealInv, ApartInv, TypeOK, ThreadInv, LoopInv, ImportInv, At

\* A thread with a counted change to make is changing a transaction.
LEMMA PendingChanges ==
    ASSUME SealInv, NEW k \in Threads
    PROVE  /\ Pending(k) \/ Watching(k) => k \in Changing
           /\ k \in Importers /\ Pending(k) => Watching(k)
BY ChangingIs DEF Pending, Watching, Busy, Within, SealInv, ThreadInv, ImportInv, At

LEMMA CountedFinite ==
    /\ IsFiniteSet(Counted) /\ Cardinality(Counted) \in Nat
    /\ \A T \in SUBSET Txs : Cardinality(T) \in Nat /\ Cardinality(T) <= SizeMax
<1>1. \A T \in SUBSET Txs : IsFiniteSet(T) /\ Cardinality(T) <= Cardinality(Txs)
  BY RacesAssumption, FS_Subset
<1>2. Counted \in SUBSET Txs
  BY DEF Counted
<1>3. Cardinality(Txs) \in Nat
  BY RacesAssumption, FS_CardinalityType
<1>4. \A T \in SUBSET Txs : Cardinality(T) \in Nat
  BY <1>1, FS_CardinalityType
<1> QED
  BY <1>1, <1>2, <1>3, <1>4, RacesAssumption

\* The counter wraps around at neither end when it counts a set of transactions.
LEMMA CountsOne ==
    ASSUME NEW S \in SUBSET Txs, NEW t \in Txs, m_sealedTxsSize = Cardinality(S)
    PROVE  /\ t \notin S => SizePlus = Cardinality(S \cup {t})
           /\ t \in S => SizeMinus(1) = Cardinality(S \ {t})
<1>1. IsFiniteSet(S) /\ S \cup {t} \in SUBSET Txs /\ S \ {t} \in SUBSET Txs
  BY RacesAssumption, FS_Subset
<1>2. /\ Cardinality(S) \in Nat /\ Cardinality(S) <= SizeMax
      /\ Cardinality(S \cup {t}) \in Nat /\ Cardinality(S \cup {t}) <= SizeMax
      /\ Cardinality(S \ {t}) \in Nat
  BY <1>1, CountedFinite
<1>3. ASSUME t \notin S
      PROVE  SizePlus = Cardinality(S \cup {t})
  <2>1. Cardinality(S \cup {t}) = Cardinality(S) + 1
    BY <1>1, <1>3, FS_AddElement
  <2>2. SizePlus = (Cardinality(S) + 1) % (SizeMax + 1)
    BY DEF SizePlus
  <2> QED
    BY <1>2, <2>1, <2>2, RacesAssumption
<1>4. ASSUME t \in S
      PROVE  SizeMinus(1) = Cardinality(S \ {t})
  <2>1. Cardinality(S \ {t}) = Cardinality(S) - 1
    BY <1>1, <1>4, FS_RemoveElement
  <2>2. SizeMinus(1) = (Cardinality(S) + SizeMax + 1 - 1) % (SizeMax + 1)
    BY DEF SizeMinus
  <2>3. Cardinality(S) + SizeMax + 1 - 1 = (SizeMax + 1) + (Cardinality(S) - 1)
    BY <1>2, RacesAssumption
  <2>4. Cardinality(S) - 1 \in 0 .. SizeMax
    BY <1>2, <2>1, RacesAssumption
  <2>5. ((SizeMax + 1) + (Cardinality(S) - 1)) % (SizeMax + 1) = Cardinality(S) - 1
    BY <2>4, RacesAssumption
  <2> QED
    BY <2>1, <2>2, <2>3, <2>5
<1> QED
  BY <1>3, <1>4

LEMMA CountsMany ==
    ASSUME NEW S \in SUBSET Txs, NEW R \in SUBSET S, m_sealedTxsSize = Cardinality(S)
    PROVE  SizeMinus(Cardinality(R)) = Cardinality(S \ R)
<1>1. IsFiniteSet(S) /\ S \ R \in SUBSET Txs /\ R \in SUBSET Txs /\ S \cap R = R
  BY RacesAssumption, FS_Subset
<1>2. Cardinality(S \ R) = Cardinality(S) - Cardinality(R)
  BY <1>1, FS_Difference
<1>3. /\ Cardinality(S) \in Nat /\ Cardinality(R) \in Nat
      /\ Cardinality(S \ R) \in Nat /\ Cardinality(S \ R) <= SizeMax
  BY <1>1, CountedFinite
<1>4. SizeMinus(Cardinality(R)) = (Cardinality(S) + SizeMax + 1 - Cardinality(R)) % (SizeMax + 1)
  BY DEF SizeMinus
<1>5. Cardinality(S) + SizeMax + 1 - Cardinality(R) = (SizeMax + 1) + Cardinality(S \ R)
  BY <1>2, <1>3, RacesAssumption
<1>6. ((SizeMax + 1) + Cardinality(S \ R)) % (SizeMax + 1) = Cardinality(S \ R)
  BY <1>3, RacesAssumption
<1> QED
  BY <1>4, <1>5, <1>6

\* The threads that are about to set a flag are the same, and so is the flag.
LEMMA SameCounted ==
    ASSUME sealed' = sealed,
           \A k \in Threads : Pending(k)' <=> Pending(k),
           \A k \in Threads : Pending(k) =>
               job'[k].tx = job[k].tx /\ job'[k].flag = job[k].flag
    PROVE  Counted' = Counted
<1>1. \A t, f : Setting(t, f)' <=> Setting(t, f)
  BY DEF Setting
<1> QED
  BY <1>1 DEF Counted

\* What a step of thread k leaves as it is.
LEMMA OthersStay ==
    ASSUME NEW k, \A o \in Threads \ {k} : job'[o] = job[o]
    PROVE  \A o \in Threads \ {k} :
              /\ Pending(o)' <=> Pending(o)
              /\ Watching(o)' <=> Watching(o)
              /\ At(o, {"adding"})' <=> At(o, {"adding"})
BY DEF Pending, Watching, At

\* A step that changes no flag and counts nothing.
LEMMA CountKeeps ==
    ASSUME CountInv, clash => clash', sealed' = sealed, m_sealedTxsSize' = m_sealedTxsSize,
           ResetRuns' <=> ResetRuns,
           ResetRuns => job["reset"].todo \subseteq job'["reset"].todo,
           \A k \in Threads : Pending(k)' <=> Pending(k),
           \A k \in Threads : At(k, {"adding"})' => At(k, {"adding"}),
           \A k \in Threads : At(k, {"adding"})' \/ Pending(k)' =>
               job'[k].tx = job[k].tx /\ job'[k].flag = job[k].flag
    PROVE  FlagInv' /\ AddInv' /\ ResetInv' /\ SumInv'
<1>1. FlagInv'
  <2> SUFFICES ASSUME NEW k \in Importers, At(k, {"adding", "inserting", "storing"})'
               PROVE  job'[k].flag
    BY DEF FlagInv
  <2>1. k \in Threads /\ (At(k, {"adding"})' \/ Pending(k)')
    BY ThreadNames DEF Pending, At
  <2>2. Watching(k)
    BY <2>1, PendingChanges DEF CountInv, RaceInv, Watching
  <2>3. At(k, {"adding", "inserting", "storing"})
    BY <2>2 DEF Watching, At
  <2> QED
    BY <2>1, <2>3 DEF CountInv, FlagInv
<1>2. AddInv'
  <2> SUFFICES ASSUME ~clash', NEW k \in Threads, Watching(k)'
               PROVE  Adds(k)'
    BY DEF AddInv
  <2>1. At(k, {"adding"})' \/ (k \in Importers /\ Pending(k)')
    BY DEF Watching, Pending
  <2>2. Watching(k)
    BY <2>1, PendingChanges DEF CountInv, RaceInv, Watching
  <2>3. Adds(k)
    BY <2>2 DEF CountInv, AddInv
  <2> QED
    BY <2>1, <2>3 DEF Adds
<1>3. ResetInv'
  BY DEF CountInv, ResetInv
<1>4. Counted' = Counted
  BY SameCounted
<1>5. SumInv'
  BY <1>4 DEF CountInv, SumInv
<1> QED
  BY <1>1, <1>2, <1>3, <1>5

\* Nobody else is changing the transaction of thread k.
LEMMA AloneInside ==
    ASSUME CountInv, ~clash, NEW k \in Threads, k \in Changing
    PROVE  /\ \A o \in Threads \ {k} :
                Busy(o) \/ Pending(o) \/ Watching(o) => job[o].tx # job[k].tx
           /\ k # "reset" => ~ResetRuns
           /\ job[k].tx \in Txs
BY ChangingIs, PendingChanges DEF CountInv, RaceInv, ApartInv

LEMMA BeginSealCounts ==
    ASSUME CountInv, BeginSeal
    PROVE  FlagInv' /\ AddInv' /\ ResetInv' /\ SumInv'
<1> DEFINE j == [Resting EXCEPT !.at = "loop", !.todo = m_txsTable, !.flag = TRUE]
<1>a. j \in Job /\ j.at = "loop"
  BY JobTyped, ThreadNames DEF CountInv, RaceInv, SealInv, TypeOK, Places, Resting
<1>j. /\ job'["sealer"] = j
      /\ \A o \in Threads \ {"sealer"} : job'[o] = job[o]
  BY <1>a, OnlyOne, ThreadNames DEF CountInv, RaceInv, SealInv, BeginSeal
<1>1. At("sealer", {"idle"})
  BY DEF BeginSeal, MayStart
<1> QED
  BY <1>1, <1>a, <1>j, CountKeeps, ThreadNames DEF Pending, BeginSeal, ResetRuns, At

LEMMA BeginMarkCounts ==
    ASSUME CountInv, NEW k \in Markers, NEW p \in Proposals, NEW f \in BOOLEAN, BeginMark(k, p, f)
    PROVE  FlagInv' /\ AddInv' /\ ResetInv' /\ SumInv'
<1> DEFINE j == [at |-> "loop", tx |-> NoTx, todo |-> TxsIn[p], batch |-> p, flag |-> f]
<1>a. j \in Job /\ j.at = "loop"
  BY JobTyped, RacesAssumption DEF Places
<1>j. /\ job'[k] = j
      /\ \A o \in Threads \ {k} : job'[o] = job[o]
  BY <1>a, OnlyOne, ThreadNames DEF CountInv, RaceInv, SealInv, BeginMark
<1>1. At(k, {"idle"})
  BY DEF BeginMark, MayStart
<1> QED
  BY <1>1, <1>a, <1>j, CountKeeps, ThreadNames DEF Pending, BeginMark, ResetRuns, At

\* If another thread is changing a transaction, a reset is disturbed.
LEMMA BeginResetCounts ==
    ASSUME CountInv, BeginReset
    PROVE  FlagInv' /\ AddInv' /\ ResetInv' /\ SumInv'
<1> DEFINE j == [Resting EXCEPT !.at = "loop", !.todo = m_txsTable]
<1>a. j \in Job /\ j.at = "loop" /\ j.todo = m_txsTable
  BY JobTyped, ThreadNames DEF CountInv, RaceInv, SealInv, TypeOK, Places, Resting
<1>j. /\ job'["reset"] = j
      /\ \A o \in Threads \ {"reset"} : job'[o] = job[o]
  BY <1>a, OnlyOne, ThreadNames DEF CountInv, RaceInv, SealInv, BeginReset
<1>1. FlagInv'
  BY <1>j, ThreadNames DEF CountInv, FlagInv, At
<1>2. AddInv'
  <2>1. ~clash' => \A k \in Threads : ~Watching(k)
    BY PendingChanges DEF BeginReset, CountInv, RaceInv
  <2>2. ~Watching("reset")'
    BY <1>a, <1>j, ThreadNames DEF Watching, At
  <2> QED
    BY <1>j, <2>1, <2>2, OthersStay DEF AddInv
<1>3. ResetInv'
  BY <1>a, <1>j DEF BeginReset, CountInv, RaceInv, SealInv, TypeOK, ResetInv
<1>4. SumInv'
  BY <1>a, <1>j DEF SumInv, ResetRuns, At
<1> QED
  BY <1>1, <1>2, <1>3, <1>4

LEMMA SkipCounts ==
    ASSUME CountInv, NEW k \in Threads, NEW t \in Txs, Skip(k, t)
    PROVE  FlagInv' /\ AddInv' /\ ResetInv' /\ SumInv'
<1> DEFINE j == [job[k] EXCEPT !.todo = @ \ {t}]
<1>b. job[k] \in Job /\ At(k, {"loop"}) /\ k # "reset"
  BY ThreadNames DEF CountInv, RaceInv, SealInv, TypeOK, Skip
<1>a. j \in Job /\ j.at = job[k].at
  <2>1. job[k].todo \ {t} \in SUBSET Txs /\ job[k].at \in Places /\ job[k].tx \in Txs \cup {NoTx}
    BY <1>b, JobFields
  <2>2. j \in Job
    BY <1>b, <2>1, JobTyped
  <2> QED
    BY <1>b, <2>2 DEF Job
<1>j. /\ job'[k] = j
      /\ \A o \in Threads \ {k} : job'[o] = job[o]
  BY <1>b, <1>a, OnlyOne DEF CountInv, RaceInv, SealInv, Skip
<1> QED
  BY <1>b, <1>a, <1>j, CountKeeps, ThreadNames DEF Pending, Skip, ResetRuns, At

LEMMA ChooseCounts ==
    ASSUME CountInv, NEW k \in Threads, NEW t \in Txs, Choose(k, t)
    PROVE  FlagInv' /\ AddInv' /\ ResetInv' /\ SumInv'
<1> DEFINE j == [job[k] EXCEPT !.at = "chosen", !.tx = t, !.todo = @ \ {t}]
<1>b. job[k] \in Job /\ At(k, {"loop"}) /\ k # "reset"
  BY DEF CountInv, RaceInv, SealInv, TypeOK, Choose
<1>c. j \in Job
  <2>1. "chosen" \in Places /\ t \in Txs \cup {NoTx}
    BY DEF Places
  <2>2. job[k].todo \ {t} \in SUBSET Txs
    BY <1>b, JobFields
  <2> QED
    BY <1>b, <2>1, <2>2, JobTyped
<1>a. j \in Job /\ j.at = "chosen"
  BY <1>b, <1>c DEF Job
<1>j. /\ job'[k] = j
      /\ \A o \in Threads \ {k} : job'[o] = job[o]
  BY <1>b, <1>a, OnlyOne DEF CountInv, RaceInv, SealInv, Choose
<1>1. clash => clash'
  BY DEF Choose
<1>2. sealed' = sealed /\ m_sealedTxsSize' = m_sealedTxsSize
  BY DEF Choose
<1> QED
  BY <1>1, <1>2, <1>b, <1>a, <1>j, CountKeeps, ThreadNames DEF Pending, ResetRuns, At

LEMMA ReadSealedCounts ==
    ASSUME CountInv, NEW k \in Threads, ReadSealed(k)
    PROVE  FlagInv' /\ AddInv' /\ ResetInv' /\ SumInv'
<1> DEFINE t == job[k].tx
<1>b. job[k] \in Job /\ At(k, {"chosen"}) /\ k \notin Importers /\ k # "reset" /\ k \in Changing
  BY ThreadNames, ChangingIs
  DEF CountInv, RaceInv, SealInv, ThreadInv, LoopInv, ImportInv, TypeOK, ReadSealed, At, Busy, Within
<1>0. PICK adds \in (IF t = NoTx THEN BOOLEAN ELSE {Adds(k)}) :
        Goto(k, IF adds THEN "adding" ELSE "setting")
  BY DEF ReadSealed
<1> DEFINE place == IF adds THEN "adding" ELSE "setting"
<1>j. /\ job'[k] = [job[k] EXCEPT !.at = place]
      /\ \A o \in Threads \ {k} : job'[o] = job[o]
  BY <1>0, OnlyPlace DEF CountInv, RaceInv, SealInv, Places
<1>a. job'[k].at = place /\ job'[k].tx = t /\ job'[k].flag = job[k].flag
  BY <1>b, <1>j DEF Job
<1>c. ~clash => (adds <=> Adds(k)) /\ t \in Txs
  <2>1. ~clash => t \in Txs /\ t # NoTx
    BY <1>b, AloneInside, RacesAssumption
  <2> QED
    BY <1>0, <2>1
<1>1. FlagInv'
  BY <1>b, <1>j, ThreadNames DEF CountInv, FlagInv, At
<1>2. AddInv'
  <2> SUFFICES ASSUME ~clash, NEW o \in Threads, Watching(o)'
               PROVE  Adds(o)'
    BY DEF ReadSealed, AddInv
  <2>1. CASE o = k
    <3>1. adds
      BY <1>a, <1>b, <2>1 DEF Watching, At
    <3> QED
      BY <1>a, <1>c, <2>1, <3>1 DEF ReadSealed, Adds
  <2>2. CASE o # k
    BY <1>j, <2>2, OthersStay DEF ReadSealed, CountInv, AddInv, Adds
  <2> QED
    BY <2>1, <2>2
<1>3. ResetInv'
  BY <1>b, <1>j, ThreadNames DEF ReadSealed, CountInv, ResetInv, ResetRuns, At
<1>4. ~clash => Counted' = Counted
  <2> SUFFICES ASSUME ~clash, NEW u \in Txs
               PROVE  (u \in Counted)' <=> u \in Counted
    BY DEF Counted
  <2>0. ~Pending(k) /\ (Pending(k)' <=> ~adds)
    BY <1>a, <1>b DEF Pending, At
  <2>1. \A f : Setting(u, f)' <=> Setting(u, f) \/ (u = t /\ f = job[k].flag /\ ~Adds(k))
    <3>1. Pending(k)' <=> ~Adds(k)
      BY <1>c, <2>0
    <3>2. \A o \in Threads \ {k} : (Pending(o)' <=> Pending(o)) /\ job'[o] = job[o]
      BY <1>j, OthersStay
    <3> QED
      BY <1>a, <2>0, <3>1, <3>2 DEF Setting
  <2>2. job[k].flag \in BOOLEAN
    BY <1>b, JobFields
  <2>3. CASE u = t /\ ~Adds(k)
    <3>1. (t \in sealed) = job[k].flag
      BY <2>3 DEF Adds
    <3>2. \A f : Setting(t, f) <=> FALSE
      <4>1. \A o \in Threads : Pending(o) => job[o].tx # t
        BY <1>b, <2>0, AloneInside
      <4> QED
        BY <4>1 DEF Setting
    <3>3. CASE t \in sealed
      <4>1. job[k].flag # FALSE
        BY <3>1, <3>3
      <4> QED
        BY <2>1, <2>3, <3>2, <3>3, <4>1 DEF Counted, ReadSealed
    <3>4. CASE t \notin sealed
      <4>1. job[k].flag # TRUE
        BY <3>1, <3>4
      <4> QED
        BY <2>1, <2>3, <3>2, <3>4, <4>1 DEF Counted, ReadSealed
    <3> QED
      BY <3>3, <3>4
  <2>4. CASE ~(u = t /\ ~Adds(k))
    BY <2>1, <2>4 DEF Counted, ReadSealed
  <2> QED
    BY <2>3, <2>4
<1>5. SumInv'
  BY <1>4, <1>b, <1>j, ThreadNames DEF ReadSealed, CountInv, SumInv, ResetRuns, At
<1> QED
  BY <1>1, <1>2, <1>3, <1>5

LEMMA AddCounts ==
    ASSUME CountInv, NEW k \in Threads, Add(k)
    PROVE  FlagInv' /\ AddInv' /\ ResetInv' /\ SumInv'
<1> DEFINE t == job[k].tx
           place == IF k \in Importers THEN "inserting" ELSE "setting"
<1>b. /\ job[k] \in Job /\ At(k, {"adding"}) /\ k # "reset" /\ k \in Changing
      /\ Watching(k) /\ ~Pending(k)
  BY ThreadNames, ChangingIs
  DEF CountInv, RaceInv, SealInv, ThreadInv, LoopInv, TypeOK, Add, At, Busy, Within, Watching, Pending
<1>j. /\ job'[k] = [job[k] EXCEPT !.at = place]
      /\ \A o \in Threads \ {k} : job'[o] = job[o]
  BY <1>b, OnlyPlace DEF CountInv, RaceInv, SealInv, Add, Places
<1>a. job'[k].at = place /\ job'[k].tx = t /\ job'[k].flag = job[k].flag /\ job[k].flag \in BOOLEAN
  BY <1>b, <1>j DEF Job
<1>1. FlagInv'
  BY <1>a, <1>b, <1>j, ThreadNames DEF CountInv, FlagInv, At
<1>2. AddInv'
  <2> SUFFICES ASSUME ~clash, NEW o \in Threads, Watching(o)'
               PROVE  Adds(o)'
    BY DEF Add, AddInv
  <2>1. Watching(o) /\ job'[o].tx = job[o].tx /\ job'[o].flag = job[o].flag
    BY <1>a, <1>b, <1>j, OthersStay
  <2> QED
    BY <2>1 DEF Add, CountInv, AddInv, Adds
<1>3. ResetInv'
  BY <1>b, <1>j, ThreadNames DEF Add, CountInv, ResetInv, ResetRuns, At
<1>4. SumInv'
  <2> SUFFICES ASSUME ~clash PROVE SumInv'
    BY DEF Add, SumInv
  <2>1. Adds(k) /\ t \in Txs
    BY <1>b, AloneInside DEF CountInv, AddInv
  <2>2. ~ResetRuns /\ m_sealedTxsSize = Cardinality(Counted)
    BY <1>b, AloneInside DEF CountInv, SumInv
  <2>3. \A f : ~Setting(t, f)
    BY <1>b, AloneInside DEF Setting
  <2>4. \A u, f : Setting(u, f)' <=> Setting(u, f) \/ (u = t /\ f = job[k].flag)
    <3>1. Pending(k)'
      BY <1>a, <1>b DEF Pending, At
    <3> QED
      BY <1>a, <1>b, <1>j, <3>1, OthersStay DEF Setting
  <2>5. CASE job[k].flag
    <3>1. t \notin sealed /\ t \notin Counted
      BY <2>1, <2>3, <2>5 DEF Adds, Counted
    <3>2. Counted' = Counted \cup {t}
      BY <2>1, <2>3, <2>4, <2>5, <3>1 DEF Counted, Add
    <3>3. m_sealedTxsSize' = SizePlus
      BY <2>5 DEF Add
    <3>4. Counted \in SUBSET Txs
      BY DEF Counted
    <3> QED
      BY <2>1, <2>2, <3>1, <3>2, <3>3, <3>4, CountsOne DEF SumInv
  <2>6. CASE ~job[k].flag
    <3>0. t \in sealed
      <4>1. job[k].flag = FALSE
        BY <1>a, <2>6
      <4>2. (t \in sealed) # FALSE
        BY <2>1, <4>1, Zenon DEF Adds
      <4>3. CASE t \notin sealed
        <5>1. (t \in sealed) = FALSE
          BY <4>3
        <5> QED
          BY <4>2, <5>1, Zenon
      <4>4. CASE t \in sealed
        BY <4>4
      <4> QED
        BY <4>3, <4>4
    <3>1. t \in Counted
      BY <2>1, <2>3, <3>0 DEF Counted
    <3>2. Counted' = Counted \ {t}
      BY <1>a, <2>1, <2>3, <2>4, <2>6, <3>0 DEF Counted, Add
    <3>3. m_sealedTxsSize' = SizeMinus(1)
      BY <2>6 DEF Add
    <3>4. Counted \in SUBSET Txs
      BY DEF Counted
    <3> QED
      BY <2>1, <2>2, <3>1, <3>2, <3>3, <3>4, CountsOne DEF SumInv
  <2> QED
    BY <2>5, <2>6
<1> QED
  BY <1>1, <1>2, <1>3, <1>4

LEMMA SetSealedCounts ==
    ASSUME CountInv, NEW k \in Threads, SetSealed(k)
    PROVE  FlagInv' /\ AddInv' /\ ResetInv' /\ SumInv'
<1> DEFINE t == job[k].tx
           j == IF job[k].flag THEN [job[k] EXCEPT !.at = "hashing"]
                ELSE [job[k] EXCEPT !.at = "loop", !.tx = NoTx]
<1>b. /\ job[k] \in Job /\ At(k, {"setting"}) /\ k # "reset" /\ k \in Changing
      /\ Pending(k)
  BY ThreadNames, ChangingIs
  DEF CountInv, RaceInv, SealInv, ThreadInv, LoopInv, TypeOK, SetSealed, At, Busy, Within, Pending
<1>c. j \in Job
  <2>1. {"hashing", "loop"} \subseteq Places /\ NoTx \in Txs \cup {NoTx}
    BY DEF Places
  <2> QED
    BY <1>b, <2>1, JobTyped
<1>d. j.at \in {"hashing", "loop"} /\ job[k].flag \in BOOLEAN
  BY <1>b, <1>c DEF Job
<1>j. /\ job'[k] = j
      /\ \A o \in Threads \ {k} : job'[o] = job[o]
  BY <1>c, <1>d, OnlyPlace, OnlyOne DEF CountInv, RaceInv, SealInv, SetSealed, Places
<1>a. ~Pending(k)' /\ ~Watching(k)'
  BY <1>d, <1>j DEF Pending, Watching, At
<1>e. ~clash => /\ t \in Txs /\ ~ResetRuns /\ (t \in sealed' <=> job[k].flag)
                /\ \A u : u # t => (u \in sealed' <=> u \in sealed)
  <2>1. ~clash => t \in Txs /\ ~ResetRuns
    BY <1>b, AloneInside
  <2>2. ~clash => Held(k) = {t}
    BY <2>1, RacesAssumption DEF Held
  <2> QED
    BY <2>1, <2>2 DEF SetSealed
<1>1. FlagInv'
  BY <1>d, <1>j, ThreadNames DEF CountInv, FlagInv, At
<1>2. AddInv'
  <2> SUFFICES ASSUME ~clash, NEW o \in Threads, Watching(o)'
               PROVE  Adds(o)'
    BY DEF SetSealed, AddInv
  <2>1. o # k /\ Watching(o) /\ job'[o] = job[o]
    BY <1>a, <1>j, OthersStay
  <2>2. Adds(o) /\ job[o].tx # t
    BY <1>b, <2>1, AloneInside DEF CountInv, AddInv
  <2>3. (job[o].tx \in sealed') <=> (job[o].tx \in sealed)
    BY <1>e, <2>2
  <2> QED
    BY <2>1, <2>2, <2>3 DEF Adds
<1>3. ResetInv'
  BY <1>b, AloneInside, <1>j, ThreadNames DEF SetSealed, CountInv, ResetInv, ResetRuns, At
<1>4. ~clash => Counted' = Counted
  <2> SUFFICES ASSUME ~clash, NEW u \in Txs
               PROVE  (u \in Counted)' <=> u \in Counted
    BY DEF Counted
  <2>1. \A f : Setting(t, f) <=> f = job[k].flag
    BY <1>b, AloneInside DEF Setting
  <2>2. u = t => \A f : ~Setting(u, f)'
    <3>1. \A o \in Threads \ {k} : (Pending(o)' <=> Pending(o)) /\ job'[o] = job[o]
      BY <1>j, OthersStay
    <3>2. \A o \in Threads : Pending(o)' => job'[o].tx # t
      BY <1>a, <1>b, <3>1, AloneInside
    <3> QED
      BY <3>2 DEF Setting
  <2>3. \A f : u # t => (Setting(u, f)' <=> Setting(u, f))
    BY <1>a, <1>j, OthersStay DEF Setting
  <2>6. CASE u = t
    <3>1. t \in Counted <=> job[k].flag
      BY <1>d, <2>1, <2>6 DEF Counted
    <3>3. (u \in Counted)' <=> u \in sealed'
      <4>1. ~Setting(u, TRUE)' /\ ~Setting(u, FALSE)'
        BY <2>2, <2>6
      <4> QED
        BY <4>1 DEF Counted
    <3> QED
      BY <1>e, <2>6, <3>1, <3>3
  <2>7. CASE u # t
    BY <1>e, <2>3, <2>7 DEF Counted
  <2> QED
    BY <2>6, <2>7
<1>5. SumInv'
  BY <1>4, <1>b, <1>j, ThreadNames DEF SetSealed, CountInv, SumInv, ResetRuns, At
<1> QED
  BY <1>1, <1>2, <1>3, <1>5

\* While a reset runs undisturbed, nobody counts.
LEMMA ClearSealedCounts ==
    ASSUME CountInv, NEW t \in Txs, ClearSealed(t)
    PROVE  FlagInv' /\ AddInv' /\ ResetInv' /\ SumInv'
<1> DEFINE j == [job["reset"] EXCEPT !.at = "hashing", !.tx = t, !.todo = @ \ {t}]
<1>b. job["reset"] \in Job /\ At("reset", {"loop"}) /\ ResetRuns
  BY ThreadNames DEF CountInv, RaceInv, SealInv, TypeOK, ClearSealed, ResetRuns, At
<1>c. j \in Job
  <2>1. "hashing" \in Places /\ t \in Txs \cup {NoTx}
    BY DEF Places
  <2>2. job["reset"].todo \ {t} \in SUBSET Txs
    BY <1>b, JobFields
  <2> QED
    BY <1>b, <2>1, <2>2, JobTyped
<1>a. j \in Job /\ j.at = "hashing" /\ j.todo = job["reset"].todo \ {t}
  BY <1>b, <1>c DEF Job
<1>j. /\ job'["reset"] = j
      /\ \A o \in Threads \ {"reset"} : job'[o] = job[o]
  BY <1>a, OnlyOne, ThreadNames DEF CountInv, RaceInv, SealInv, ClearSealed
<1>1. FlagInv'
  BY <1>a, <1>j, ThreadNames DEF CountInv, FlagInv, At
<1>2. AddInv'
  <2>1. ~clash => \A o \in Threads \ {"reset"} : ~Watching(o)
    BY <1>b, PendingChanges DEF CountInv, RaceInv, ApartInv
  <2>2. ~Watching("reset")'
    BY <1>a, <1>j, ThreadNames DEF Watching, At
  <2> QED
    BY <1>j, <2>1, <2>2, OthersStay DEF ClearSealed, AddInv
<1>3. ResetInv'
  BY <1>a, <1>b, <1>j DEF ClearSealed, CountInv, ResetInv
<1>4. SumInv'
  BY <1>a, <1>j DEF SumInv, ResetRuns, At
<1> QED
  BY <1>1, <1>2, <1>3, <1>4

LEMMA SetHashCounts ==
    ASSUME CountInv, NEW k \in Threads, SetHash(k)
    PROVE  FlagInv' /\ AddInv' /\ ResetInv' /\ SumInv'
<1>0. PICK next \in {"loop"} \cup (IF k = "sealer" THEN {"telling"} ELSE {}) :
        Become(k, [job[k] EXCEPT !.at = next, !.tx = NoTx])
  BY DEF SetHash
<1> DEFINE j == [job[k] EXCEPT !.at = next, !.tx = NoTx]
<1>b. job[k] \in Job /\ At(k, {"hashing"})
  BY DEF CountInv, RaceInv, SealInv, TypeOK, SetHash
<1>c. j \in Job /\ next \in {"loop", "telling"} /\ (k = "reset" => next = "loop")
  BY <1>b, JobTyped DEF Places
<1>a. j \in Job /\ j.at = next /\ j.todo = job[k].todo
  BY <1>b, <1>c DEF Job
<1>j. /\ job'[k] = j
      /\ \A o \in Threads \ {k} : job'[o] = job[o]
  BY <1>0, <1>a, OnlyOne DEF CountInv, RaceInv, SealInv
<1>1. ResetRuns' <=> ResetRuns
  BY <1>a, <1>b, <1>c, <1>j, ThreadNames DEF ResetRuns, At
<1>2. job["reset"].todo \subseteq job'["reset"].todo
  BY <1>a, <1>j, ThreadNames
<1> QED
  BY <1>1, <1>2, <1>a, <1>b, <1>c, <1>j, CountKeeps DEF Pending, SetHash, At

LEMMA EndLoopCounts ==
    ASSUME CountInv, NEW k \in Threads, EndLoop(k)
    PROVE  FlagInv' /\ AddInv' /\ ResetInv' /\ SumInv'
<1> DEFINE j == IF k \in Markers THEN Resting ELSE [job[k] EXCEPT !.at = "telling"]
<1>b. job[k] \in Job /\ At(k, {"loop"}) /\ job[k].todo = {}
  BY DEF CountInv, RaceInv, SealInv, TypeOK, EndLoop
<1>c. j \in Job
  BY <1>b, JobTyped DEF Places
<1>a. j \in Job /\ j.at \in {"idle", "telling"}
  BY <1>b, <1>c DEF Job, Resting
<1>j. /\ job'[k] = j
      /\ \A o \in Threads \ {k} : job'[o] = job[o]
  BY <1>a, <1>b, OnlyPlace, OnlyOne DEF CountInv, RaceInv, SealInv, EndLoop, Places
<1>1. CASE k # "reset"
  BY <1>1, <1>a, <1>b, <1>j, CountKeeps, ThreadNames DEF Pending, EndLoop, ResetRuns, At
<1>2. CASE k = "reset"
  <2>1. ResetRuns /\ ~ResetRuns'
    BY <1>2, <1>a, <1>b, <1>j DEF ResetRuns, At
  <2>2. ASSUME ~clash, NEW o \in Threads
        PROVE  ~Pending(o)' /\ ~Watching(o)'
    <3>1. CASE o = "reset"
      BY <1>2, <1>a, <1>j, <3>1, ThreadNames DEF Pending, Watching, At
    <3>2. CASE o # "reset"
      BY <1>2, <1>j, <2>1, <2>2, <3>2, PendingChanges, OthersStay DEF CountInv, RaceInv, ApartInv
    <3> QED
      BY <3>1, <3>2
  <2>3. ~clash => sealed = {}
    BY <1>2, <1>b, <2>1 DEF CountInv, ResetInv
  <2>4. FlagInv'
    BY <1>2, <1>a, <1>j, ThreadNames DEF CountInv, FlagInv, At
  <2>5. AddInv'
    BY <2>2 DEF EndLoop, AddInv
  <2>6. ResetInv'
    BY <2>1 DEF ResetInv
  <2>7. ~clash => Counted' = {}
    BY <2>2, <2>3 DEF EndLoop, Counted, Setting
  <2>8. SumInv'
    BY <1>2, <2>7, FS_EmptySet DEF EndLoop, SumInv
  <2> QED
    BY <2>4, <2>5, <2>6, <2>8
<1> QED
  BY <1>1, <1>2

LEMMA LookupCounts ==
    ASSUME CountInv, NEW k \in Importers, NEW t \in Txs, NEW p \in Proposals, Lookup(k, t, p)
    PROVE  FlagInv' /\ AddInv' /\ ResetInv' /\ SumInv'
<1> DEFINE j == [at |-> IF t \in m_txsTable THEN "upgrading" ELSE "adding", tx |-> t, todo |-> {},
                batch |-> p, flag |-> TRUE]
<1>a. j \in Job /\ j.at \in {"upgrading", "adding"} /\ (j.at = "adding" => t \notin m_txsTable)
  BY JobTyped DEF Places
<1>b. At(k, {"idle"}) /\ k \in Threads /\ k # "reset"
  BY ThreadNames DEF Lookup, MayStart
<1>j. /\ job'[k] = j
      /\ \A o \in Threads \ {k} : job'[o] = job[o]
  BY <1>a, <1>b, OnlyOne DEF CountInv, RaceInv, SealInv, Lookup
<1>c. clash => clash'
  BY DEF Lookup
<1>1. FlagInv'
  BY <1>j, ThreadNames DEF CountInv, FlagInv, At
<1>2. AddInv'
  <2> SUFFICES ASSUME ~clash', NEW o \in Threads,
                      Watching(o)'
               PROVE  Adds(o)'
    BY DEF AddInv
  <2>1. CASE o = k
    <3>1. t \notin sealed
      BY <1>a, <1>j, <2>1 DEF CountInv, RaceInv, SealInv, TypeOK, Watching, At
    <3>2. job'[k].tx = t /\ job'[k].flag = TRUE
      BY <1>j
    <3> QED
      BY <2>1, <3>1, <3>2 DEF Lookup, Adds
  <2>2. CASE o # k
    BY <1>c, <1>j, <2>2 DEF Lookup, CountInv, AddInv, Watching, Adds, At
  <2> QED
    BY <2>1, <2>2
<1>3. ResetInv'
  BY <1>b, <1>c, <1>j, ThreadNames DEF Lookup, CountInv, ResetInv, ResetRuns, At
<1>4. Counted' = Counted
  <2>1. ~Pending(k) /\ ~Pending(k)'
    BY <1>a, <1>b, <1>j DEF Pending, At
  <2> QED
    BY <1>j, <2>1, SameCounted, OthersStay DEF Lookup
<1>5. SumInv'
  BY <1>4, <1>b, <1>c, <1>j, ThreadNames DEF Lookup, CountInv, SumInv, ResetRuns, At
<1> QED
  BY <1>1, <1>2, <1>3, <1>5

\* What an import counts when it upgrades its lock, no other thread has counted.
LEMMA UpgradeCounts ==
    ASSUME CountInv, NEW k \in Threads, Upgrade(k)
    PROVE  FlagInv' /\ AddInv' /\ ResetInv' /\ SumInv'
<1> DEFINE t == job[k].tx
<1>b. At(k, {"upgrading"}) /\ k \in Importers /\ k # "reset" /\ t \in Txs
  BY ChangedIsTx, ThreadNames
  DEF CountInv, RaceInv, SealInv, ThreadInv, LoopInv, Upgrade, At
<1>j. /\ job'[k] = Resting
      /\ \A o \in Threads \ {k} : job'[o] = job[o]
  BY OnlyOne, JobTyped DEF CountInv, RaceInv, SealInv, Upgrade
<1>c. Resting.at = "idle"
  BY DEF Resting
<1>d. ASSUME ~clash'
      PROVE  ~clash /\ ~ResetRuns /\ \A o \in Threads : Pending(o) \/ Watching(o) => job[o].tx # t
  <2>1. ~clash /\ Inside(t) \ {k} = {} /\ ~ResetRuns
    BY <1>d DEF Upgrade, Disturbs
  <2> QED
    <3>1. ~Pending(k) /\ ~Watching(k)
      BY <1>b DEF Pending, Watching, At
    <3> QED
      BY <2>1, <3>1, PendingChanges DEF Inside, CountInv, RaceInv
<1>1. FlagInv'
  BY <1>c, <1>j, ThreadNames DEF CountInv, FlagInv, At
<1>2. AddInv'
  <2> SUFFICES ASSUME ~clash', NEW o \in Threads,
                      Watching(o)'
               PROVE  Adds(o)'
    BY DEF AddInv
  <2>1. o # k
    BY <1>c, <1>j DEF Watching, At
  <2>2. job'[o] = job[o] /\ Adds(o) /\ job[o].tx # t
    BY <1>d, <1>j, <2>1, OthersStay DEF CountInv, AddInv
  <2> QED
    BY <2>2 DEF Upgrade, Adds
<1>3. ResetInv'
  BY <1>b, <1>d, <1>j, ThreadNames DEF ResetInv, ResetRuns, At
<1>4. SumInv'
  <2> SUFFICES ASSUME ~clash' PROVE SumInv'
    BY DEF SumInv
  <2>1. m_sealedTxsSize = Cardinality(Counted)
    BY <1>d DEF CountInv, SumInv
  <2>2. \A f : ~Setting(t, f)
    BY <1>d DEF Setting
  <2>3. \A u, f : Setting(u, f)' <=> Setting(u, f)
    <3>1. ~Pending(k) /\ ~Pending(k)'
      BY <1>b, <1>c, <1>j DEF Pending, At
    <3> QED
      BY <1>j, <3>1, OthersStay DEF Setting
  <2>4. sealed' = sealed \cup {t}
    BY DEF Upgrade
  <2>5. CASE t \in sealed
    <3>1. Counted' = Counted
      BY <2>3, <2>4, <2>5 DEF Counted
    <3> QED
      BY <2>1, <2>5, <3>1 DEF Upgrade, SumInv
  <2>6. CASE t \notin sealed
    <3>1. t \notin Counted
      BY <2>2, <2>6 DEF Counted
    <3>2. Counted' = Counted \cup {t}
      BY <1>b, <2>2, <2>3, <2>4, <2>6 DEF Counted
    <3>3. m_sealedTxsSize' = SizePlus /\ Counted \in SUBSET Txs
      BY <2>6 DEF Upgrade, Counted
    <3> QED
      BY <1>b, <2>1, <3>1, <3>2, <3>3, CountsOne DEF SumInv
  <2> QED
    BY <2>5, <2>6
<1> QED
  BY <1>1, <1>2, <1>3, <1>4

LEMMA TellCounts ==
    ASSUME CountInv, NEW k \in Threads, Tell(k)
    PROVE  FlagInv' /\ AddInv' /\ ResetInv' /\ SumInv'
<1> DEFINE j == IF Cardinality(m_txsTable) < m_sealedTxsSize
                THEN [job[k] EXCEPT !.at = "correcting"] ELSE Resting
<1>b. job[k] \in Job /\ At(k, {"telling"})
  BY DEF CountInv, RaceInv, SealInv, TypeOK, Tell
<1>c. j \in Job
  BY <1>b, JobTyped DEF Places
<1>a. j.at \in {"idle", "correcting"}
  BY <1>b, <1>c DEF Job, Resting
<1>j. /\ job'[k] = j
      /\ \A o \in Threads \ {k} : job'[o] = job[o]
  BY <1>c, OnlyPlace, OnlyOne DEF CountInv, RaceInv, SealInv, Tell, Places
<1>1. ResetRuns' <=> ResetRuns
  BY <1>a, <1>b, <1>j, ThreadNames DEF ResetRuns, At
<1>2. ResetRuns => k # "reset"
  BY <1>b DEF ResetRuns, At
<1> QED
  BY <1>1, <1>2, <1>a, <1>b, <1>j, CountKeeps, ThreadNames DEF Pending, Tell, At

\* In an empty pool nothing is sealed.
LEMMA CorrectCounts ==
    ASSUME CountInv, NEW k \in Threads, Correct(k)
    PROVE  FlagInv' /\ AddInv' /\ ResetInv' /\ SumInv'
<1>j. /\ job'[k] = Resting /\ Resting.at = "idle"
      /\ \A o \in Threads \ {k} : job'[o] = job[o]
  BY OnlyOne, JobTyped DEF CountInv, RaceInv, SealInv, Correct, Resting
<1>1. FlagInv'
  BY <1>j, ThreadNames DEF CountInv, FlagInv, At
<1>2. ASSUME ~clash'
      PROVE  /\ m_txsTable = {} /\ sealed' = {}
             /\ \A o \in Threads : ~Pending(o)' /\ ~Watching(o)'
  <2>1. m_txsTable = {} /\ Changing = {}
    BY <1>2 DEF Correct
  <2>2. \A o \in Threads : ~Pending(o) /\ ~Watching(o)
    BY <2>1, PendingChanges DEF CountInv, RaceInv
  <2>3. ~Pending(k)' /\ ~Watching(k)'
    BY <1>j DEF Pending, Watching, At
  <2> QED
    BY <1>j, <2>1, <2>2, <2>3, OthersStay DEF Correct, CountInv, RaceInv, SealInv, TypeOK
<1>3. AddInv'
  BY <1>2 DEF AddInv
<1>4. ResetInv'
  BY <1>2 DEF ResetInv
<1>5. SumInv'
  <2>1. ~clash' => Counted' = {}
    BY <1>2 DEF Counted, Setting
  <2> QED
    BY <1>2, <2>1 DEF Correct, SumInv
<1> QED
  BY <1>1, <1>3, <1>4, <1>5

LEMMA BeginSubmitCounts ==
    ASSUME CountInv, NEW t \in Txs, BeginSubmit(t)
    PROVE  FlagInv' /\ AddInv' /\ ResetInv' /\ SumInv'
<1> DEFINE j == [Resting EXCEPT !.at = "storing", !.tx = t]
<1>1. At("submit", {"idle"}) /\ "submit" \notin Importers
  BY ThreadNames DEF BeginSubmit, MayStart
<1>j. /\ job'["submit"] = j /\ j.at = "storing"
      /\ \A o \in Threads \ {"submit"} : job'[o] = job[o]
  <2>1. j \in Job /\ j.at = "storing"
    BY DEF Job, Resting, Places
  <2> QED
    BY <2>1, OnlyOne, ThreadNames DEF BeginSubmit, CountInv, RaceInv, SealInv
<1> QED
  BY <1>1, <1>j, CountKeeps, ThreadNames DEF Pending, BeginSubmit, ResetRuns, At

LEMMA CheckAgainCounts ==
    ASSUME CountInv, NEW k \in Threads, CheckAgain(k)
    PROVE  FlagInv' /\ AddInv' /\ ResetInv' /\ SumInv'
<1>0. k \in Importers /\ k # "reset" /\ job[k] \in Job /\ At(k, {"inserting"})
  BY ThreadNames
  DEF CheckAgain, CountInv, RaceInv, SealInv, TypeOK, ThreadInv, LoopInv, At
<1>1. CASE job[k].tx \in m_txsTable
  <2>j. /\ job'[k] = Resting /\ Resting.at = "idle"
        /\ \A o \in Threads \ {k} : job'[o] = job[o]
    BY <1>1, OnlyOne, JobTyped DEF CheckAgain, CountInv, RaceInv, SealInv, Resting
  <2>1. clash'
    BY <1>1 DEF CheckAgain
  <2> QED
    BY <2>j, <2>1, ThreadNames DEF CountInv, FlagInv, AddInv, ResetInv, SumInv, At
<1>2. CASE job[k].tx \notin m_txsTable
  <2>1. /\ job'[k] = [job[k] EXCEPT !.at = "storing"]
        /\ \A o \in Threads \ {k} : job'[o] = job[o]
    BY <1>2, OnlyPlace DEF CheckAgain, CountInv, RaceInv, SealInv, Places
  <2>2. job'[k].at = "storing" /\ job'[k].tx = job[k].tx /\ job'[k].flag = job[k].flag
    BY <1>0, <2>1 DEF Job
  <2>3. ResetRuns' <=> ResetRuns
    BY <1>0, <2>1, ThreadNames DEF ResetRuns, At
  <2>4. Pending(k) /\ Pending(k)' /\ ~At(k, {"adding"})'
    BY <1>0, <2>2 DEF Pending, At
  <2>5. \A o \in Threads \ {k} :
          (Pending(o)' <=> Pending(o)) /\ (At(o, {"adding"})' <=> At(o, {"adding"}))
    BY <2>1 DEF Pending, At
  <2>6. UNCHANGED <<sealed, m_sealedTxsSize, clash>> /\ job'["reset"] = job["reset"]
    BY <1>0, <1>2, <2>1, ThreadNames DEF CheckAgain
  <2> QED
    BY <2>1, <2>2, <2>3, <2>4, <2>5, <2>6, CountKeeps
<1> QED
  BY <1>1, <1>2

\* What an import inserts, it has counted; and what a submission inserts is not
\* sealed.
LEMMA StoreCounts ==
    ASSUME CountInv, NEW k \in Threads, Store(k)
    PROVE  FlagInv' /\ AddInv' /\ ResetInv' /\ SumInv'
<1> DEFINE t == job[k].tx
<1>j. /\ k \in Importers \cup {"submit"} /\ k # "reset" /\ t \in Txs
      /\ job'[k].at = "telling"
      /\ \A o \in Threads \ {k} :
           /\ job'[o].at = job[o].at /\ job'[o].flag = job[o].flag
           /\ job[o].todo \subseteq job'[o].todo
           /\ t \notin m_txsTable => job'[o].tx = job[o].tx
  BY StoredApart DEF CountInv
<1>0. At(k, {"storing"}) /\ "submit" \notin Importers
  BY ThreadNames DEF Store
<1>1. FlagInv'
  BY <1>j, ThreadNames DEF CountInv, FlagInv, At
<1>r. ResetRuns' <=> ResetRuns
  BY <1>j, ThreadNames DEF ResetRuns, At
<1>c. CASE t \in m_txsTable
  <2>1. clash'
    BY <1>c DEF Store
  <2> QED
    BY <1>1, <2>1 DEF AddInv, ResetInv, SumInv
<1>n. CASE t \notin m_txsTable
  <2>c. clash' = clash /\ m_sealedTxsSize' = m_sealedTxsSize
    BY <1>n DEF Store, CountInv, RaceInv, SealInv, TypeOK
  <2>n. t \notin sealed
    BY <1>n DEF CountInv, RaceInv, SealInv, TypeOK
  <2>o. \A o \in Threads \ {k} :
          /\ Pending(o)' <=> Pending(o)
          /\ Watching(o)' <=> Watching(o)
          /\ job'[o].tx = job[o].tx /\ job'[o].flag = job[o].flag
    BY <1>j, <1>n DEF Pending, Watching, At
  <2>k. ~Pending(k)' /\ ~Watching(k)'
    BY <1>j DEF Pending, Watching, At
  <2>1. CASE k = "submit"
    <3>1. sealed' = sealed /\ ~Pending(k)
      <4>1. job[k].flag = FALSE
        BY <1>0, <2>1, ThreadNames DEF CountInv, RaceInv, SealInv, ThreadInv, LoopInv
      <4> QED
        BY <1>0, <2>1, <2>n, <4>1 DEF Store, Pending, At
    <3>2. \A o \in Threads : At(o, {"adding"})' => At(o, {"adding"})
      BY <1>j DEF At
    <3>3. job["reset"].todo \subseteq job'["reset"].todo
      BY <1>j, ThreadNames
    <3>4. \A o \in Threads : (Pending(o)' <=> Pending(o))
      BY <2>o, <2>k, <3>1
    <3>5. \A o \in Threads : At(o, {"adding"})' \/ Pending(o)' =>
            job'[o].tx = job[o].tx /\ job'[o].flag = job[o].flag
      BY <1>j, <2>o, <2>k DEF At
    <3> QED
      BY <1>r, <2>c, <3>1, <3>2, <3>3, <3>4, <3>5, CountKeeps
  <2>2. CASE k \in Importers
    <3>1. job[k].flag /\ Pending(k) /\ k \in Changing
      BY <1>0, <2>2, ChangingIs DEF CountInv, FlagInv, Pending, Busy, At
    <3>2. sealed' = sealed \cup {t}
      BY <3>1 DEF Store
    <3>3. AddInv'
      <4> SUFFICES ASSUME ~clash, NEW o \in Threads, Watching(o)'
                   PROVE  Adds(o)'
        BY <2>c DEF AddInv
      <4>1. o # k /\ Watching(o) /\ job'[o].tx = job[o].tx /\ job'[o].flag = job[o].flag
        BY <2>o, <2>k
      <4>2. Adds(o) /\ job[o].tx # t
        BY <3>1, <4>1, AloneInside DEF CountInv, AddInv
      <4> QED
        BY <3>2, <4>1, <4>2 DEF Adds
    <3>4. ResetInv'
      BY <1>j, <1>r, <2>c, <3>1, AloneInside DEF ResetInv
    <3>5. ~clash => Counted' = Counted
      <4> SUFFICES ASSUME ~clash, NEW u \in Txs
                   PROVE  (u \in Counted)' <=> u \in Counted
        BY DEF Counted
      <4>1. CASE u = t
        <5>1. job[k].flag = TRUE
          BY <3>1, JobFields DEF CountInv, RaceInv, SealInv, TypeOK
        <5>2. Setting(t, TRUE)
          BY <3>1, <5>1 DEF Setting
        <5>3. ASSUME NEW o \in Threads, Pending(o)'
              PROVE  job'[o].tx # t
          BY <2>k, <2>o, <3>1, <5>3, AloneInside
        <5>4. ~Setting(u, FALSE)'
          BY <4>1, <5>3 DEF Setting
        <5> QED
          BY <2>n, <3>2, <4>1, <5>2, <5>4 DEF Counted
      <4>2. CASE u # t
        <5>1. \A f : Setting(u, f)' <=> Setting(u, f)
          BY <2>o, <2>k, <4>2 DEF Setting
        <5> QED
          BY <3>2, <4>2, <5>1 DEF Counted
      <4> QED
        BY <4>1, <4>2
    <3>6. SumInv'
      BY <1>r, <2>c, <3>5 DEF CountInv, SumInv
    <3> QED
      BY <1>1, <3>3, <3>4, <3>6
  <2> QED
    BY <1>j, <2>1, <2>2
<1> QED
  BY <1>c, <1>n

\* A removal takes the sealed transactions from the counter that it removes;
\* only imports are at work meanwhile, with transactions that are not sealed.
LEMMA RemoveCounts ==
    ASSUME CountInv, NEW R \in SUBSET m_txsTable, Remove(R)
    PROVE  FlagInv' /\ AddInv' /\ ResetInv' /\ SumInv'
<1> DEFINE j == [Resting EXCEPT !.at = "telling"]
<1>j. /\ job'["remove"] = j /\ j.at = "telling"
      /\ \A o \in Threads \ {"remove"} : job'[o] = job[o]
  BY OnlyOne, JobTyped, ThreadNames DEF Remove, CountInv, RaceInv, SealInv, Places, Resting
<1>b. \A o \in Threads \ Importers : ~At(o, {"adding", "setting", "loop", "hashing"})
  BY ThreadNames DEF Remove, Reads, MayStart, At
<1>c. ~ResetRuns /\ ~ResetRuns'
  BY <1>b, <1>j, ThreadNames DEF ResetRuns, At
<1>p. /\ ~Pending("remove")' /\ ~Watching("remove")'
      /\ ~Pending("remove") /\ ~Watching("remove")
  BY <1>b, <1>j, ThreadNames DEF Pending, Watching, At
<1>d. ASSUME ~clash, NEW o \in Threads, Pending(o) \/ Watching(o)
      PROVE  Adds(o) /\ job[o].flag /\ job[o].flag \in BOOLEAN /\ job[o].tx \notin sealed
  <2>1. o \in Importers
    BY <1>b, <1>d DEF Pending, Watching, At
  <2>2. Watching(o)
    BY <1>d, <2>1, PendingChanges DEF CountInv, RaceInv
  <2>3. Adds(o) /\ job[o].flag
    BY <1>d, <2>1, <2>2 DEF CountInv, AddInv, FlagInv, Watching, At
  <2>4. job[o].flag \in BOOLEAN
    BY JobFields DEF CountInv, RaceInv, SealInv, TypeOK
  <2> QED
    BY <2>3, <2>4 DEF Adds
<1>1. FlagInv'
  BY <1>j, ThreadNames DEF CountInv, FlagInv, At
<1>2. AddInv'
  <2> SUFFICES ASSUME ~clash, NEW o \in Threads,
                      Watching(o)'
               PROVE  Adds(o)'
    BY DEF Remove, AddInv
  <2>1. o # "remove" /\ job'[o] = job[o] /\ Watching(o)
    BY <1>j, <1>p, OthersStay
  <2> QED
    BY <1>d, <2>1 DEF Remove, Adds
<1>3. ResetInv'
  BY <1>c DEF ResetInv
<1>4. SumInv'
  <2> SUFFICES ASSUME ~clash PROVE SumInv'
    BY DEF Remove, SumInv
  <2>1. m_sealedTxsSize = Cardinality(Counted)
    BY <1>c DEF CountInv, SumInv
  <2>2. \A u : ~Setting(u, FALSE) /\ ~(u \in sealed /\ Setting(u, TRUE))
    BY <1>d DEF Setting
  <2>3. \A u, f : Setting(u, f)' <=> Setting(u, f)
    BY <1>j, <1>p, OthersStay DEF Setting
  <2>4. sealed' = sealed \ R /\ sealed \subseteq Txs
    BY DEF Remove, CountInv, RaceInv, SealInv, TypeOK
  <2>5. R \cap sealed \in SUBSET Counted /\ Counted \in SUBSET Txs
    BY <2>2, <2>4 DEF Counted
  <2>6. Counted' = Counted \ (R \cap sealed)
    BY <2>2, <2>3, <2>4 DEF Counted
  <2>7. m_sealedTxsSize' = SizeMinus(Cardinality(R \cap sealed))
    BY DEF Remove
  <2> QED
    BY <2>1, <2>5, <2>6, <2>7, CountsMany DEF SumInv
<1> QED
  BY <1>1, <1>2, <1>3, <1>4

LEMMA CountInvStep == CountInv /\ [Next]_vars => CountInv'
<1> SUFFICES ASSUME CountInv, [Next]_vars PROVE FlagInv' /\ AddInv' /\ ResetInv' /\ SumInv'
  BY RaceInvStep DEF CountInv
<1>1. CASE BeginSeal
  BY <1>1, BeginSealCounts
<1>2. CASE BeginReset
  BY <1>2, BeginResetCounts
<1>3. ASSUME NEW k \in Markers, NEW p \in Proposals, NEW f \in BOOLEAN, BeginMark(k, p, f)
      PROVE  FlagInv' /\ AddInv' /\ ResetInv' /\ SumInv'
  BY <1>3, BeginMarkCounts
<1>4. ASSUME NEW k \in Importers, NEW t \in Txs, NEW p \in Proposals, Lookup(k, t, p)
      PROVE  FlagInv' /\ AddInv' /\ ResetInv' /\ SumInv'
  BY <1>4, LookupCounts
<1>5. ASSUME NEW t \in Txs, BeginSubmit(t) \/ ClearSealed(t)
      PROVE  FlagInv' /\ AddInv' /\ ResetInv' /\ SumInv'
  BY <1>5, BeginSubmitCounts, ClearSealedCounts
<1>6. ASSUME NEW R \in SUBSET m_txsTable, Remove(R)
      PROVE  FlagInv' /\ AddInv' /\ ResetInv' /\ SumInv'
  BY <1>6, RemoveCounts
<1>7. ASSUME NEW k \in Threads, Step(k)
      PROVE  FlagInv' /\ AddInv' /\ ResetInv' /\ SumInv'
  BY <1>7, SkipCounts, ChooseCounts, ReadSealedCounts, AddCounts, SetSealedCounts, SetHashCounts,
     EndLoopCounts, UpgradeCounts, CheckAgainCounts, StoreCounts, TellCounts, CorrectCounts DEF Step
<1>8. CASE UNCHANGED vars
  <2>1. UNCHANGED <<sealed, m_sealedTxsSize, job, clash>>
    BY <1>8 DEF vars
  <2> QED
    BY <2>1, CountKeeps DEF Pending, ResetRuns, At
<1> QED
  BY <1>1, <1>2, <1>3, <1>4, <1>5, <1>6, <1>7, <1>8 DEF Next

\* Threads that change different transactions are as many as these.
LEMMA OneThreadEach ==
    ASSUME SealInv, ApartInv, ~clash, NEW K \in SUBSET Changing
    PROVE  LET T == {job[k].tx : k \in K}
           IN  T \in SUBSET Txs /\ Cardinality(K) = Cardinality(T)
<1> DEFINE T == {job[k].tx : k \in K}
           f == [k \in K |-> job[k].tx]
<1>1. T \in SUBSET Txs
  BY DEF ApartInv, Changing
<1>2. \A k, o \in K : job[k].tx = job[o].tx => k = o
  BY DEF ApartInv
<1>3. f \in Bijection(K, T)
  BY <1>2 DEF Bijection, Injection, Surjection, IsInjective
<1>4. IsFiniteSet(T)
  BY <1>1, RacesAssumption, FS_Subset
<1>5. IsFiniteSet(K)
  BY <1>3, <1>4, FS_Injection DEF Bijection
<1>6. Cardinality(T) = Cardinality(K)
  BY <1>3, <1>5, FS_Bijection DEF ExistsBijection
<1> QED
  BY <1>1, <1>6

\* The counter counts the sealed transactions although it is changed apart from
\* the flags (m_sealedTxsSize in batchFetchTxs, batchMarkTxs, batchMarkAllTxs,
\* enforceSubmitTransaction and batchRemove), for every number of threads, as
\* long as no two of them disturb each other.
THEOREM CountsWithoutClashHolds == Spec => []CountsWithoutClash
<1>1. Init => CountInv
  <2> SUFFICES ASSUME Init PROVE CountInv
    OBVIOUS
  <2>1. \A k \in Threads : job[k].at = "idle"
    BY DEF Init, Resting
  <2>2. ApartInv /\ ~ResetRuns
    BY <2>1, ThreadNames, ChangingIs DEF ApartInv, Busy, Within, ResetRuns, At
  <2>3. Counted = {}
    BY <2>1 DEF Init, Counted, Setting, Pending, At
  <2>4. SumInv
    BY <2>3, FS_EmptySet DEF Init, SumInv
  <2> QED
    BY <2>1, <2>2, <2>4, SealInvInit, ThreadNames
    DEF CountInv, RaceInv, FlagInv, AddInv, Watching, ResetInv, At
<1>2. CountInv => CountsWithoutClash
  <2> SUFFICES ASSUME CountInv, ~clash, ~ResetRuns
               PROVE  m_sealedTxsSize + Cardinality(Behind) = Cardinality(sealed) + Cardinality(Ahead)
    BY DEF CountsWithoutClash
  <2> DEFINE A == {job[k].tx : k \in Ahead}
             B == {job[k].tx : k \in Behind}
  <2>1. SealInv /\ ApartInv /\ m_sealedTxsSize = Cardinality(Counted) /\ sealed \in SUBSET Txs
    BY DEF CountInv, RaceInv, SealInv, TypeOK, SumInv
  <2>2. /\ Ahead = {k \in Threads : Pending(k) /\ job[k].flag /\ job[k].tx \notin sealed}
        /\ Behind = {k \in Threads : Pending(k) /\ ~job[k].flag /\ job[k].tx \in sealed}
    <3>1. \A k \in Importers : At(k, {"inserting", "storing"}) => job[k].flag
      BY DEF CountInv, FlagInv, At
    <3> QED
      BY <3>1 DEF Ahead, Behind, Pending
  <2>2a. Ahead \in SUBSET Changing /\ Behind \in SUBSET Changing
    BY <2>1, <2>2, PendingChanges
  <2>3. A \in SUBSET Txs /\ Cardinality(Ahead) = Cardinality(A)
    BY <2>1, <2>2a, OneThreadEach
  <2>4. B \in SUBSET Txs /\ Cardinality(Behind) = Cardinality(B)
    BY <2>1, <2>2a, OneThreadEach
  <2>5. \A k \in Threads : job[k].flag \in BOOLEAN
    BY <2>1, JobFields DEF SealInv, TypeOK
  <2>6. /\ \A t \in Txs : t \in A <=> t \notin sealed /\ Setting(t, TRUE)
        /\ \A t \in Txs : t \in B <=> t \in sealed /\ Setting(t, FALSE)
    BY <2>2, <2>5 DEF Setting
  <2>7. Counted = (sealed \ B) \cup A
    BY <2>1, <2>3, <2>6 DEF Counted
  <2>8. (sealed \ B) \cap A = {} /\ sealed \cap B = B
    BY <2>3, <2>4, <2>6
  <2>9. IsFiniteSet(sealed) /\ IsFiniteSet(A) /\ IsFiniteSet(sealed \ B)
    BY <2>1, <2>3, RacesAssumption, FS_Subset
  <2>10. Cardinality(sealed \ B) = Cardinality(sealed) - Cardinality(B)
    BY <2>8, <2>9, FS_Difference
  <2>11. Cardinality(Counted) = Cardinality(sealed \ B) + Cardinality(A)
    <3>1. Cardinality((sealed \ B) \cap A) = 0
      BY <2>8, FS_EmptySet
    <3>2. /\ Cardinality((sealed \ B) \cup A)
                = Cardinality(sealed \ B) + Cardinality(A) - Cardinality((sealed \ B) \cap A)
          /\ Cardinality(sealed \ B) \in Nat /\ Cardinality(A) \in Nat
      BY <2>9, FS_Union, FS_CardinalityType
    <3> QED
      BY <2>7, <3>1, <3>2
  <2>12. /\ Cardinality(sealed) \in Nat /\ Cardinality(A) \in Nat /\ Cardinality(B) \in Nat
    BY <2>1, <2>3, <2>4, CountedFinite
  <2> QED
    BY <2>1, <2>3, <2>4, <2>10, <2>11, <2>12
<1> QED
  BY <1>1, <1>2, CountInvStep, PTL DEF Spec
============================================================================
