---------------------- MODULE SnapshotPersistenceProofs ----------------------
(***************************************************************************)
(* Differential saves against a baseline, proved for any records, contents *)
(* and numbers of writes, failures and restarts: the database only ever    *)
(* holds whole snapshots, and what flush() and close() conclude is true.   *)
(***************************************************************************)
EXTENDS SnapshotPersistence, TLAPS

----------------------------------------------------------------------------
(* The invariant.                                                          *)

Kept == Core \cup Journal

Operation == {Snapshot} \cup
    [kind : {"ceremony"}, upsert : Ceremonies, removed : SUBSET Ceremonies]

PersistenceTypeOK ==
    /\ memory \in [Records -> Contents]
    /\ database \in [Records -> Contents]
    /\ baseline \in [Records -> Contents]
    /\ attempted \in [Records -> Contents]
    /\ queue \in Seq(Operation)
    /\ saving \in {"none", "relational", "journal"}
    /\ {requested, failed, journalFailed, timer} \subseteq BOOLEAN

\* What the baseline claims of a record is in the database, and where it claims nothing
\* there is nothing, unless the collection's delete pass is still owed.
BaselineTrue(r) ==
    /\ baseline[r] # 0 => database[r] = baseline[r]
    /\ baseline[r] = 0 /\ CollectionOf(r) \notin forced => database[r] = 0

\* Between the two transactions the first one's collections are already stored.
Stored(r) == database[r] = attempted[r]

Written ==
    /\ \A r \in Core : IF saving = "journal" THEN Stored(r) ELSE BaselineTrue(r)
    /\ \A r \in Journal : BaselineTrue(r)

\* The last save that succeeded left what it took in the database.
SavedWell ==
    saving = "none" /\ ~failed =>
        /\ \A r \in Core : Stored(r)
        /\ ~journalFailed => \A r \in Journal : Stored(r)

\* What the last save did not take is asked for.
Asked == SaveQueued \/ requested \/ \A r \in Kept : memory[r] = attempted[r]

\* Nothing runs or is due once close() has returned.
Quiet == status # "open" => ~timer
Finished == status = "closed" => Idle /\ ~SaveFailed

PersistenceInv ==
    PersistenceTypeOK /\ Written /\ SavedWell /\ Asked /\ Quiet /\ Finished

LEMMA InvImplies == PersistenceInv => IdleMeansStored /\ CleanCloseLosesNothing
<1> SUFFICES ASSUME PersistenceInv PROVE IdleMeansStored /\ CleanCloseLosesNothing OBVIOUS
<1>1. Idle => ~SaveQueued /\ ~requested /\ saving = "none"
  BY DEF Idle, SaveQueued
<1>2. Idle => \A r \in Kept : memory[r] = attempted[r]
  BY <1>1 DEF PersistenceInv, Asked
<1>3. IdleMeansStored
  BY <1>1, <1>2 DEF IdleMeansStored, PersistenceInv, SavedWell, Stored, Kept
<1>4. CleanCloseLosesNothing
  BY <1>3 DEF IdleMeansStored, CleanCloseLosesNothing, PersistenceInv, Finished, SaveFailed
<1>5. QED BY <1>3, <1>4

LEMMA RecordFacts ==
    /\ \A r \in Relational : r \in Core /\ CollectionOf(r) = "relational"
    /\ \A r \in Normalized : r \in Core /\ CollectionOf(r) = "normalized"
    /\ \A r \in Journal : CollectionOf(r) = "journal" /\ r \notin Core
    /\ \A r \in Ceremonies : CollectionOf(r) = "passkeyCeremonies" /\ r \notin Kept
    /\ Core \subseteq Records /\ Kept \subseteq Records
    /\ \A r \in Records : r \in Of(CollectionOf(r)) /\ CollectionOf(r) \in Collections
    /\ 0 \in Contents /\ 1 \in Contents
BY Settings DEF Records, Core, Kept, CollectionOf, Of, Collections, Contents

----------------------------------------------------------------------------
(* The queue.                                                              *)

LEMMA OperationFacts ==
    ASSUME NEW op \in Operation
    PROVE  op = Snapshot \/ (op.upsert \in Ceremonies /\ op.removed \subseteq Ceremonies)
BY DEF Operation

LEMMA NothingQueued == <<>> \in Seq(Operation)
OBVIOUS

LEMMA Appending ==
    ASSUME NEW q \in Seq(Operation), NEW op \in Operation
    PROVE  /\ Append(q, op) \in Seq(Operation)
           /\ (\E i \in DOMAIN q : q[i] = Snapshot) \/ op = Snapshot =>
                 \E i \in DOMAIN Append(q, op) : Append(q, op)[i] = Snapshot
<1>1. /\ Append(q, op) \in Seq(Operation)
      /\ Len(Append(q, op)) = Len(q) + 1 /\ Len(q) \in Nat
      /\ \A i \in 1..Len(q) : Append(q, op)[i] = q[i]
      /\ Append(q, op)[Len(q) + 1] = op
  OBVIOUS
<1>2. DOMAIN q = 1..Len(q) /\ DOMAIN Append(q, op) = 1..(Len(q) + 1) BY <1>1
<1>3. QED BY <1>1, <1>2

LEMMA Taking ==
    ASSUME NEW q \in Seq(Operation), q # <<>>
    PROVE  /\ Tail(q) \in Seq(Operation)
           /\ Head(q) \in Operation
           /\ Head(q) # Snapshot /\ (\E i \in DOMAIN q : q[i] = Snapshot) =>
                 \E i \in DOMAIN Tail(q) : Tail(q)[i] = Snapshot
<1>1. /\ Tail(q) \in Seq(Operation) /\ Head(q) \in Operation
      /\ Len(Tail(q)) = Len(q) - 1 /\ Len(q) \in Nat
      /\ Head(q) = q[1]
      /\ \A i \in 1..(Len(q) - 1) : Tail(q)[i] = q[i + 1]
  OBVIOUS
<1>2. DOMAIN q = 1..Len(q) /\ DOMAIN Tail(q) = 1..(Len(q) - 1) BY <1>1
<1>3. ASSUME Head(q) # Snapshot, NEW i \in DOMAIN q, q[i] = Snapshot
      PROVE  \E j \in DOMAIN Tail(q) : Tail(q)[j] = Snapshot
  <2>1. i # 1 /\ i \in 1..Len(q) BY <1>1, <1>2, <1>3
  <2>2. i - 1 \in 1..(Len(q) - 1) BY <1>1, <2>1
  <2>3. Tail(q)[i - 1] = q[i] BY <1>1, <2>1, <2>2
  <2>4. QED BY <1>2, <1>3, <2>2, <2>3
<1>4. QED BY <1>1, <1>3

\* A save that is asked for is queued, or requested of the one that runs.
LEMMA Enqueued ==
    ASSUME PersistenceTypeOK, EnqueueSave
    PROVE  /\ queue' \in Seq(Operation) /\ requested' \in BOOLEAN
           /\ SaveQueued' \/ requested'
           /\ SaveQueued => SaveQueued'
<1>1. Snapshot \in Operation BY DEF Operation
<1>2. CASE SaveQueued \/ saving # "none"
  BY <1>2 DEF EnqueueSave, PersistenceTypeOK, SaveQueued
<1>3. CASE ~SaveQueued /\ saving = "none"
  BY <1>1, <1>3, Appending DEF EnqueueSave, PersistenceTypeOK, SaveQueued
<1>4. QED BY <1>2, <1>3

LEMMA SaveEnds ==
    ASSUME PersistenceTypeOK, EndSave
    PROVE  /\ queue' \in Seq(Operation) /\ requested' = FALSE /\ saving' = "none"
           /\ SaveQueued \/ requested => SaveQueued'
<1>1. Snapshot \in Operation BY DEF Operation
<1>2. CASE requested
  BY <1>1, <1>2, Appending DEF EndSave, PersistenceTypeOK, SaveQueued
<1>3. CASE ~requested
  BY <1>3 DEF EndSave, PersistenceTypeOK, SaveQueued
<1>4. QED BY <1>2, <1>3

----------------------------------------------------------------------------
(* Saves.                                                                  *)

\* What the first transaction writes is the snapshot, whatever it leaves out.
LEMMA RecordsAreStored ==
    ASSUME PersistenceTypeOK, Written, saving = "relational"
    PROVE  /\ StoredRecords \in [Records -> Contents]
           /\ \A r \in Core : StoredRecords[r] = attempted[r]
           /\ \A r \in Journal : StoredRecords[r] = database[r]
<1>1. StoredRecords \in [Records -> Contents]
  BY RecordFacts DEF PersistenceTypeOK, StoredRecords, RowByRow, Rewritten
<1>2. ASSUME NEW r \in Relational PROVE StoredRecords[r] = attempted[r]
  <2>1. r \in Records /\ r \in Core /\ CollectionOf(r) = "relational" BY RecordFacts
  <2>2. StoredRecords[r] = RowByRow(r, ~Unchanged("relational"))
    BY <2>1 DEF StoredRecords
  <2>3. BaselineTrue(r) BY <2>1 DEF Written
  <2>4. CASE attempted[r] # 0 BY <2>2, <2>3, <2>4 DEF RowByRow, BaselineTrue
  <2>5. CASE attempted[r] = 0 /\ Unchanged("relational")
    <3>1. baseline[r] = 0 /\ "relational" \notin forced
      BY <2>1, <2>5, RecordFacts DEF Unchanged
    <3>2. QED BY <2>1, <2>2, <2>3, <2>5, <3>1 DEF RowByRow, BaselineTrue
  <2>6. CASE attempted[r] = 0 /\ ~Unchanged("relational") BY <2>2, <2>6 DEF RowByRow
  <2>7. QED BY <2>4, <2>5, <2>6
<1>3. ASSUME NEW r \in Normalized PROVE StoredRecords[r] = attempted[r]
  <2>1. r \in Records /\ r \in Core /\ CollectionOf(r) = "normalized"
    BY RecordFacts
  <2>2. r \notin Relational /\ r \notin Journal BY Settings
  <2>3. StoredRecords[r] = Rewritten(r) BY <2>1, <2>2 DEF StoredRecords
  <2>4. BaselineTrue(r) BY <2>1 DEF Written
  <2>5. CASE Unchanged("normalized")
    <3>1. attempted[r] = baseline[r] /\ "normalized" \notin forced
      BY <2>1, <2>5, RecordFacts DEF Unchanged
    <3>2. QED BY <2>1, <2>3, <2>4, <2>5, <3>1 DEF Rewritten, BaselineTrue
  <2>6. CASE ~Unchanged("normalized") BY <2>1, <2>3, <2>6 DEF Rewritten
  <2>7. QED BY <2>5, <2>6
<1>4. ASSUME NEW r \in Journal PROVE StoredRecords[r] = database[r]
  <2>1. r \in Records /\ r \notin Relational BY RecordFacts, Settings DEF Kept
  <2>2. QED BY <2>1 DEF StoredRecords
<1>5. QED BY <1>1, <1>2, <1>3, <1>4 DEF Core

LEMMA JournalIsStored ==
    ASSUME PersistenceTypeOK, Written
    PROVE  /\ StoredJournal \in [Records -> Contents]
           /\ \A r \in Journal : StoredJournal[r] = attempted[r]
           /\ \A r \in Core : StoredJournal[r] = database[r]
<1>1. StoredJournal \in [Records -> Contents]
  BY RecordFacts DEF PersistenceTypeOK, StoredJournal, RowByRow
<1>2. ASSUME NEW r \in Journal PROVE StoredJournal[r] = attempted[r]
  <2>1. r \in Records /\ CollectionOf(r) = "journal" BY RecordFacts DEF Kept
  <2>2. StoredJournal[r] = RowByRow(r, JournalMayHaveRemovals) BY <2>1 DEF StoredJournal
  <2>3. BaselineTrue(r) BY DEF Written
  <2>4. CASE attempted[r] # 0 BY <2>2, <2>3, <2>4 DEF RowByRow, BaselineTrue
  <2>5. CASE attempted[r] = 0 /\ ~JournalMayHaveRemovals
    <3>1. baseline[r] = 0 /\ "journal" \notin forced
      BY <2>5 DEF JournalMayHaveRemovals
    <3>2. QED BY <2>1, <2>2, <2>3, <2>5, <3>1 DEF RowByRow, BaselineTrue
  <2>6. CASE attempted[r] = 0 /\ JournalMayHaveRemovals BY <2>2, <2>6 DEF RowByRow
  <2>7. QED BY <2>4, <2>5, <2>6
<1>3. ASSUME NEW r \in Core PROVE StoredJournal[r] = database[r]
  BY RecordFacts DEF StoredJournal
<1>4. QED BY <1>1, <1>2, <1>3

\* After a failure the baseline claims less, never something else.
LEMMA AfterFailure ==
    ASSUME PersistenceTypeOK, NEW r \in Records, BaselineTrue(r),
           database'[r] \in {database[r], attempted[r]},
           baseline'[r] = BaselineAfterFailedSave(r),
           CollectionOf(r) \in forced \cup Touched => CollectionOf(r) \in forced'
    PROVE  BaselineTrue(r)'
<1>1. CollectionOf(r)' = CollectionOf(r) BY DEF CollectionOf
<1>2. CASE attempted[r] = baseline[r]
  BY <1>1, <1>2 DEF BaselineTrue, BaselineAfterFailedSave
<1>3. CASE attempted[r] # baseline[r]
  <2>1. CollectionOf(r) \in forced' BY <1>3, RecordFacts DEF Touched
  <2>2. QED BY <1>1, <1>3, <2>1 DEF BaselineTrue, BaselineAfterFailedSave
<1>4. QED BY <1>2, <1>3

\* A step that leaves the database and what is known of it alone.
LEMMA DataStays ==
    ASSUME PersistenceInv, UNCHANGED <<database, baseline, attempted, forced, saving>>
    PROVE  /\ Written'
           /\ UNCHANGED <<failed, journalFailed>> => SavedWell'
<1>1. ASSUME NEW r PROVE (BaselineTrue(r)' <=> BaselineTrue(r)) /\ (Stored(r)' <=> Stored(r))
  BY DEF BaselineTrue, Stored, CollectionOf
<1>2. Written' BY <1>1 DEF PersistenceInv, Written, Core
<1>3. ASSUME UNCHANGED <<failed, journalFailed>> PROVE SavedWell'
  BY <1>1, <1>3 DEF PersistenceInv, SavedWell, Core
<1>4. QED BY <1>2, <1>3

----------------------------------------------------------------------------
(* Steps.                                                                  *)

LEMMA NextMutation ==
    ASSUME PersistenceInv, Mutation
    PROVE  PersistenceInv'
<1> USE DEF PersistenceInv
<1>1. UNCHANGED <<database, baseline, attempted, forced, saving, flags, closing>>
  BY DEF Mutation, Write, BeginCeremony, TakeCeremony
<1>2. status = "open" BY DEF Mutation, Write, BeginCeremony, TakeCeremony
<1>3. Written' /\ SavedWell' BY <1>1, DataStays DEF flags
<1>4. Quiet' /\ Finished' BY <1>1, <1>2 DEF Quiet, Finished, closing, flags
<1>5. PersistenceTypeOK' /\ Asked'
  <2>1. ASSUME NEW r \in Records, NEW content \in Contents, Write(r, content)
        PROVE  PersistenceTypeOK' /\ Asked'
    <3>1. EnqueueSave /\ memory' = [memory EXCEPT ![r] = content] BY <2>1 DEF Write
    <3>2. QED BY <1>1, <3>1, Enqueued DEF PersistenceTypeOK, Asked, flags
  <2>2. ASSUME NEW p \in Ceremonies, NEW gone \in SUBSET Ceremonies, BeginCeremony(p, gone)
        PROVE  PersistenceTypeOK' /\ Asked'
    <3>1. /\ memory' = [q \in Records |-> IF q = p THEN 1 ELSE IF q \in gone THEN 0 ELSE memory[q]]
          /\ queue' = Append(queue, CeremonyWrite(p, gone))
          /\ UNCHANGED requested
      BY <2>2 DEF BeginCeremony
    <3>2. CeremonyWrite(p, gone) \in Operation BY DEF CeremonyWrite, Operation
    <3>3. queue' \in Seq(Operation) /\ (SaveQueued => SaveQueued')
      BY <3>1, <3>2, Appending DEF PersistenceTypeOK, SaveQueued
    <3>4. memory' \in [Records -> Contents]
      BY <3>1, RecordFacts DEF PersistenceTypeOK
    <3>5. \A r \in Kept : memory'[r] = memory[r]
      BY <3>1, RecordFacts
    <3>6. Asked' BY <1>1, <3>1, <3>3, <3>5 DEF Asked, Kept, Core
    <3>7. QED BY <1>1, <3>1, <3>3, <3>4, <3>6 DEF PersistenceTypeOK, flags
  <2>3. ASSUME NEW p \in Ceremonies, TakeCeremony(p)
        PROVE  PersistenceTypeOK' /\ Asked'
    <3>1. EnqueueSave /\ memory' = [memory EXCEPT ![p] = 0] BY <2>3 DEF TakeCeremony
    <3>2. QED BY <1>1, <3>1, Enqueued, RecordFacts DEF PersistenceTypeOK, Asked, flags
  <2>4. QED BY <2>1, <2>2, <2>3 DEF Mutation
<1>6. QED BY <1>3, <1>4, <1>5

\* While a save runs, or an operation waits, close() has not returned.
LEMMA NotFinished ==
    ASSUME PersistenceInv, queue # <<>> \/ saving # "none" \/ SaveFailed
    PROVE  status # "closed"
BY DEF PersistenceInv, Finished, Idle

LEMMA NextStartSave ==
    ASSUME PersistenceInv, StartSave
    PROVE  PersistenceInv'
<1> USE DEF PersistenceInv
<1>1. /\ saving = "none" /\ saving' = "relational" /\ attempted' = memory
      /\ queue # <<>> /\ queue' = Tail(queue)
      /\ UNCHANGED <<memory, database, baseline, forced, requested, failed, journalFailed,
                     timer, status>>
  BY DEF StartSave, flags, closing
<1>2. PersistenceTypeOK' BY <1>1, Taking DEF PersistenceTypeOK
<1>3. Written'
  <2>1. ASSUME NEW r PROVE BaselineTrue(r)' <=> BaselineTrue(r)
    BY <1>1 DEF BaselineTrue, CollectionOf
  <2>2. QED BY <1>1, <2>1 DEF Written, Core
<1>4. SavedWell' /\ Asked' BY <1>1 DEF SavedWell, Asked
<1>5. Quiet' /\ Finished' BY <1>1, NotFinished DEF Quiet, Finished
<1>6. QED BY <1>2, <1>3, <1>4, <1>5

LEMMA NextCommitRecords ==
    ASSUME PersistenceInv, CommitRecords
    PROVE  PersistenceInv'
<1> USE DEF PersistenceInv
<1>1. /\ saving = "relational" /\ saving' = "journal" /\ database' = StoredRecords
      /\ UNCHANGED <<memory, baseline, attempted, forced, queue, requested, failed,
                     journalFailed, timer, status>>
  BY DEF CommitRecords, flags, closing
<1>2. PersistenceTypeOK' BY <1>1, RecordsAreStored DEF PersistenceTypeOK
<1>3. Written'
  <2>1. ASSUME NEW r \in Core PROVE Stored(r)' BY <1>1, RecordsAreStored DEF Stored
  <2>2. ASSUME NEW r \in Journal PROVE BaselineTrue(r)'
    BY <1>1, RecordsAreStored DEF Written, BaselineTrue, CollectionOf
  <2>3. QED BY <1>1, <2>1, <2>2 DEF Written, Core
<1>4. SavedWell' BY <1>1 DEF SavedWell
<1>5. Asked' BY <1>1 DEF Asked, SaveQueued
<1>6. Quiet' /\ Finished' BY <1>1, NotFinished DEF Quiet, Finished
<1>7. QED BY <1>2, <1>3, <1>4, <1>5, <1>6

\* The end of a save carries over what was requested meanwhile.
LEMMA EndKeepsAsking ==
    ASSUME PersistenceInv, EndSave, UNCHANGED <<memory, attempted>>
    PROVE  Asked'
BY SaveEnds DEF PersistenceInv, Asked

LEMMA NextFailRecords ==
    ASSUME PersistenceInv, FailRecords
    PROVE  PersistenceInv'
<1> USE DEF PersistenceInv
<1>1. /\ saving = "relational" /\ database' \in {database, StoredRecords}
      /\ baseline' = [r \in Records |-> BaselineAfterFailedSave(r)]
      /\ forced' = forced \cup Touched
      /\ failed' = TRUE /\ EndSave /\ ScheduleRetry
      /\ UNCHANGED <<memory, attempted, journalFailed, status>>
  BY DEF FailRecords, closing
<1>2. /\ queue' \in Seq(Operation) /\ requested' = FALSE /\ saving' = "none"
  BY <1>1, SaveEnds
<1>3. PersistenceTypeOK'
  BY <1>1, <1>2, RecordsAreStored, RecordFacts
  DEF PersistenceTypeOK, BaselineAfterFailedSave, ScheduleRetry
<1>4. Written'
  <2>1. ASSUME NEW r \in Kept PROVE BaselineTrue(r)'
    <3>1. r \in Records /\ BaselineTrue(r) BY <1>1, RecordFacts DEF Written, Kept
    <3>2. database'[r] \in {database[r], attempted[r]}
      BY <1>1, RecordsAreStored DEF Kept
    <3>3. QED BY <1>1, <3>1, <3>2, AfterFailure
  <2>2. QED BY <1>2, <2>1 DEF Written, Kept, Core
<1>5. SavedWell' BY <1>1 DEF SavedWell
<1>6. Asked' BY <1>1, EndKeepsAsking
<1>7. Quiet' /\ Finished'
  BY <1>1, NotFinished DEF Quiet, Finished, ScheduleRetry, PersistenceTypeOK
<1>8. QED BY <1>3, <1>4, <1>5, <1>6, <1>7

LEMMA NextCommitJournal ==
    ASSUME PersistenceInv, CommitJournal
    PROVE  PersistenceInv'
<1> USE DEF PersistenceInv
<1>1. /\ saving = "journal" /\ database' = StoredJournal /\ baseline' = attempted
      /\ failed' = FALSE /\ journalFailed' = FALSE /\ EndSave
      /\ UNCHANGED <<memory, attempted, timer, status>>
  BY DEF CommitJournal, closing
<1>2. /\ queue' \in Seq(Operation) /\ requested' = FALSE /\ saving' = "none"
  BY <1>1, SaveEnds
<1>3. PersistenceTypeOK' BY <1>1, <1>2, JournalIsStored DEF PersistenceTypeOK
<1>4. \A r \in Kept : Stored(r)' /\ BaselineTrue(r)'
  <2>1. \A r \in Kept : database'[r] = attempted[r]
    BY <1>1, JournalIsStored DEF Written, Stored, Kept
  <2>2. QED BY <1>1, <2>1 DEF Stored, BaselineTrue
<1>5. Written' /\ SavedWell' BY <1>2, <1>4 DEF Written, SavedWell, Kept, Core
<1>6. Asked' BY <1>1, EndKeepsAsking
<1>7. Quiet' /\ Finished' BY <1>1, NotFinished DEF Quiet, Finished
<1>8. QED BY <1>3, <1>5, <1>6, <1>7

LEMMA NextFailJournal ==
    ASSUME PersistenceInv, FailJournal
    PROVE  PersistenceInv'
<1> USE DEF PersistenceInv
<1>1. /\ saving = "journal" /\ database' \in {database, StoredJournal}
      /\ baseline' = [r \in Records |->
                         IF r \in Journal THEN BaselineAfterFailedSave(r) ELSE attempted[r]]
      /\ forced' = (forced \cup Touched) \cap {"journal"}
      /\ failed' = FALSE /\ journalFailed' = TRUE /\ EndSave /\ ScheduleRetry
      /\ UNCHANGED <<memory, attempted, status>>
  BY DEF FailJournal, ScheduleJournalRetry, closing
<1>2. /\ queue' \in Seq(Operation) /\ requested' = FALSE /\ saving' = "none"
  BY <1>1, SaveEnds
<1>3. PersistenceTypeOK'
  BY <1>1, <1>2, JournalIsStored, RecordFacts
  DEF PersistenceTypeOK, BaselineAfterFailedSave, ScheduleRetry
<1>4. ASSUME NEW r \in Core PROVE Stored(r)' /\ BaselineTrue(r)'
  <2>1. r \in Records /\ r \notin Journal BY RecordFacts
  <2>2. database'[r] = attempted[r] BY <1>1, JournalIsStored DEF Written, Stored
  <2>3. QED BY <1>1, <2>1, <2>2 DEF Stored, BaselineTrue
<1>5. ASSUME NEW r \in Journal PROVE BaselineTrue(r)'
  <2>1. r \in Records /\ BaselineTrue(r) /\ CollectionOf(r) = "journal"
    BY RecordFacts DEF Written, Kept
  <2>2. database'[r] \in {database[r], attempted[r]} BY <1>1, JournalIsStored
  <2>3. baseline'[r] = BaselineAfterFailedSave(r) BY <1>1, <2>1
  <2>4. QED BY <1>1, <2>1, <2>2, <2>3, AfterFailure
<1>6. Written' /\ SavedWell' BY <1>1, <1>2, <1>4, <1>5 DEF Written, SavedWell, Core
<1>7. Asked' BY <1>1, EndKeepsAsking
<1>8. Quiet' /\ Finished'
  BY <1>1, NotFinished DEF Quiet, Finished, ScheduleRetry, PersistenceTypeOK
<1>9. QED BY <1>3, <1>6, <1>7, <1>8

\* A ceremony write touches no other collection.
LEMMA CeremonyOnly ==
    ASSUME PersistenceTypeOK, queue # <<>>, Head(queue) # Snapshot,
           NEW rows \in [Records -> Contents]
    PROVE  /\ Applied(Head(queue), rows) \in [Records -> Contents]
           /\ \A r \in Kept : Applied(Head(queue), rows)[r] = rows[r]
<1>1. Head(queue) \in Operation BY Taking DEF PersistenceTypeOK
<1>2. Head(queue).upsert \in Ceremonies /\ Head(queue).removed \subseteq Ceremonies
  BY <1>1, OperationFacts
<1>3. QED BY <1>2, RecordFacts DEF Applied

LEMMA NextCeremony ==
    ASSUME PersistenceInv, CommitCeremony \/ FailCeremony
    PROVE  PersistenceInv'
<1> USE DEF PersistenceInv
<1>1. /\ saving = "none" /\ queue # <<>> /\ Head(queue) # Snapshot
      /\ queue' = Tail(queue)
      /\ UNCHANGED <<memory, attempted, forced, saving, requested, journalFailed, status>>
  BY DEF CommitCeremony, FailCeremony, flags, closing
<1>2. \/ failed' = TRUE /\ ScheduleRetry
      \/ UNCHANGED <<failed, timer>>
  BY DEF CommitCeremony, FailCeremony, flags
<1>3. /\ database' \in {database, Applied(Head(queue), database)}
      /\ baseline' \in {baseline, Applied(Head(queue), baseline)}
  BY DEF CommitCeremony, FailCeremony
<1>4. /\ database' \in [Records -> Contents] /\ baseline' \in [Records -> Contents]
      /\ \A r \in Kept : database'[r] = database[r] /\ baseline'[r] = baseline[r]
  BY <1>1, <1>3, CeremonyOnly DEF PersistenceTypeOK
<1>5. queue' \in Seq(Operation) /\ (SaveQueued => SaveQueued')
  BY <1>1, Taking DEF PersistenceTypeOK, SaveQueued
<1>6. PersistenceTypeOK'
  BY <1>1, <1>2, <1>4, <1>5 DEF PersistenceTypeOK, ScheduleRetry
<1>7. ASSUME NEW r \in Kept
      PROVE  (BaselineTrue(r)' <=> BaselineTrue(r)) /\ (Stored(r)' <=> Stored(r))
  BY <1>1, <1>4 DEF BaselineTrue, Stored, CollectionOf
<1>8. Written' /\ SavedWell'
  BY <1>1, <1>2, <1>7 DEF Written, SavedWell, Kept, Core
<1>9. Asked' BY <1>1, <1>5 DEF Asked, Kept, Core
<1>10. Quiet' /\ Finished'
  BY <1>1, <1>2, NotFinished DEF Quiet, Finished, ScheduleRetry, PersistenceTypeOK
<1>11. QED BY <1>6, <1>8, <1>9, <1>10

LEMMA NextEnqueue ==
    ASSUME PersistenceInv, Retry \/ Close \/ FinishClose
    PROVE  PersistenceInv'
<1> USE DEF PersistenceInv
<1>1. UNCHANGED <<memory, database, baseline, attempted, forced, saving, failed, journalFailed>>
  BY DEF Retry, Close, FinishClose, flags
<1>2. EnqueueSave \/ UNCHANGED <<queue, requested>> BY DEF Retry, Close, FinishClose
<1>3. timer' \in BOOLEAN BY DEF Retry, Close, FinishClose, PersistenceTypeOK, flags
<1>4. PersistenceTypeOK' BY <1>1, <1>2, <1>3, Enqueued DEF PersistenceTypeOK
<1>5. Written' /\ SavedWell' BY <1>1, DataStays
<1>6. Asked' BY <1>1, <1>2, Enqueued DEF Asked, SaveQueued
<1>7. Quiet' BY DEF Quiet, Retry, Close, FinishClose, flags, closing
<1>8. Finished'
  <2>1. CASE Retry
    <3>1. status # "closed" /\ UNCHANGED status BY <2>1 DEF Retry, Quiet, closing
    <3>2. QED BY <3>1 DEF Finished
  <2>2. CASE Close BY <2>2 DEF Close, Finished
  <2>3. CASE FinishClose
    <3>1. Idle /\ (status' = "closed" => ~SaveFailed /\ UNCHANGED <<queue, requested>>)
      BY <2>3 DEF FinishClose
    <3>2. QED BY <1>1, <3>1 DEF Finished, Idle, SaveFailed
  <2>4. QED BY <2>1, <2>2, <2>3
<1>9. QED BY <1>4, <1>5, <1>6, <1>7, <1>8

LEMMA NextRestart ==
    ASSUME PersistenceInv, Restart
    PROVE  PersistenceInv'
<1> USE DEF PersistenceInv
<1>1. /\ memory' = Loaded /\ baseline' = Loaded /\ attempted' = Loaded
      /\ forced' = {} /\ queue' = <<>> /\ saving' = "none" /\ requested' = FALSE
      /\ failed' = FALSE /\ journalFailed' = FALSE /\ timer' = FALSE
      /\ status' = "open" /\ UNCHANGED database
  BY DEF Restart
<1>2. Loaded = database BY DEF Loaded, PersistenceTypeOK
<1>3. PersistenceTypeOK' BY <1>1, <1>2, NothingQueued DEF PersistenceTypeOK
<1>4. \A r : Stored(r)' /\ BaselineTrue(r)' BY <1>1, <1>2 DEF Stored, BaselineTrue
<1>5. Written' /\ SavedWell' BY <1>1, <1>4 DEF Written, SavedWell
<1>6. Asked' /\ Quiet' /\ Finished' BY <1>1 DEF Asked, Quiet, Finished
<1>7. QED BY <1>3, <1>5, <1>6

----------------------------------------------------------------------------
(* The theorems.                                                           *)

LEMMA InitInv ==
    ASSUME Init
    PROVE  PersistenceInv
<1>1. PersistenceTypeOK BY NothingQueued DEF Init, PersistenceTypeOK
<1>2. \A r : Stored(r) /\ BaselineTrue(r) BY DEF Init, Stored, BaselineTrue
<1>3. Written /\ SavedWell BY <1>2 DEF Init, Written, SavedWell
<1>4. Asked /\ Quiet /\ Finished BY DEF Init, Asked, Quiet, Finished
<1>5. QED BY <1>1, <1>3, <1>4 DEF PersistenceInv

LEMMA NextInv ==
    ASSUME PersistenceInv, [Next]_vars
    PROVE  PersistenceInv'
<1>1. CASE Mutation BY <1>1, NextMutation
<1>2. CASE RunQueue
  BY <1>2, NextStartSave, NextCommitRecords, NextFailRecords, NextCommitJournal,
     NextFailJournal, NextCeremony DEF RunQueue
<1>3. CASE Retry \/ Close \/ FinishClose BY <1>3, NextEnqueue
<1>4. CASE Restart BY <1>4, NextRestart
<1>5. CASE UNCHANGED vars
  <2>1. ASSUME NEW r PROVE (BaselineTrue(r)' <=> BaselineTrue(r)) /\ (Stored(r)' <=> Stored(r))
    BY <1>5 DEF vars, BaselineTrue, Stored, CollectionOf
  <2>2. PersistenceTypeOK' BY <1>5 DEF vars, flags, PersistenceInv, PersistenceTypeOK
  <2>3. Written' /\ SavedWell'
    BY <1>5, <2>1 DEF vars, flags, PersistenceInv, Written, SavedWell, Core
  <2>4. Asked' BY <1>5 DEF vars, PersistenceInv, Asked, SaveQueued, Kept, Core
  <2>5. Quiet' /\ Finished'
    BY <1>5 DEF vars, flags, closing, PersistenceInv, Quiet, Finished, Idle, SaveFailed
  <2>6. QED BY <2>2, <2>3, <2>4, <2>5 DEF PersistenceInv
<1>6. QED BY <1>1, <1>2, <1>3, <1>4, <1>5 DEF Next

\* Saves, failures, lost acknowledgements, ceremony writes and restarts keep the
\* baseline's claims true and every unsaved change asked for.
THEOREM PersistenceSafety == Spec => []PersistenceInv
BY InitInv, NextInv, PTL DEF Spec

\* flush() confirms a response only when what it confirms is in the database.
THEOREM ConfirmedMeansStored == Spec => []IdleMeansStored
BY PersistenceSafety, InvImplies, PTL

\* close() returns without an error only over a database that has everything.
THEOREM CleanCloseIsComplete == Spec => []CleanCloseLosesNothing
BY PersistenceSafety, InvImplies, PTL

----------------------------------------------------------------------------
(* The database as a copy that lags behind.                                *)

\* A step of the save is a step of the promise, or none, for both sets of records.
LEMMA StepCopies ==
    ASSUME PersistenceInv, [Next]_vars
    PROVE  [CoreStore!Next]_(CoreStore!contents) /\ [JournalStore!Next]_(JournalStore!contents)
<1> USE DEF PersistenceInv, CoreStore!contents, JournalStore!contents, CoreStore!Next,
            JournalStore!Next, Part
<1>1. PersistenceTypeOK' BY NextInv
<1>2. Core \subseteq Records /\ Journal \subseteq Records /\ Core \cap Journal = {}
  BY RecordFacts DEF Kept
<1>3. CASE Mutation \/ Retry \/ Close \/ FinishClose
  <2>1. UNCHANGED <<attempted, database>>
    BY <1>3 DEF Mutation, Write, BeginCeremony, TakeCeremony, Retry, Close, FinishClose
  <2>2. memory' \in [Records -> Contents] BY <1>1 DEF PersistenceTypeOK
  <2>3. QED BY <1>2, <2>1, <2>2 DEF CoreStore!Mutate, JournalStore!Mutate, Core
<1>4. CASE StartSave BY <1>4 DEF StartSave, CoreStore!Take, JournalStore!Take
<1>5. CASE CommitRecords \/ FailRecords
  <2>1. saving = "relational" /\ database' \in {database, StoredRecords}
        /\ UNCHANGED <<memory, attempted>>
    BY <1>5 DEF CommitRecords, FailRecords
  <2>2. Part(database', Journal) = Part(database, Journal)
    BY <2>1, RecordsAreStored
  <2>3. Part(database', Core) \in {Part(database, Core), Part(attempted, Core)}
    BY <2>1, RecordsAreStored
  <2>4. QED BY <2>1, <2>2, <2>3 DEF CoreStore!Store
<1>6. CASE CommitJournal \/ FailJournal
  <2>1. saving = "journal" /\ database' \in {database, StoredJournal}
        /\ UNCHANGED <<memory, attempted>>
    BY <1>6 DEF CommitJournal, FailJournal
  <2>2. Part(database', Core) = Part(database, Core)
    BY <2>1, JournalIsStored
  <2>3. Part(database', Journal) \in {Part(database, Journal), Part(attempted, Journal)}
    BY <2>1, JournalIsStored
  <2>4. QED BY <2>1, <2>2, <2>3 DEF JournalStore!Store
<1>7. CASE CommitCeremony \/ FailCeremony
  <2>1. queue # <<>> /\ Head(queue) # Snapshot /\ UNCHANGED <<memory, attempted>>
        /\ database' \in {database, Applied(Head(queue), database)}
    BY <1>7 DEF CommitCeremony, FailCeremony
  <2>2. \A r \in Kept : database'[r] = database[r]
    BY <2>1, CeremonyOnly DEF PersistenceTypeOK
  <2>3. QED BY <2>1, <2>2 DEF Kept
<1>8. CASE Restart
  <2>1. memory' = database /\ attempted' = database /\ UNCHANGED database
    BY <1>8 DEF Restart, Loaded, PersistenceTypeOK
  <2>2. QED BY <2>1 DEF CoreStore!Restart, JournalStore!Restart
<1>9. CASE UNCHANGED vars BY <1>9 DEF vars
<1>10. QED
  BY <1>3, <1>4, <1>5, <1>6, <1>7, <1>8, <1>9 DEF Next, RunQueue

LEMMA InitCopies ==
    ASSUME Init
    PROVE  CoreStore!Init /\ JournalStore!Init
BY RecordFacts DEF Init, CoreStore!Init, JournalStore!Init, Part, Kept

\* The collections implement the promise of WriteBehind: the database only takes whole
\* snapshots, in the order they were taken, and a restart goes on from what it holds.
THEOREM CoreIsWrittenBehind == Spec => CoreIsACopy
BY InitCopies, InitInv, NextInv, StepCopies, PTL DEF Spec, CoreIsACopy, CoreStore!Spec

\* So does the journal, although its transaction is not that of the collections.
THEOREM JournalIsWrittenBehind == Spec => JournalIsACopy
BY InitCopies, InitInv, NextInv, StepCopies, PTL DEF Spec, JournalIsACopy, JournalStore!Spec
=============================================================================
