-------------------------- MODULE SnapshotPersistence --------------------------
(***************************************************************************)
(* How postgres-store.ts makes the in-memory Cp2Store durable: mutating    *)
(* methods enqueue a snapshot save, saves run one at a time and write only *)
(* what differs from the baseline they believe the database holds, in two  *)
(* transactions (collections, then the sync journal), each of which may    *)
(* fail or commit without its acknowledgement arriving; passkey ceremonies *)
(* are also written by operations of their own.                            *)
(*                                                                         *)
(* A record is absent (0) or has one of a few contents.  One collection    *)
(* stands for each way of writing: row by row (Relational), rewritten as a *)
(* whole (Normalized), the journal, and the ceremonies.                    *)
(*                                                                         *)
(* A mutation and the save it asks for are one step.  A method that awaits *)
(* changes memory first and enqueues when its promise resolves, before its *)
(* caller is answered; until then an earlier save may carry the change.    *)
(* The repairs of hydrateSnapshot and the backfill of an empty journal are *)
(* left out: after a restart, memory is what was loaded.                   *)
(***************************************************************************)
EXTENDS Naturals, Sequences, FiniteSets

CONSTANTS
    Relational, Normalized, Journal, Ceremonies,   \* sets of records
    MaxContent,      \* distinct contents of a record
    MaxWrites,       \* bound on mutations
    MaxFaults,       \* bound on failed transactions, lost acknowledgements and crashes
    FinalAttempts    \* finalSaveAttempts

Records == Relational \cup Normalized \cup Journal \cup Ceremonies
Contents == 0..MaxContent
Collections == {"relational", "normalized", "journal", "passkeyCeremonies"}

ASSUME Settings ==
    /\ MaxContent \in Nat \ {0}
    /\ Relational \cap Normalized = {} /\ Relational \cap Journal = {}
    /\ Normalized \cap Journal = {}
    /\ Ceremonies \cap (Relational \cup Normalized \cup Journal) = {}

VARIABLES
    memory,         \* what Cp2Store holds
    database,       \* what the tables hold
    baseline,       \* lastPersistedSnapshot
    attempted,      \* the clone the last save started from
    forced,         \* forcedRemovalChecks
    queue,          \* persistence operations waiting
    saving,         \* the transaction the active save is in, "none" when no save runs
    requested,      \* snapshotSaveRequestedWhileRunning
    failed,         \* lastPersistenceError is set
    journalFailed,  \* lastSyncPersistenceError is set
    timer,          \* persistenceRetryTimer is set
    status,         \* "open", "closing", "closed" or "rejected" (close() threw)
    attempts,       \* final saves close() has asked for
    writes, faults  \* how much of the bounds is used

flags == <<failed, journalFailed, timer>>
closing == <<status, attempts>>
vars == <<memory, database, baseline, attempted, forced, queue, saving, requested, flags,
          closing, writes, faults>>

CollectionOf(r) ==
    IF r \in Relational THEN "relational" ELSE IF r \in Normalized THEN "normalized"
    ELSE IF r \in Journal THEN "journal" ELSE "passkeyCeremonies"
Of(c) == {r \in Records : CollectionOf(r) = c}

----------------------------------------------------------------------------
(* The queue of persistence operations.                                    *)

Snapshot == [kind |-> "snapshot"]
CeremonyWrite(p, gone) == [kind |-> "ceremony", upsert |-> p, removed |-> gone]

SaveQueued == \E i \in DOMAIN queue : queue[i] = Snapshot

\* Mutant: a mutation during a save does not ask for another one.
EnqueueSaveUnlessRunning ==
    /\ queue' = IF SaveQueued \/ saving # "none" THEN queue ELSE Append(queue, Snapshot)
    /\ UNCHANGED requested

EnqueueSave ==
    /\ queue' = IF SaveQueued \/ saving # "none" THEN queue ELSE Append(queue, Snapshot)
    /\ requested' = (requested \/ (saving # "none" /\ ~SaveQueued))

----------------------------------------------------------------------------
(* What a save writes.                                                     *)

\* collectionUnchanged: the save skips the collection, or its delete pass.
Unchanged(c) == c \notin forced /\ \A r \in Of(c) : attempted[r] = baseline[r]

\* recordsChangedSince, after the delete pass when it runs.
RowByRow(r, deletes) ==
    IF attempted[r] = 0 THEN (IF deletes THEN 0 ELSE database[r])
    ELSE IF attempted[r] = baseline[r] THEN database[r] ELSE attempted[r]

\* saveCollectionRecords deletes what is missing and upserts the rest, all of it.
Rewritten(r) == IF Unchanged(CollectionOf(r)) THEN database[r] ELSE attempted[r]

\* The first transaction: every collection but the journal.
StoredRecords ==
    [r \in Records |->
        IF r \in Relational THEN RowByRow(r, ~Unchanged("relational"))
        ELSE IF r \in Journal THEN database[r] ELSE Rewritten(r)]

\* Mutant: the journal's delete pass only looks at the baseline.
JournalMayHaveRemovalsUnforced == \E r \in Journal : baseline[r] # 0 /\ attempted[r] = 0

\* syncChangesMayHaveRemovals, or a delete pass still owed.
JournalMayHaveRemovals ==
    "journal" \in forced \/ \E r \in Journal : baseline[r] # 0 /\ attempted[r] = 0

\* The second transaction: replaceAccountSyncChanges.
StoredJournal ==
    [r \in Records |-> IF r \in Journal THEN RowByRow(r, JournalMayHaveRemovals) ELSE database[r]]

\* Mutant: a failed save leaves the baseline alone.
BaselineKept(r) == baseline[r]

\* baselineAfterFailedSave keeps only what the attempt left as it was.
BaselineAfterFailedSave(r) == IF attempted[r] = baseline[r] THEN baseline[r] ELSE 0

Touched == {c \in Collections : \E r \in Of(c) : attempted[r] # baseline[r]}

----------------------------------------------------------------------------
(* Mutating methods of the store, seen through the proxy.                  *)

Write(r, content) ==
    /\ status = "open" /\ writes < MaxWrites
    /\ r \notin Ceremonies /\ content # memory[r]
    /\ memory' = [memory EXCEPT ![r] = content]
    /\ writes' = writes + 1
    /\ EnqueueSave
    /\ UNCHANGED <<database, baseline, attempted, forced, saving, flags, closing, faults>>

\* A ceremony's id is a new randomUUID.
Fresh(p) ==
    /\ memory[p] = 0 /\ database[p] = 0 /\ baseline[p] = 0 /\ attempted[p] = 0
    /\ ~\E i \in DOMAIN queue : queue[i] # Snapshot /\ queue[i].upsert = p

\* beginPasskeyRegistration and beginPasskeyAuthentication: prune, then add a
\* ceremony, written by an operation that carries both.
BeginCeremony(p, gone) ==
    /\ status = "open" /\ writes < MaxWrites
    /\ Fresh(p) /\ p \notin gone
    /\ \A q \in gone : memory[q] # 0
    /\ memory' = [q \in Records |-> IF q = p THEN 1 ELSE IF q \in gone THEN 0 ELSE memory[q]]
    /\ writes' = writes + 1
    /\ queue' = Append(queue, CeremonyWrite(p, gone))
    /\ UNCHANGED <<database, baseline, attempted, forced, saving, requested, flags, closing, faults>>

\* completePasskeyRegistration and completePasskeyAuthentication take the ceremony.
TakeCeremony(p) ==
    /\ status = "open" /\ memory[p] # 0
    /\ memory' = [memory EXCEPT ![p] = 0]
    /\ EnqueueSave
    /\ UNCHANGED <<database, baseline, attempted, forced, saving, flags, closing, writes, faults>>

----------------------------------------------------------------------------
(* A snapshot save.                                                        *)

\* The operation starts: clone the snapshot.
StartSave ==
    /\ saving = "none" /\ queue # <<>> /\ Head(queue) = Snapshot
    /\ saving' = "relational"
    /\ queue' = Tail(queue)
    /\ attempted' = memory
    /\ UNCHANGED <<memory, database, baseline, forced, requested, flags, closing, writes, faults>>

\* The operation's finally block.
EndSave ==
    /\ saving' = "none" /\ requested' = FALSE
    /\ queue' = IF requested THEN Append(queue, Snapshot) ELSE queue

ScheduleRetry == timer' = (timer \/ status = "open")

CommitRecords ==
    /\ saving = "relational"
    /\ database' = StoredRecords
    /\ saving' = "journal"
    /\ UNCHANGED <<memory, baseline, attempted, forced, queue, requested, flags, closing, writes, faults>>

\* The first transaction throws: rolled back, or committed without an acknowledgement.
FailRecords ==
    /\ saving = "relational" /\ faults < MaxFaults
    /\ faults' = faults + 1
    /\ database' \in {database, StoredRecords}
    /\ baseline' = [r \in Records |-> BaselineAfterFailedSave(r)]
    /\ forced' = forced \cup Touched
    /\ failed' = TRUE
    /\ EndSave /\ ScheduleRetry
    /\ UNCHANGED <<memory, attempted, journalFailed, closing, writes>>

CommitJournal ==
    /\ saving = "journal"
    /\ database' = StoredJournal
    /\ baseline' = attempted
    /\ forced' = {}
    /\ failed' = FALSE /\ journalFailed' = FALSE
    /\ EndSave
    /\ UNCHANGED <<memory, attempted, timer, closing, writes, faults>>

\* Mutant: a save whose journal failed waits for the next mutation.
ScheduleJournalRetryLater == UNCHANGED timer
ScheduleJournalRetry == ScheduleRetry

\* The second transaction throws, the operation still resolves.
FailJournal ==
    /\ saving = "journal" /\ faults < MaxFaults
    /\ faults' = faults + 1
    /\ database' \in {database, StoredJournal}
    /\ baseline' = [r \in Records |-> IF r \in Journal THEN BaselineAfterFailedSave(r) ELSE attempted[r]]
    /\ forced' = (forced \cup Touched) \cap {"journal"}
    /\ failed' = FALSE /\ journalFailed' = TRUE
    /\ EndSave /\ ScheduleJournalRetry
    /\ UNCHANGED <<memory, attempted, closing, writes>>

\* The retry timer fires.
Retry ==
    /\ timer
    /\ timer' = FALSE
    /\ EnqueueSave
    /\ UNCHANGED <<memory, database, baseline, attempted, forced, saving, failed, journalFailed,
                   closing, writes, faults>>

----------------------------------------------------------------------------
(* A passkey ceremony operation.                                           *)

Applied(op, rows) ==
    [r \in Records |-> IF r = op.upsert THEN 1 ELSE IF r \in op.removed THEN 0 ELSE rows[r]]

CommitCeremony ==
    /\ saving = "none" /\ queue # <<>> /\ Head(queue) # Snapshot
    /\ database' = Applied(Head(queue), database)
    /\ baseline' = Applied(Head(queue), baseline)
    /\ queue' = Tail(queue)
    /\ UNCHANGED <<memory, attempted, forced, saving, requested, flags, closing, writes, faults>>

FailCeremony ==
    /\ saving = "none" /\ queue # <<>> /\ Head(queue) # Snapshot /\ faults < MaxFaults
    /\ faults' = faults + 1
    /\ database' \in {database, Applied(Head(queue), database)}
    /\ queue' = Tail(queue)
    /\ failed' = TRUE
    /\ ScheduleRetry
    /\ UNCHANGED <<memory, baseline, attempted, forced, saving, requested, journalFailed, closing, writes>>

----------------------------------------------------------------------------
(* Shutdown and restart.                                                   *)

Idle == queue = <<>> /\ saving = "none" /\ ~requested

\* Mutant: only the save error counts at shutdown.
SaveFailedIgnoringJournal == failed
SaveFailed == failed \/ journalFailed

Close ==
    /\ status = "open"
    /\ status' = "closing" /\ timer' = FALSE
    /\ IF timer THEN EnqueueSave ELSE UNCHANGED <<queue, requested>>
    /\ UNCHANGED <<memory, database, baseline, attempted, forced, saving, failed, journalFailed,
                   attempts, writes, faults>>

\* The queue has drained: another attempt, or the end.
FinishClose ==
    /\ status = "closing" /\ Idle
    /\ IF SaveFailed /\ attempts < FinalAttempts
       THEN attempts' = attempts + 1 /\ EnqueueSave /\ UNCHANGED status
       ELSE /\ status' = IF SaveFailed THEN "rejected" ELSE "closed"
            /\ UNCHANGED <<attempts, queue, requested>>
    /\ UNCHANGED <<memory, database, baseline, attempted, forced, saving, flags, writes, faults>>

\* loadNormalizedSnapshot reads every table.
Loaded == [r \in Records |-> database[r]]

\* The process dies, or exits after close(), and another one boots: it loads the
\* tables and takes what it loaded as its baseline.
Restart ==
    /\ faults < MaxFaults
    /\ faults' = faults + 1
    /\ memory' = Loaded /\ baseline' = Loaded /\ attempted' = Loaded
    /\ forced' = {} /\ queue' = <<>> /\ saving' = "none" /\ requested' = FALSE
    /\ failed' = FALSE /\ journalFailed' = FALSE /\ timer' = FALSE
    /\ status' = "open" /\ attempts' = 0
    /\ UNCHANGED <<database, writes>>

----------------------------------------------------------------------------
Init ==
    /\ memory \in [Records -> Contents] /\ \A p \in Ceremonies : memory[p] = 0
    /\ database = memory /\ baseline = memory /\ attempted = memory
    /\ forced = {} /\ queue = <<>> /\ saving = "none" /\ requested = FALSE
    /\ failed = FALSE /\ journalFailed = FALSE /\ timer = FALSE
    /\ status = "open" /\ attempts = 0 /\ writes = 0 /\ faults = 0

RunQueue ==
    \/ StartSave \/ CommitRecords \/ FailRecords \/ CommitJournal \/ FailJournal
    \/ CommitCeremony \/ FailCeremony

Mutation ==
    \/ \E r \in Records, content \in Contents : Write(r, content)
    \/ \E p \in Ceremonies, gone \in SUBSET Ceremonies : BeginCeremony(p, gone)
    \/ \E p \in Ceremonies : TakeCeremony(p)

Next == Mutation \/ RunQueue \/ Retry \/ Close \/ FinishClose \/ Restart

Spec == Init /\ [][Next]_vars

\* The event loop runs queued operations and timers; Postgres answers or a
\* time-out does, and only MaxFaults answers are failures.
FairSpec == Spec /\ WF_vars(RunQueue) /\ WF_vars(Retry) /\ WF_vars(FinishClose)

----------------------------------------------------------------------------
(* Properties.                                                             *)

Part(rows, S) == [r \in S |-> rows[r]]
Core == Relational \cup Normalized

CoreStore == INSTANCE WriteBehind WITH Contents <- [Core -> Contents],
    memory <- Part(memory, Core), copy <- Part(attempted, Core), disk <- Part(database, Core)
JournalStore == INSTANCE WriteBehind WITH Contents <- [Journal -> Contents],
    memory <- Part(memory, Journal), copy <- Part(attempted, Journal), disk <- Part(database, Journal)

\* Saves write differences to a baseline that may be wrong after a failure or a lost
\* acknowledgement, and deletions only when something seems to be gone; still the
\* collections only ever change to the whole content one snapshot had.
CoreIsACopy == CoreStore!Spec

\* The same of the sync journal, written by a transaction of its own.
JournalIsACopy == JournalStore!Spec

\* What flush() relies on when it confirms a response: with nothing queued or running
\* and no error recorded, memory is in the database, the journal too unless its own
\* error is recorded.
IdleMeansStored ==
    Idle /\ ~failed => /\ \A r \in Core : database[r] = memory[r]
                       /\ ~journalFailed => \A r \in Journal : database[r] = memory[r]

\* close() does not end cleanly over unsaved data, whatever failed before and
\* whichever save was in flight when it was called.
CleanCloseLosesNothing ==
    status = "closed" => \A r \in Core \cup Journal : database[r] = memory[r]

\* Once mutations and failures stop, an open store becomes durable without any further
\* call: every failure leaves a save queued, requested or timed.
EventuallyStored == <>[](status = "open" => \A r \in Core \cup Journal : database[r] = memory[r])

\* What the comment of enqueuePersistenceOperation says ("Only a snapshot save writes
\* everything (passkey ceremonies included), so only its success proves an earlier
\* failure is repaired"): a snapshot save that succeeds leaves the ceremonies in the
\* database as its snapshot has them.
SnapshotWritesCeremonies ==
    [][saving = "journal" /\ saving' = "none" /\ ~failed' /\ ~journalFailed'
          => \A p \in Ceremonies : database'[p] = attempted[p]]_vars
=============================================================================
