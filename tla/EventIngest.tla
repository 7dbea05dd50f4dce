----------------------------- MODULE EventIngest -----------------------------
(***************************************************************************)
(* One attempt's event.jsonl: the processes in the container append under  *)
(* the writer's lock, the scheduler tails the file every two seconds while *)
(* the container runs, and after it has stopped flushes it once, first by  *)
(* a tail and then from the runtime archive.  A chunk of records is one    *)
(* transaction: the receipts, their projection and the cursor commit       *)
(* together or not at all.                                                 *)
(***************************************************************************)
EXTENDS EventStream

CONSTANTS Events,      \* the events the container's processes may emit
          MaxEvents,   \* bound on the length of the stream
          MaxFaults    \* bound on transient reader failures

VARIABLES file,        \* event.jsonl, as complete records
          torn,        \* a writer died in the middle of an append
          receipts,    \* TaskHarnessEventReceipt rows, in seq order
          cursor,      \* TaskIngestCursor.last_offset, in records
          snap,        \* records the reader has fetched; 0: it is idle
          phase,       \* "polling", "tail", "archive", "done"
          faults,      \* transient failures so far
          lost         \* the flush's last read failed: nothing retries it

ASSUME EventsAssumption ==
    /\ \A e \in Events : e.type \in STRING /\ e.sep \in BOOLEAN
    /\ MaxEvents \in Nat /\ MaxFaults \in Nat

readVars == <<receipts, cursor, snap, phase, faults, lost>>

ingestVars == <<file, torn, receipts, cursor, snap, phase, faults, lost>>

IngestInit ==
    /\ file = <<>> /\ torn = FALSE
    /\ receipts = <<>> /\ cursor = 0 /\ snap = 0
    /\ phase = "polling" /\ faults = 0 /\ lost = FALSE

(* emit: append one record and fsync it.  A stream with a torn last line   *)
(* does not parse, so every later emit raises before it writes.            *)
Emit(e) ==
    /\ phase = "polling" /\ ~torn
    /\ Len(file) < MaxEvents
    /\ WriterAccepts(file, e.type)
    /\ file' = Append(file, e)
    /\ UNCHANGED <<torn, readVars>>

(* The emitting process is killed between write and newline.               *)
EmitTorn ==
    /\ phase = "polling" /\ ~torn /\ file # <<>>
    /\ torn' = TRUE
    /\ UNCHANGED <<file, readVars>>

(* poll_task_artifacts: a fresh session reads the tail of the file from    *)
(* the cursor; the torn last line stays unconsumed.                        *)
PollRead ==
    /\ phase = "polling" /\ snap = 0
    /\ cursor < Len(file)
    /\ snap' = Len(file)
    /\ UNCHANGED <<file, torn, receipts, cursor, phase, faults, lost>>

(* _split_live_tool_start_parts: a live poll commits up to the first tool  *)
(* start whose completion has been read too; other readers take everything.*)
SplitPoints ==
    {i \in cursor + 1 .. snap :
        /\ file[i].type = "tool.started"
        /\ \E j \in i + 1 .. snap : file[j].type = "tool.completed" /\ file[j].key = file[i].key}

ChunkEndsAt(k) ==
    IF phase = "polling" /\ SplitPoints # {}
    THEN k \in SplitPoints /\ \A j \in SplitPoints : k <= j
    ELSE k = snap

(* ingest_event_records_from_chunk: the record at i is decoded and passes  *)
(* ingest_canonical_event after the receipts of the records before it.     *)
Ingestible(i) == Decodes(file[i]) /\ IngestAccepts(SubSeq(file, 1, i - 1), file[i].type)

(* The reader after a chunk: the poll goes on with its remainder, the      *)
(* flush goes from the tail to the archive and from the archive to its end.*)
NextPhaseNoArchive == IF phase = "polling" THEN "polling" ELSE "done"

NextPhase == IF phase = "polling" THEN "polling" ELSE IF phase = "tail" THEN "archive" ELSE "done"

CommitChunk(k) ==
    /\ k \in cursor + 1 .. snap /\ ChunkEndsAt(k)
    /\ \A i \in cursor + 1 .. k : Ingestible(i)
    /\ receipts' = receipts \o SubSeq(file, cursor + 1, k)
    /\ cursor' = k
    /\ snap' = IF k = snap /\ phase # "tail" THEN 0 ELSE snap
    /\ phase' = NextPhase
    /\ UNCHANGED <<file, torn, faults, lost>>

(* The transaction fails after the records up to j: at the record the      *)
(* ingest rejects, or at any record when the database or Docker fails.     *)
(* Receipts and cursor roll back; the poll and the tail are tried again,   *)
(* by the next poll and by the archive, the archive by nobody.             *)
RollBackChunkKeepsCursor(j) ==
    /\ snap > cursor /\ j \in cursor .. snap /\ faults < MaxFaults
    /\ faults' = faults + 1 /\ cursor' = j /\ phase' = NextPhase
    /\ snap' = IF phase = "tail" THEN snap ELSE 0
    /\ UNCHANGED <<file, torn, receipts, lost>>

RollBackChunk(j) ==
    /\ snap > cursor
    /\ \E k \in cursor + 1 .. snap : ChunkEndsAt(k) /\ j \in cursor .. k
    /\ \A i \in cursor + 1 .. j : Ingestible(i)
    /\ \/ j < snap /\ ~ChunkEndsAt(j) /\ ~Ingestible(j + 1) /\ UNCHANGED faults
       \/ faults < MaxFaults /\ faults' = faults + 1
    /\ snap' = IF phase = "tail" THEN snap ELSE 0
    /\ phase' = NextPhase
    /\ lost' = (lost \/ phase = "archive")
    /\ UNCHANGED <<file, torn, receipts, cursor>>

(* observe ... flush_task_artifacts: the container has stopped, the poller *)
(* has been stopped, and the file is read for the last time.               *)
BeginFlush ==
    /\ phase = "polling" /\ snap = 0 /\ file # <<>>
    /\ phase' = "tail" /\ snap' = Len(file)
    /\ UNCHANGED <<file, torn, receipts, cursor, faults, lost>>

(* tail_event_jsonl and backfill_event_jsonl_from_archive return at once   *)
(* when the cursor is at the end of the file.                              *)
NothingToRead ==
    /\ phase \in {"tail", "archive"} /\ cursor = Len(file)
    /\ phase' = NextPhase
    /\ snap' = IF phase = "tail" THEN snap ELSE 0
    /\ UNCHANGED <<file, torn, receipts, cursor, faults, lost>>

(* The scheduler dies during a poll; the resumed task polls from the       *)
(* committed cursor.                                                       *)
ReaderRestart ==
    /\ phase = "polling" /\ faults < MaxFaults
    /\ faults' = faults + 1
    /\ snap' = 0
    /\ UNCHANGED <<file, torn, receipts, cursor, phase, lost>>

IngestDone == phase = "done" /\ UNCHANGED ingestVars

IngestNext ==
    \/ \E e \in Events : Emit(e)
    \/ EmitTorn
    \/ PollRead
    \/ \E k \in 1 .. Len(file) : CommitChunk(k)
    \/ \E j \in 0 .. Len(file) : RollBackChunk(j)
    \/ BeginFlush
    \/ NothingToRead
    \/ ReaderRestart
    \/ IngestDone

IngestSpec == IngestInit /\ [][IngestNext]_ingestVars

---------------------------------------------------------------------------

(* Events are ingested exactly once and in order: after any rollback, poll *)
(* boundary or restart the receipts are the records before the cursor      *)
(* (ingest_event_records_from_chunk commits both together).                *)
ReceiptsArePrefix == cursor <= Len(file) /\ receipts = SubSeq(file, 1, cursor)

(* The two copies of the grammar agree: whatever the writer's lock-held    *)
(* check in emit let into the file, _validate_incremental_event_order      *)
(* accepts after the records before it, so a stream is never stuck on its  *)
(* order.                                                                  *)
IngestFollowsWriter ==
    \A i \in 1 .. Len(file) : IngestAccepts(SubSeq(file, 1, i - 1), file[i].type)

(* The incremental check is the full replay: after any written stream      *)
(* _validate_incremental_event_order, which looks at the last receipt and  *)
(* a few earlier types, and CanonicalEventReplay.ingest, which keeps flags *)
(* over all events, accept the same events.                                *)
IncrementalIsReplay ==
    \A e \in Events : IngestAccepts(file, e.type) <=> ReplayAccepts(file, e.type)

(* What a flush that met no failure has read is everything that was        *)
(* written: the archive replays what the last tail could not read.         *)
FlushIsComplete == phase = "done" /\ ~lost => receipts = file
=============================================================================
