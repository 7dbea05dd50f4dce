-------------------------- MODULE EventIngestProofs --------------------------
(***************************************************************************)
(* Proofs about the canonical event stream, for every set of events and    *)
(* every bound: the receipts are a prefix of the file, the ingest accepts  *)
(* every stream the writer admits, the incremental check is the full       *)
(* replay, and a flush that did not fail has read the whole file.          *)
(*                                                                         *)
(* The inductive invariant says that each record of the file was admitted  *)
(* by the writer after the records before it (Written).  From it follows   *)
(* the shape of the stream: a task terminal is last, and a finalization is *)
(* last or directly before the task terminal.                              *)
(***************************************************************************)
EXTENDS EventIngest, TLAPS

(* Every record was accepted by emit when it was appended.                 *)
Written == \A i \in 1 .. Len(file) : WriterAccepts(SubSeq(file, 1, i - 1), file[i].type)

IInv ==
    /\ file \in Seq(Events)
    /\ cursor \in Nat /\ snap \in Nat
    /\ cursor <= Len(file) /\ snap <= Len(file)
    /\ receipts = SubSeq(file, 1, cursor)
    /\ phase \in {"polling", "tail", "archive", "done"}
    /\ phase \in {"tail", "archive"} => snap = Len(file)
    /\ phase = "done" /\ ~lost => cursor = Len(file)
    /\ Written

(* A prefix of a stream is not changed by an append.                       *)
LEMMA PrefixOfAppend ==
    ASSUME NEW S, NEW s \in Seq(S), NEW e \in S, NEW i \in 0 .. Len(s)
    PROVE  SubSeq(Append(s, e), 1, i) = SubSeq(s, 1, i)
  OBVIOUS

(* The elements of a prefix.                                               *)
LEMMA PrefixElements ==
    ASSUME NEW S, NEW s \in Seq(S), NEW i \in 0 .. Len(s)
    PROVE  /\ SubSeq(s, 1, i) \in Seq(S)
           /\ Len(SubSeq(s, 1, i)) = i
           /\ DOMAIN SubSeq(s, 1, i) = 1 .. i
           /\ \A j \in 1 .. i : SubSeq(s, 1, i)[j] = s[j]
           /\ SubSeq(s, 1, i) = <<>> <=> i = 0
  OBVIOUS

(* A committed chunk extends the prefix.                                   *)
LEMMA PrefixGrows ==
    ASSUME NEW S, NEW s \in Seq(S), NEW c \in 0 .. Len(s), NEW k \in c .. Len(s)
    PROVE  SubSeq(s, 1, c) \o SubSeq(s, c + 1, k) = SubSeq(s, 1, k)
  OBVIOUS

(* The writer's rule at one place of the file, read as facts about the     *)
(* records: nothing follows a task terminal, and a finalization is         *)
(* followed by a task terminal only.                                       *)
LEMMA ShapeOfWritten ==
    ASSUME file \in Seq(Events), Written
    PROVE  /\ \A i, j \in 1 .. Len(file) : i < j => file[i].type \notin TaskTerminals
           /\ \A i, j \in 1 .. Len(file) :
                 i < j /\ file[i].type = "worker.finalization" =>
                     j = i + 1 /\ file[j].type \in TaskTerminals
           /\ \A i \in 1 .. Len(file) : file[i].type = "run.started" <=> i = 1
  <1>1. \A i \in 1 .. Len(file) : i + 1 \in 1 .. Len(file) =>
            LastType(SubSeq(file, 1, i)) = file[i].type
    BY PrefixElements DEF LastType
  <1>2. \A i \in 1 .. Len(file) : i + 1 \in 1 .. Len(file) =>
            /\ file[i].type \notin TaskTerminals
            /\ file[i].type = "worker.finalization" <=> file[i + 1].type \in TaskTerminals
    <2> SUFFICES ASSUME NEW i \in 1 .. Len(file), i + 1 \in 1 .. Len(file)
                 PROVE  /\ file[i].type \notin TaskTerminals
                        /\ file[i].type = "worker.finalization" <=> file[i + 1].type \in TaskTerminals
      OBVIOUS
    <2>1. WriterAccepts(SubSeq(file, 1, (i + 1) - 1), file[i + 1].type)  BY DEF Written
    <2>2. (i + 1) - 1 = i  OBVIOUS
    <2>3. WriterAccepts(SubSeq(file, 1, i), file[i + 1].type)  BY <2>1, <2>2
    <2> QED BY <2>3, <1>1 DEF WriterAccepts
  <1>3. \A i, j \in 1 .. Len(file) : i < j => file[i].type \notin TaskTerminals
    <2> SUFFICES ASSUME NEW i \in 1 .. Len(file), NEW j \in 1 .. Len(file), i < j
                 PROVE  file[i].type \notin TaskTerminals
      OBVIOUS
    <2>1. i + 1 \in 1 .. Len(file)  OBVIOUS
    <2> QED BY <2>1, <1>2
  <1>4. ASSUME NEW i \in 1 .. Len(file), NEW j \in 1 .. Len(file),
               i < j, file[i].type = "worker.finalization"
        PROVE  j = i + 1 /\ file[j].type \in TaskTerminals
    <2>1. i + 1 \in 1 .. Len(file)  BY <1>4
    <2>2. file[i + 1].type \in TaskTerminals  BY <2>1, <1>2, <1>4
    <2>3. ~(i + 1 < j)  BY <2>1, <2>2, <1>3
    <2> QED BY <2>2, <2>3, <1>4
  <1>5. ASSUME NEW i \in 1 .. Len(file)
        PROVE  file[i].type = "run.started" <=> i = 1
    <2>1. WriterAccepts(SubSeq(file, 1, i - 1), file[i].type)  BY DEF Written
    <2>2. i - 1 \in 0 .. Len(file)  OBVIOUS
    <2>3. SubSeq(file, 1, i - 1) = <<>> <=> i - 1 = 0  BY <2>2, PrefixElements
    <2> QED BY <2>1, <2>3 DEF WriterAccepts
  <1> QED BY <1>3, <1>4, <1>5

(* The types of a prefix are those of its records.                         *)
LEMMA TypesOfPrefix ==
    ASSUME file \in Seq(Events), NEW i \in 0 .. Len(file)
    PROVE  /\ \A t : t \in TypesOf(SubSeq(file, 1, i)) <=> \E j \in 1 .. i : file[j].type = t
           /\ i > 0 => LastType(SubSeq(file, 1, i)) = file[i].type
           /\ SubSeq(file, 1, i) = <<>> <=> i = 0
  <1> DEFINE p == SubSeq(file, 1, i)
  <1>1. DOMAIN p = 1 .. i /\ Len(p) = i /\ (p = <<>> <=> i = 0) /\ \A j \in 1 .. i : p[j] = file[j]
    BY ZenonT(60), PrefixElements
  <1>2. ASSUME NEW t
        PROVE  t \in TypesOf(p) <=> \E j \in 1 .. i : file[j].type = t
    <2>1. t \in TypesOf(p) <=> \E j \in DOMAIN p : p[j].type = t  BY DEF TypesOf
    <2> HIDE DEF p
    <2> QED BY <1>1, <2>1
  <1>3. i > 0 => LastType(p) = file[i].type
    <2> HIDE DEF p
    <2> QED BY <1>1 DEF LastType
  <1> QED BY <1>1, <1>2, <1>3

(* What the writer appended at place i the ingest accepts at place i.      *)
LEMMA WriterImpliesIngest ==
    ASSUME file \in Seq(Events), Written, NEW i \in 1 .. Len(file)
    PROVE  IngestAccepts(SubSeq(file, 1, i - 1), file[i].type)
  <1> DEFINE p == SubSeq(file, 1, i - 1)
             t == file[i].type
  <1>1. WriterAccepts(p, t)  BY DEF Written
  <1>2. /\ \A u : u \in TypesOf(p) <=> \E j \in 1 .. i - 1 : file[j].type = u
        /\ i - 1 > 0 => LastType(p) = file[i - 1].type
        /\ p = <<>> <=> i - 1 = 0
    <2>1. i - 1 \in 0 .. Len(file)  OBVIOUS
    <2> QED BY <2>1, TypesOfPrefix
  <1>3. \A j \in 1 .. i - 1 : j \in 1 .. Len(file) /\ j < i  OBVIOUS
  <1>4. TypesOf(p) \cap TaskTerminals = {}
    <2>1. \A j \in 1 .. i - 1 : file[j].type \notin TaskTerminals
      BY Zenon, <1>3, ShapeOfWritten
    <2> QED BY <1>2, <2>1
  <1>5. t = "worker.finalization" => "worker.finalization" \notin TypesOf(p)
    <2>1. \A j \in 1 .. i - 1 : file[j].type = "worker.finalization" => t \in TaskTerminals
      BY Zenon, <1>3, ShapeOfWritten
    <2>2. "worker.finalization" \notin TaskTerminals  BY DEF TaskTerminals
    <2> QED BY <1>2, <2>1, <2>2
  <1>6. t \in TaskTerminals => "worker.finalization" \in TypesOf(p)
    <2> SUFFICES ASSUME t \in TaskTerminals PROVE "worker.finalization" \in TypesOf(p)
      OBVIOUS
    <2>1. LastType(p) = "worker.finalization"  BY <1>1 DEF WriterAccepts
    <2>2. p # <<>>
      <3>1. "none" # "worker.finalization"  OBVIOUS
      <3> QED BY <2>1, <3>1 DEF LastType
    <2>3. i - 1 \in 1 .. i - 1  BY <2>2, <1>2
    <2>4. file[i - 1].type = "worker.finalization"  BY <2>1, <2>3, <1>2
    <2> QED BY <2>3, <2>4, <1>2
  <1> QED BY <1>1, <1>4, <1>5, <1>6 DEF WriterAccepts, IngestAccepts

(* The two checks of the scheduler agree after a written stream.           *)
LEMMA IngestIsReplay ==
    ASSUME file \in Seq(Events), Written, NEW t
    PROVE  IngestAccepts(file, t) <=> ReplayAccepts(file, t)
  <1>1. DOMAIN file = 1 .. Len(file) /\ (file = <<>> <=> Len(file) = 0) /\ Len(file) \in Nat
    OBVIOUS
  <1>2. \A u : u \in TypesOf(file) <=> \E j \in 1 .. Len(file) : file[j].type = u
    BY Zenon, <1>1 DEF TypesOf
  <1>3. "run.started" \in TypesOf(file) <=> file # <<>>
    <2>1. Len(file) > 0 => 1 \in 1 .. Len(file)  BY <1>1
    <2> QED BY <1>1, <1>2, <2>1, ShapeOfWritten
  <1>4. TypesOf(file) \cap TaskTerminals = {} =>
            ("worker.finalization" \in TypesOf(file) <=> LastType(file) = "worker.finalization")
    <2> SUFFICES ASSUME TypesOf(file) \cap TaskTerminals = {}
                 PROVE  "worker.finalization" \in TypesOf(file) <=> LastType(file) = "worker.finalization"
      OBVIOUS
    <2>1. ASSUME NEW j \in 1 .. Len(file), file[j].type = "worker.finalization"
          PROVE  j = Len(file)
      <3>1. ASSUME j # Len(file) PROVE FALSE
        <4>0. Len(file) \in Nat /\ j \in 1 .. Len(file)  BY <1>1
        <4>1. j + 1 \in 1 .. Len(file) /\ j < j + 1  BY <3>1, <4>0
        <4>2. file[j + 1].type \in TaskTerminals  BY <4>1, <2>1, ShapeOfWritten
        <4> QED BY <4>1, <4>2, <1>2
      <3> QED BY <3>1
    <2>2. LastType(file) = "worker.finalization" => "worker.finalization" \in TypesOf(file)
      <3>1. file = <<>> => LastType(file) = "none"  BY DEF LastType
      <3>2. file # <<>> => Len(file) \in 1 .. Len(file) /\ LastType(file) = file[Len(file)].type
        BY <1>1 DEF LastType
      <3> QED BY <3>1, <3>2, <1>2
    <2>3. "worker.finalization" \in TypesOf(file) => LastType(file) = "worker.finalization"
      <3> SUFFICES ASSUME "worker.finalization" \in TypesOf(file)
                   PROVE  LastType(file) = "worker.finalization"
        OBVIOUS
      <3>1. PICK j \in 1 .. Len(file) : file[j].type = "worker.finalization"  BY <1>2
      <3>2. j = Len(file)  BY <2>1, <3>1
      <3>3. file # <<>>  BY <1>1
      <3> QED BY <3>1, <3>2, <3>3 DEF LastType
    <2> QED BY <2>2, <2>3
  <1> QED BY <1>3, <1>4 DEF IngestAccepts, ReplayAccepts

(* An empty file that nobody has read satisfies the inductive invariant.   *)
LEMMA IngestInitInv == IngestInit => IInv
  <1> SUFFICES ASSUME IngestInit PROVE IInv
    OBVIOUS
  <1>1. file = <<>> /\ Len(file) = 0 /\ cursor = 0 /\ snap = 0 /\ receipts = <<>>
    BY Zenon DEF IngestInit
  <1>2. receipts = SubSeq(file, 1, cursor)  BY <1>1
  <1> QED BY <1>1, <1>2 DEF IngestInit, IInv, Written

(* One append keeps what was admitted before it.                           *)
LEMMA EmitInv ==
    ASSUME IInv, NEW e \in Events, Emit(e)
    PROVE  IInv'
  <1> USE DEF IInv
  <1>1. /\ file' = Append(file, e) /\ WriterAccepts(file, e.type)
        /\ UNCHANGED readVars /\ phase = "polling"
    BY Zenon DEF Emit
  <1>2. /\ file' \in Seq(Events) /\ Len(file') = Len(file) + 1 /\ Len(file) \in Nat
        /\ file'[Len(file) + 1] = e
        /\ \A i \in 1 .. Len(file) : file'[i] = file[i]
    BY <1>1
  <1>3. \A i \in 0 .. Len(file) : SubSeq(file', 1, i) = SubSeq(file, 1, i)
    BY Zenon, <1>1, PrefixOfAppend
  <1>4. SubSeq(file, 1, Len(file)) = file  OBVIOUS
  <1>5. Written'
    <2> SUFFICES ASSUME NEW i \in 1 .. Len(file')
                 PROVE  WriterAccepts(SubSeq(file', 1, i - 1), file'[i].type)
      BY Zenon DEF Written
    <2>1. i - 1 \in 0 .. Len(file)  BY <1>2
    <2>2. SubSeq(file', 1, i - 1) = SubSeq(file, 1, i - 1)  BY <1>3, <2>1
    <2>3. CASE i = Len(file) + 1
      <3>1. i - 1 = Len(file)  BY <2>3, <1>2
      <3>2. SubSeq(file', 1, i - 1) = file  BY <3>1, <2>2, <1>4
      <3> QED BY <3>2, <2>3, <1>1, <1>2
    <2>4. CASE i \in 1 .. Len(file)
      BY Zenon, <2>2, <2>4, <1>2 DEF Written
    <2> QED BY <2>3, <2>4, <1>2
  <1>6. receipts' = SubSeq(file', 1, cursor')
    <2>1. cursor \in 0 .. Len(file)  OBVIOUS
    <2> QED BY <1>1, <1>3, <2>1 DEF readVars
  <1>7. cursor' <= Len(file') /\ snap' <= Len(file') /\ cursor' \in Nat /\ snap' \in Nat
    BY <1>1, <1>2 DEF readVars
  <1>8. phase' = "polling"  BY <1>1 DEF readVars
  <1> QED BY <1>2, <1>5, <1>6, <1>7, <1>8

(* A committed chunk (ingest of one poll) keeps the inductive invariant.   *)
LEMMA CommitInv ==
    ASSUME IInv, NEW k \in 1 .. Len(file), CommitChunk(k)
    PROVE  IInv'
  <1> USE DEF IInv
  <1>1. /\ k \in cursor + 1 .. snap /\ UNCHANGED <<file, lost>> /\ cursor' = k
        /\ receipts' = receipts \o SubSeq(file, cursor + 1, k)
        /\ snap' = (IF k = snap /\ phase # "tail" THEN 0 ELSE snap)
        /\ phase' = NextPhase /\ ChunkEndsAt(k)
    BY Zenon DEF CommitChunk
  <1>2. receipts' = SubSeq(file, 1, k)
    <2>1. cursor \in 0 .. Len(file) /\ k \in cursor .. Len(file)  BY <1>1
    <2> QED BY <1>1, <2>1, PrefixGrows
  <1>3. Written'  BY <1>1 DEF Written
  <1>4. /\ phase' \in {"polling", "tail", "archive", "done"}
        /\ phase' = "archive" <=> phase = "tail"
        /\ phase' # "tail"
        /\ phase' = "done" => phase \in {"archive", "done"}
    BY Zenon, <1>1 DEF NextPhase
  <1>5. phase' = "archive" => snap' = Len(file')
    BY Zenon, <1>1, <1>4
  <1>6. phase' = "done" /\ ~lost' => cursor' = Len(file')
    <2> SUFFICES ASSUME phase' = "done", ~lost' PROVE cursor' = Len(file')
      OBVIOUS
    <2>1. CASE phase = "archive"
      <3>1. k = snap  BY <2>1, <1>1 DEF ChunkEndsAt
      <3> QED BY <3>1, <2>1, <1>1
    <2>2. CASE phase = "done"
      <3>1. cursor = Len(file)  BY <2>2, <1>1
      <3> QED BY <3>1, <1>1
    <2> QED BY <2>1, <2>2, <1>4
  <1>7. cursor' \in Nat /\ snap' \in Nat /\ cursor' <= Len(file') /\ snap' <= Len(file')
    BY <1>1
  <1> QED BY <1>1, <1>2, <1>3, <1>4, <1>5, <1>6, <1>7

(* The other steps leave the file, the receipts and the cursor alone.      *)
LEMMA OtherReaderInv ==
    ASSUME IInv,
           \/ EmitTorn \/ PollRead \/ BeginFlush \/ NothingToRead \/ ReaderRestart
           \/ IngestDone \/ UNCHANGED ingestVars
           \/ \E j \in 0 .. Len(file) : RollBackChunk(j)
    PROVE  IInv'
  <1> USE DEF IInv
  <1>1. UNCHANGED <<file, receipts, cursor>>
    BY Zenon DEF EmitTorn, PollRead, BeginFlush, NothingToRead, ReaderRestart, IngestDone,
           RollBackChunk, ingestVars, readVars
  <1>2. Written'  BY <1>1 DEF Written
  <1>3. Len(file) \in Nat  OBVIOUS
  <1>4. CASE EmitTorn \/ IngestDone \/ UNCHANGED ingestVars
    BY Zenon, <1>1, <1>2, <1>3, <1>4 DEF EmitTorn, IngestDone, ingestVars, readVars
  <1>5. CASE PollRead \/ BeginFlush \/ ReaderRestart
    BY <1>1, <1>2, <1>3, <1>5 DEF PollRead, BeginFlush, ReaderRestart
  <1>6. CASE NothingToRead
    BY <1>1, <1>2, <1>3, <1>6 DEF NothingToRead, NextPhase
  <1>7. CASE \E j \in 0 .. Len(file) : RollBackChunk(j)
    <2>1. PICK j \in 0 .. Len(file) : RollBackChunk(j)  BY <1>7
    <2>2. /\ snap > cursor /\ phase' = NextPhase
          /\ snap' = (IF phase = "tail" THEN snap ELSE 0)
          /\ lost' = (lost \/ phase = "archive")
      BY Zenon, <2>1 DEF RollBackChunk
    <2>3. phase = "done" => lost
      BY <2>2
    <2>4. phase = "archive" => lost'  BY <2>2
    <2>5. phase = "done" => lost'  BY <2>2, <2>3
    <2>6. /\ phase' = "done" => phase \in {"archive", "done"}
          /\ phase' = "archive" => phase = "tail"
          /\ phase' \in {"polling", "archive", "done"}
      BY Zenon, <2>2 DEF NextPhase
    <2>7. snap' \in Nat /\ snap' <= Len(file) /\ (phase = "tail" => snap' = Len(file))
      BY <1>3, <2>2
    <2> QED BY <1>1, <1>2, <1>3, <2>4, <2>5, <2>6, <2>7
  <1> QED BY <1>4, <1>5, <1>6, <1>7

(* The invariant holds in every reachable state.                           *)
THEOREM IngestInvariant == IngestSpec => []IInv
  <1>1. IInv /\ [IngestNext]_ingestVars => IInv'
    BY Zenon, EmitInv, CommitInv, OtherReaderInv DEF IngestNext
  <1> QED BY IngestInitInv, <1>1, PTL DEF IngestSpec

(* Every event is ingested exactly once and in order, whatever rollbacks,  *)
(* poll boundaries and restarts happen (ingest_event_records_from_chunk).  *)
THEOREM ExactlyOnce == IngestSpec => []ReceiptsArePrefix
  <1>1. IInv => ReceiptsArePrefix  BY DEF IInv, ReceiptsArePrefix
  <1> QED BY IngestInvariant, <1>1, PTL

(* The ingest never rejects the order of what emit let into the file.      *)
THEOREM GrammarsAgree == IngestSpec => []IngestFollowsWriter
  <1>1. IInv => IngestFollowsWriter
    BY Zenon, WriterImpliesIngest DEF IInv, IngestFollowsWriter
  <1> QED BY IngestInvariant, <1>1, PTL

(* _validate_incremental_event_order is CanonicalEventReplay.ingest.       *)
THEOREM IncrementalCheckIsReplay == IngestSpec => []IncrementalIsReplay
  <1>1. IInv => IncrementalIsReplay
    BY Zenon, IngestIsReplay DEF IInv, IncrementalIsReplay
  <1> QED BY IngestInvariant, <1>1, PTL

(* flush_task_artifacts has read the whole file unless its last read,      *)
(* the archive's, failed.                                                  *)
THEOREM FlushReadsAll == IngestSpec => []FlushIsComplete
  <1>1. IInv => FlushIsComplete
    <2> SUFFICES ASSUME IInv, phase = "done", ~lost PROVE receipts = file
      BY Zenon DEF FlushIsComplete
    <2>1. SubSeq(file, 1, Len(file)) = file  BY DEF IInv
    <2> QED BY <2>1 DEF IInv
  <1> QED BY IngestInvariant, <1>1, PTL
=============================================================================
