----------------------------- MODULE EventStream -----------------------------
(***************************************************************************)
(* The lifecycle grammar of one attempt's canonical event stream, as it is *)
(* enforced twice: by the writer in the container                          *)
(* (deploy/worker-entrypoint/harness/events.py, emit, under a file lock)   *)
(* and by the ingest in the scheduler                                      *)
(* (backend/app/core/harness_attempts.py).  An event is a record with a    *)
(* "type" and a flag "sep": its text holds a Unicode line separator, which *)
(* JSON written with ensure_ascii=False leaves as it is.                   *)
(***************************************************************************)
EXTENDS Naturals, Sequences

HarnessTerminals == {"harness.completed", "harness.failed"}

TaskTerminals == {"run.completed", "run.failed"}

Deliveries == {"delivery.started", "delivery.completed", "delivery.failed"}

TypesOf(s) == {s[i].type : i \in DOMAIN s}

LastType(s) == IF s = <<>> THEN "none" ELSE s[Len(s)].type

HarnessEnded(s) == TypesOf(s) \cap HarnessTerminals # {}

(* emit: what the writer lets follow the stream s, decided under the lock  *)
(* from the stream itself.                                                 *)
WriterAcceptsLoosely(s, t) ==
    /\ LastType(s) \notin TaskTerminals
    /\ s = <<>> <=> t = "run.started"
    /\ t \in Deliveries \cup TaskTerminals \cup {"worker.finalization"} => HarnessEnded(s)
    /\ t \in TaskTerminals <=> LastType(s) = "worker.finalization"

WriterAccepts(s, t) ==
    /\ LastType(s) \notin TaskTerminals
    /\ s = <<>> <=> t = "run.started"
    /\ t \in HarnessTerminals => ~HarnessEnded(s)
    /\ t \in Deliveries \cup TaskTerminals \cup {"worker.finalization"} => HarnessEnded(s)
    /\ t \in TaskTerminals <=> LastType(s) = "worker.finalization"

(* _validate_incremental_event_order: what the ingest accepts after the    *)
(* receipts r.  attempt.terminal_event_type is set by the first task       *)
(* terminal; _last_event_type reads the last receipt; _existing_event_types*)
(* looks for earlier boundary events.                                      *)
IngestAccepts(r, t) ==
    /\ TypesOf(r) \cap TaskTerminals = {}
    /\ LastType(r) = "worker.finalization" => t \in TaskTerminals
    /\ r = <<>> <=> t = "run.started"
    /\ t \in HarnessTerminals => ~HarnessEnded(r)
    /\ t \in Deliveries => HarnessEnded(r)
    /\ t = "worker.finalization" =>
          HarnessEnded(r) /\ "worker.finalization" \notin TypesOf(r)
    /\ t \in TaskTerminals =>
          HarnessEnded(r) /\ "worker.finalization" \in TypesOf(r)

(* CanonicalEventReplay.ingest: the same rules over a replay from the      *)
(* start, where started, harness_ended, finalization_seen and              *)
(* terminal_type say what the events r have contained.                     *)
ReplayAccepts(r, t) ==
    LET started == "run.started" \in TypesOf(r)
        finalized == "worker.finalization" \in TypesOf(r)
    IN /\ TypesOf(r) \cap TaskTerminals = {}
       /\ finalized => t \in TaskTerminals
       /\ t = "run.started" => ~started /\ r = <<>>
       /\ t # "run.started" => started
       /\ t \in HarnessTerminals => ~HarnessEnded(r)
       /\ t \in Deliveries \cup {"worker.finalization"} => HarnessEnded(r)
       /\ t = "worker.finalization" => ~finalized
       /\ t \in TaskTerminals => HarnessEnded(r) /\ finalized

(* iter_complete_jsonl_records and decode_event_line: str.splitlines cuts  *)
(* a record at a Unicode line separator, and the fragment that ends in a   *)
(* newline is not JSON.                                                    *)
Decodes(e) == ~e.sep
=============================================================================
