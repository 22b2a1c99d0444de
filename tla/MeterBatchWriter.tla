-------------------------- MODULE MeterBatchWriter --------------------------
(***************************************************************************)
(* The ingestion worker: eachMessage of index.ts pushes every meter_values *)
(* message on the buffer of MeterBatchWriter (batch-writer.ts), which is   *)
(* written to meter_samples in batches, when it is full or on a timer.     *)
(*                                                                         *)
(* One partition, its messages numbered from 1; one worker at a time.  The *)
(* worker is split at its awaits: the insert, and the two of its shutdown. *)
(***************************************************************************)
EXTENDS Integers, Sequences

CONSTANTS
  BatchSize,   \* config.BATCH_SIZE
  MaxRows,     \* bound on the messages produced
  MaxErrors,   \* bound on the inserts that fail
  MaxCrashes   \* bound on the crashes of the worker

ASSUME WriterAssumption ==
  /\ BatchSize \in Nat \ {0}
  /\ {MaxRows, MaxErrors, MaxCrashes} \subseteq Nat

Rows == 1..MaxRows

VARIABLES
  produced,   \* messages in the partition
  pos,        \* messages whose handler is done
  committed,  \* messages committed to Kafka
  base,       \* where this worker started in the partition
  buffer,     \* this.buffer
  batch,      \* the rows of the insert in progress
  flusher,    \* who awaits that insert, "none" when this.flushing is false
  mode,       \* where the process is between its start and its exit
  copies,     \* meter_samples: how many times each message is in the table
  errors, crashes  \* faults used up

kafka == <<produced, committed, base>>
writer == <<buffer, batch, flusher>>
vars == <<produced, pos, committed, base, buffer, batch, flusher, mode, copies, errors, crashes>>

TypeOK ==
  /\ produced \in 0..MaxRows
  /\ base \in 0..pos /\ committed \in 0..pos /\ pos \in 0..produced
  /\ buffer \in Seq(Rows) /\ batch \in Seq(Rows)
  /\ flusher \in {"none", "consumer", "timer", "close"}
  /\ mode \in {"running", "stopping", "closing", "ended"}
  /\ copies \in [Rows -> Nat]
  /\ errors \in 0..MaxErrors
  /\ crashes \in 0..MaxCrashes

Init ==
  /\ produced = 0 /\ pos = 0 /\ committed = 0 /\ base = 0
  /\ buffer = <<>> /\ batch = <<>> /\ flusher = "none"
  /\ mode = "running"
  /\ copies = [i \in Rows |-> 0]
  /\ errors = 0 /\ crashes = 0
-----------------------------------------------------------------------------
(* splice(0, BATCH_SIZE).                                                  *)
Size(b) == IF Len(b) < BatchSize THEN Len(b) ELSE BatchSize

KeepAll(b) == b

Rest(b) == SubSeq(b, Size(b) + 1, Len(b))

(* flush(), by who, on the buffer b; it returns at once when b is empty or   *)
(* another flush is running.                                                 *)
CanFlush(b) == flusher = "none" /\ b # <<>>

StartFlush(b, who) ==
  /\ batch' = SubSeq(b, 1, Size(b))
  /\ buffer' = Rest(b)
  /\ flusher' = who

Produce ==
  /\ produced < MaxRows
  /\ produced' = produced + 1
  /\ UNCHANGED <<pos, committed, base, writer, mode, copies, errors, crashes>>

(* eachMessage: one message at a time, and none while a flush that the       *)
(* handler started is awaited.                                               *)
FlushNow(b) == Len(b) >= BatchSize /\ CanFlush(b)

Consume ==
  LET b == Append(buffer, pos + 1) IN
    /\ mode = "running" /\ flusher # "consumer"
    /\ pos < produced
    /\ IF FlushNow(b)
         THEN StartFlush(b, "consumer") /\ UNCHANGED pos
         ELSE buffer' = b /\ pos' = pos + 1 /\ UNCHANGED <<batch, flusher>>
    /\ UNCHANGED <<kafka, mode, copies, errors, crashes>>

TimerWhenFull == CanFlush(buffer) /\ Len(buffer) >= BatchSize

TimerDue == CanFlush(buffer)

(* The timer is cleared by close().                                        *)
Tick ==
  /\ mode \in {"running", "stopping"}
  /\ TimerDue
  /\ StartFlush(buffer, "timer")
  /\ UNCHANGED <<kafka, pos, mode, copies, errors, crashes>>

AdvanceAlways ==
  /\ flusher # "none" /\ mode # "ended"
  /\ flusher' = "none" /\ batch' = <<>>
  /\ pos' = pos + 1

EndFlush ==
  /\ flusher # "none" /\ mode # "ended"
  /\ flusher' = "none" /\ batch' = <<>>
  /\ pos' = IF flusher = "consumer" THEN pos + 1 ELSE pos

Insert == copies' = [i \in Rows |-> copies[i] + (IF \E n \in 1..Len(batch) : batch[n] = i THEN 1 ELSE 0)]

InsertDone ==
  /\ EndFlush
  /\ Insert
  /\ UNCHANGED <<kafka, buffer, mode, errors, crashes>>

(* The batch goes back to the front, also when the database has stored it    *)
(* and only its answer was lost.                                             *)
RequeueAtEnd == buffer \o batch

Requeue == batch \o buffer

InsertFails ==
  /\ errors < MaxErrors
  /\ errors' = errors + 1
  /\ EndFlush
  /\ buffer' = Requeue
  /\ Insert \/ UNCHANGED copies
  /\ UNCHANGED <<kafka, mode, crashes>>

Commit ==
  /\ mode \in {"running", "stopping"}
  /\ committed < pos
  /\ committed' = pos
  /\ UNCHANGED <<produced, pos, base, writer, mode, copies, errors, crashes>>
-----------------------------------------------------------------------------
(* SIGTERM: consumer.disconnect() waits for the running handler and commits, *)
(* close() clears the timer and flushes once, pool.end() waits for the       *)
(* insert in progress, and the process exits.                                *)
Terminate ==
  /\ mode = "running"
  /\ mode' = "stopping"
  /\ UNCHANGED <<kafka, pos, writer, copies, errors, crashes>>

Disconnect ==
  /\ mode = "stopping" /\ flusher # "consumer"
  /\ mode' = "closing"
  /\ committed' = pos
  /\ IF CanFlush(buffer) THEN StartFlush(buffer, "close") ELSE UNCHANGED writer
  /\ UNCHANGED <<produced, pos, base, copies, errors, crashes>>

Exit ==
  /\ mode = "closing" /\ flusher = "none"
  /\ mode' = "ended"
  /\ UNCHANGED <<kafka, pos, writer, copies, errors, crashes>>

(* An insert in progress may be stored after its client is gone.             *)
Crash ==
  /\ mode # "ended"
  /\ crashes < MaxCrashes
  /\ crashes' = crashes + 1
  /\ mode' = "ended"
  /\ Insert \/ UNCHANGED copies
  /\ UNCHANGED <<kafka, pos, writer, errors>>

Restart ==
  /\ mode = "ended"
  /\ mode' = "running"
  /\ pos' = committed /\ base' = committed
  /\ buffer' = <<>> /\ batch' = <<>> /\ flusher' = "none"
  /\ UNCHANGED <<produced, committed, copies, errors, crashes>>

Next ==
  \/ Produce \/ Consume \/ Tick \/ InsertDone \/ InsertFails \/ Commit
  \/ Terminate \/ Disconnect \/ Exit \/ Crash \/ Restart

Spec == Init /\ [][Next]_vars

(* Kafka delivers, the interval timer fires, and the database answers.       *)
Fairness == WF_vars(Consume) /\ WF_vars(Tick) /\ WF_vars(InsertDone)

LiveSpec == Spec /\ Fairness
-----------------------------------------------------------------------------
(* The messages handed to the writer: those whose handler is done, and the   *)
(* one whose handler awaits a flush.                                         *)
HandedOver == IF flusher = "consumer" THEN pos + 1 ELSE pos

Waiting == batch \o buffer

Stored == {i \in Rows : copies[i] > 0}

(***************************************************************************)
(* While a worker runs it loses nothing and keeps the order of arrival:    *)
(* what is not in the table is in the buffer or in the insert in progress, *)
(* as the run of the newest messages, through failed inserts, flushes that *)
(* find another one running and messages that arrive meanwhile.            *)
(***************************************************************************)
NothingDropped ==
  mode # "ended" =>
    /\ Waiting = [n \in 1..Len(Waiting) |-> HandedOver - Len(Waiting) + n]
    /\ \A i \in base + 1..HandedOver - Len(Waiting) : i \in Stored

Table == INSTANCE MeterTable
           WITH next <- HandedOver - Len(Waiting) + 1, up <- mode # "ended"

(***************************************************************************)
(* The worker fills the table as MeterTable says: every insert, by handler,*)
(* timer or close(), that is answered or not, writes the batch that comes  *)
(* next in the partition, and only a restart goes on elsewhere.            *)
(***************************************************************************)
FillsTableInOrder == Table!Spec

(***************************************************************************)
(* A message is in the table twice only if an insert failed or the worker  *)
(* crashed: there is no ON CONFLICT, each flush takes rows of its own.     *)
(***************************************************************************)
StoredAgainOnlyByFaults == \A i \in Rows : copies[i] <= 1 + errors + crashes

(***************************************************************************)
(* "Graceful shutdown: flush buffer before exit": a worker that was told   *)
(* to stop and had no fault leaves every committed message in the table.   *)
(***************************************************************************)
FlushedBeforeExit ==
  mode = "ended" /\ errors = 0 /\ crashes = 0 => \A i \in 1..committed : i \in Stored

(***************************************************************************)
(* Every message handed to the writer is stored in the end, however few    *)
(* follow it, unless the process is told to stop or dies first.            *)
(***************************************************************************)
HandedOverIsStored ==
  \A i \in Rows :
    (mode = "running" /\ base < i /\ i <= HandedOver) ~> (i \in Stored \/ mode # "running")
=============================================================================
