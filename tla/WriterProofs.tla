---------------------------- MODULE WriterProofs ----------------------------
(***************************************************************************)
(* Proofs about MeterBatchWriter, for every batch size and any number of   *)
(* messages, failing inserts, crashes and restarts.                        *)
(***************************************************************************)
EXTENDS MeterBatchWriter, SequenceTheorems, TLAPS

(* The newest message that has left the writer: those after it are in the  *)
(* insert in progress or in the buffer, in the order of their arrival.     *)
Written == HandedOver - Len(batch) - Len(buffer)

(* While a worker runs.  The buffer and the batch are runs of the newest   *)
(* messages; there is a batch only while somebody awaits its insert, and   *)
(* the handler that awaits one has a message that is not counted in pos.   *)
Contiguous ==
  /\ \A n \in 1..Len(batch) : batch[n] = Written + n
  /\ \A n \in 1..Len(buffer) : buffer[n] = Written + Len(batch) + n
  /\ \A i \in base + 1..Written : copies[i] > 0

HandlerCounted ==
  /\ flusher = "none" => batch = <<>>
  /\ flusher = "consumer" => pos < produced
  /\ mode = "closing" => flusher # "consumer" /\ committed = pos

(* What is still to be written has been stored by faults only; the others  *)
(* once more.  After a clean exit the successor starts behind what was     *)
(* written, after a crash there is a fault more.                           *)
StoredOnce ==
  /\ StoredAgainOnlyByFaults
  /\ mode # "ended" => \A i \in Rows : i > Written => copies[i] <= errors + crashes
  /\ mode = "ended" => \A i \in Rows : i > committed => copies[i] <= errors + crashes

WriterInv ==
  /\ TypeOK
  /\ StoredOnce
  /\ mode # "ended" => Contiguous /\ HandlerCounted
-----------------------------------------------------------------------------
(* What the operators of the model return.                                 *)

(* flush() splits the buffer and keeps the order.                          *)
LEMMA Flushed ==
  ASSUME NEW b \in Seq(Rows), NEW who, StartFlush(b, who)
  PROVE  /\ batch' \in Seq(Rows) /\ buffer' \in Seq(Rows)
         /\ Len(batch') + Len(buffer') = Len(b)
         /\ \A n \in 1..Len(batch') : batch'[n] = b[n]
         /\ \A n \in 1..Len(buffer') : buffer'[n] = b[Len(batch') + n]
<1>1. Len(b) \in Nat /\ Size(b) \in 0..Len(b)
  BY WriterAssumption, LenProperties DEF Size
<1>2. \A n \in 1..Len(b) : b[n] \in Rows
  BY ElementOfSeq
<1>3. /\ batch' \in Seq(Rows) /\ Len(batch') = Size(b)
      /\ \A n \in 1..Size(b) : batch'[n] = b[n]
  <2>1. batch' = SubSeq(b, 1, Size(b)) /\ \A n \in 1..Size(b) : b[n] \in Rows
    BY <1>1, <1>2 DEF StartFlush
  <2> QED BY <1>1, <2>1, SubSeqProperties
<1>4. /\ buffer' \in Seq(Rows) /\ Len(buffer') = Len(b) - Size(b)
      /\ \A n \in 1..Len(b) - Size(b) : buffer'[n] = b[Size(b) + n]
  <2>1. /\ buffer' = SubSeq(b, Size(b) + 1, Len(b))
        /\ \A n \in Size(b) + 1..Len(b) : b[n] \in Rows
    BY <1>1, <1>2 DEF StartFlush, Rest
  <2>2. Size(b) + 1 \in Int /\ Len(b) \in Int
    BY <1>1
  <2>3. /\ buffer' \in Seq(Rows)
        /\ Len(buffer') = IF Size(b) + 1 <= Len(b) THEN Len(b) - (Size(b) + 1) + 1 ELSE 0
        /\ \A n \in 1..Len(b) - (Size(b) + 1) + 1 : buffer'[n] = b[Size(b) + 1 + n - 1]
    BY <2>1, <2>2, SubSeqProperties
  <2> QED BY <1>1, <2>3
<1> QED BY <1>1, <1>3, <1>4

(* An insert adds one to the rows of the batch.                            *)
LEMMA Inserted ==
  ASSUME TypeOK, Insert
  PROVE  /\ copies' \in [Rows -> Nat]
         /\ \A i \in Rows : copies[i] <= copies'[i] /\ copies'[i] <= copies[i] + 1
         /\ \A n \in 1..Len(batch) : copies'[batch[n]] > 0
         /\ \A i \in Rows : copies'[i] # copies[i] => \E n \in 1..Len(batch) : batch[n] = i
<1>1. copies \in [Rows -> Nat] /\ batch \in Seq(Rows)
  BY DEF TypeOK
<1>2. \A n \in 1..Len(batch) : batch[n] \in Rows
  BY <1>1, ElementOfSeq
<1> QED BY <1>1, <1>2 DEF Insert

LEMMA Counters ==
  ASSUME TypeOK
  PROVE  /\ Len(batch) \in Nat /\ Len(buffer) \in Nat
         /\ pos \in Nat /\ base \in Nat /\ committed \in Nat /\ produced \in Nat
         /\ HandedOver \in Nat /\ Written \in Int
BY LenProperties DEF TypeOK, HandedOver, Written

-----------------------------------------------------------------------------
(* The type invariant, step by step.                                       *)
LEMMA WriterTyped ==
  ASSUME WriterInv, [Next]_vars
  PROVE  TypeOK'
<1>0. /\ TypeOK /\ {MaxRows, MaxErrors, MaxCrashes} \subseteq Nat
      /\ buffer \in Seq(Rows) /\ batch \in Seq(Rows)
      /\ produced \in Nat /\ pos \in Nat
      /\ mode # "ended" => (flusher = "consumer" => pos < produced)
  BY WriterAssumption, Counters DEF WriterInv, TypeOK, HandlerCounted
<1>1. CASE Produce
  BY <1>0, <1>1 DEF Produce, TypeOK, writer
<1>2. CASE Consume
  <2> DEFINE b == Append(buffer, pos + 1)
  <2>1. pos + 1 \in Rows
    BY <1>0, <1>2 DEF Consume, TypeOK, Rows
  <2>2. b \in Seq(Rows)
    BY <1>0, <2>1, AppendProperties
  <2>3. CASE FlushNow(b)
    <3>1. StartFlush(b, "consumer") /\ UNCHANGED <<pos, kafka, mode, copies, errors, crashes>>
      BY <1>2, <2>3 DEF Consume
    <3>2. batch' \in Seq(Rows) /\ buffer' \in Seq(Rows)
      BY <2>2, <3>1, Flushed
    <3> QED BY <1>0, <3>1, <3>2 DEF StartFlush, TypeOK, kafka
  <2>4. CASE ~FlushNow(b)
    <3>1. buffer' = b /\ pos' = pos + 1 /\ UNCHANGED <<batch, flusher, kafka, mode, copies, errors, crashes>>
      BY <1>2, <2>4 DEF Consume
    <3>2. pos < produced
      BY <1>2 DEF Consume
    <3> HIDE DEF b
    <3> QED BY <1>0, <2>2, <3>1, <3>2 DEF TypeOK, kafka
  <2> QED BY <2>3, <2>4
<1>3. CASE Tick
  <2>1. batch' \in Seq(Rows) /\ buffer' \in Seq(Rows)
    BY <1>0, <1>3, Flushed DEF Tick
  <2> QED BY <1>0, <1>3, <2>1 DEF Tick, StartFlush, TypeOK, kafka
<1>4. ASSUME EndFlush, produced' = produced, UNCHANGED <<base, committed>>
      PROVE  pos' \in 0..produced' /\ base' \in 0..pos' /\ committed' \in 0..pos'
             /\ batch' \in Seq(Rows)
  BY <1>0, <1>4 DEF EndFlush, TypeOK
<1>5. CASE InsertDone
  BY <1>0, <1>4, <1>5, Inserted DEF InsertDone, EndFlush, TypeOK, kafka
<1>6. CASE InsertFails
  <2>1. copies' \in [Rows -> Nat]
    BY <1>0, <1>6, Inserted DEF InsertFails, TypeOK
  <2>2. buffer' \in Seq(Rows)
    BY <1>0, <1>6, ConcatProperties DEF InsertFails, Requeue
  <2>3. errors' \in 0..MaxErrors
    BY <1>0, <1>6 DEF InsertFails, TypeOK
  <2> QED BY <1>0, <1>4, <1>6, <2>1, <2>2, <2>3 DEF InsertFails, EndFlush, TypeOK, kafka
<1>7. CASE Commit \/ Terminate \/ Exit
  BY <1>0, <1>7 DEF Commit, Terminate, Exit, TypeOK, writer, kafka
<1>8. CASE Disconnect
  <2>1. CASE CanFlush(buffer)
    <3>1. StartFlush(buffer, "close")
      BY <1>8, <2>1 DEF Disconnect
    <3>2. batch' \in Seq(Rows) /\ buffer' \in Seq(Rows)
      BY <1>0, <3>1, Flushed
    <3> QED BY <1>0, <1>8, <3>1, <3>2 DEF Disconnect, StartFlush, TypeOK
  <2>2. CASE ~CanFlush(buffer)
    BY <1>0, <1>8, <2>2 DEF Disconnect, TypeOK, writer
  <2> QED BY <2>1, <2>2
<1>9. CASE Crash
  <2>1. copies' \in [Rows -> Nat]
    BY <1>0, <1>9, Inserted DEF Crash, TypeOK
  <2>2. crashes' \in 0..MaxCrashes
    BY <1>0, <1>9 DEF Crash, TypeOK
  <2> QED BY <1>0, <1>9, <2>1, <2>2 DEF Crash, TypeOK, writer, kafka
<1>10. CASE Restart
  <2>1. <<>> \in Seq(Rows)
    BY EmptySeq
  <2> QED BY <1>0, <1>10, <2>1 DEF Restart, TypeOK
<1>11. CASE UNCHANGED vars
  BY <1>0, <1>11 DEF vars, TypeOK
<1> QED BY <1>1, <1>2, <1>3, <1>5, <1>6, <1>7, <1>8, <1>9, <1>10, <1>11 DEF Next

-----------------------------------------------------------------------------
(* A flush that finds the buffer b contiguous leaves batch and buffer so.  *)
LEMMA FlushContiguous ==
  ASSUME NEW b \in Seq(Rows), NEW who, StartFlush(b, who), NEW w \in Int,
         HandedOver' - Len(b) = w, HandedOver' \in Int,
         \A n \in 1..Len(b) : b[n] = w + n
  PROVE  /\ Written' = w
         /\ \A n \in 1..Len(batch') : batch'[n] = Written' + n
         /\ \A n \in 1..Len(buffer') : buffer'[n] = Written' + Len(batch') + n
<1>1. /\ Len(batch') \in Nat /\ Len(buffer') \in Nat
      /\ Len(batch') + Len(buffer') = Len(b)
      /\ \A n \in 1..Len(batch') : batch'[n] = b[n]
      /\ \A n \in 1..Len(buffer') : buffer'[n] = b[Len(batch') + n]
  BY Flushed, LenProperties
<1>2. Written' = w
  BY <1>1 DEF Written, HandedOver
<1>3. \A n \in 1..Len(buffer') : Len(batch') + n \in 1..Len(b)
  BY <1>1
<1>4. \A n \in 1..Len(buffer') : buffer'[n] = w + (Len(batch') + n)
  BY <1>1, <1>3
<1>5. \A n \in 1..Len(batch') : batch'[n] = w + n
  BY <1>1
<1> QED BY <1>1, <1>2, <1>4, <1>5

(* What a worker has not lost it does not lose in a step.                  *)
LEMMA WriterContiguous ==
  ASSUME WriterInv, TypeOK', [Next]_vars, mode' # "ended"
  PROVE  Contiguous' /\ HandlerCounted'
<1>0. /\ TypeOK /\ buffer \in Seq(Rows) /\ batch \in Seq(Rows)
      /\ Len(batch) \in Nat /\ Len(buffer) \in Nat
      /\ produced \in Nat /\ pos \in Nat /\ base \in Nat /\ HandedOver \in Nat
      /\ Written \in Int
      /\ mode # "ended" => Contiguous /\ HandlerCounted
  BY Counters DEF WriterInv, TypeOK
<1>e. Len(<<>>) = 0
  BY EmptySeq
<1>1. CASE Produce \/ Commit \/ Terminate \/ Exit \/ UNCHANGED vars
  <2>1. UNCHANGED <<pos, base, buffer, batch, flusher, copies>> /\ produced <= produced'
    BY <1>0, <1>1 DEF Produce, Commit, Terminate, Exit, vars, writer, kafka
  <2>2. mode # "ended" /\ (mode' = "closing" => mode = "closing" /\ committed' = committed)
    BY <1>1 DEF Produce, Commit, Terminate, Exit, vars, writer, kafka
  <2>3. produced' \in Nat
    BY DEF TypeOK
  <2> QED BY <1>0, <2>1, <2>2, <2>3 DEF Contiguous, HandlerCounted, Written, HandedOver
<1>2. CASE Consume
  <2> DEFINE b == Append(buffer, pos + 1)
  <2>0. mode = "running" /\ mode' = mode /\ flusher # "consumer" /\ pos < produced
        /\ UNCHANGED <<base, copies, produced>>
    BY <1>2 DEF Consume, kafka
  <2>1. pos + 1 \in Rows /\ HandedOver = pos
    BY <1>0, <2>0, WriterAssumption DEF TypeOK, Rows, HandedOver
  <2>2. /\ b \in Seq(Rows) /\ Len(b) = Len(buffer) + 1
        /\ \A n \in 1..Len(buffer) : b[n] = buffer[n]
        /\ b[Len(buffer) + 1] = pos + 1
    BY <1>0, <2>1, AppendProperties
  <2>3. \A n \in 1..Len(b) : b[n] = Written + Len(batch) + n
    <3> HIDE DEF b
    <3>1. \A n \in 1..Len(b) : n \in 1..Len(buffer) \/ n = Len(buffer) + 1
      BY <1>0, <2>2
    <3>2. Written + Len(batch) + (Len(buffer) + 1) = pos + 1
      BY <1>0, <2>1 DEF Written
    <3>3. \A n \in 1..Len(buffer) : buffer[n] = Written + Len(batch) + n
      BY <1>0, <2>0 DEF Contiguous
    <3> QED BY <2>2, <3>1, <3>2, <3>3
  <2>4. CASE FlushNow(b)
    <3>1. StartFlush(b, "consumer") /\ UNCHANGED pos /\ flusher = "none"
      BY <1>2, <2>4 DEF Consume, FlushNow, CanFlush
    <3>2. batch = <<>> /\ HandedOver' = pos + 1
      BY <1>0, <2>0, <3>1 DEF HandlerCounted, StartFlush, HandedOver
    <3>3. HandedOver' - Len(b) = Written
      BY <1>0, <1>e, <2>1, <2>2, <3>2 DEF Written
    <3>4. \A n \in 1..Len(b) : b[n] = Written + n
      BY <1>0, <1>e, <2>3, <3>2
    <3>5. /\ Written' = Written
          /\ \A n \in 1..Len(batch') : batch'[n] = Written' + n
          /\ \A n \in 1..Len(buffer') : buffer'[n] = Written' + Len(batch') + n
      <4>1. HandedOver' \in Int /\ Written \in Int
        BY <1>0, <3>2
      <4> HIDE DEF b
      <4> QED BY <2>2, <3>1, <3>3, <3>4, <4>1, FlushContiguous
    <3>6. HandlerCounted'
      BY <2>0, <3>1 DEF HandlerCounted, StartFlush
    <3> QED BY <1>0, <2>0, <3>5, <3>6 DEF Contiguous
  <2>5. CASE ~FlushNow(b)
    <3>1. buffer' = b /\ pos' = pos + 1 /\ UNCHANGED <<batch, flusher>>
      BY <1>2, <2>5 DEF Consume
    <3> HIDE DEF b
    <3>2. HandedOver' = pos + 1 /\ Written' = Written
      BY <1>0, <2>0, <2>1, <2>2, <3>1 DEF HandedOver, Written
    <3> QED BY <1>0, <2>0, <2>3, <3>1, <3>2 DEF Contiguous, HandlerCounted
  <2> QED BY <2>4, <2>5
<1>3. ASSUME mode # "ended", CanFlush(buffer), NEW who \in {"timer", "close"},
             StartFlush(buffer, who), UNCHANGED <<pos, base, copies>>
      PROVE  Contiguous'
  <2>1. batch = <<>> /\ HandedOver' = HandedOver /\ flusher = "none"
    BY <1>0, <1>3 DEF HandlerCounted, CanFlush, StartFlush, HandedOver
  <2>2. HandedOver' - Len(buffer) = Written
    BY <1>0, <1>e, <2>1 DEF Written
  <2>3. \A n \in 1..Len(buffer) : buffer[n] = Written + n
    BY <1>0, <1>3, <1>e, <2>1 DEF Contiguous
  <2>4. /\ Written' = Written
        /\ \A n \in 1..Len(batch') : batch'[n] = Written' + n
        /\ \A n \in 1..Len(buffer') : buffer'[n] = Written' + Len(batch') + n
    <3>1. HandedOver' \in Int /\ Written \in Int
      BY <1>0, <2>1
    <3> QED BY <1>0, <1>3, <2>2, <2>3, <3>1, FlushContiguous
  <2> QED BY <1>0, <1>3, <2>4 DEF Contiguous
<1>w. mode # "ended" => Written <= MaxRows
  <2>1. MaxRows \in Nat /\ produced <= MaxRows /\ pos <= produced
    BY <1>0, WriterAssumption DEF TypeOK
  <2>2. mode # "ended" => HandedOver <= MaxRows
    BY <1>0, <2>1 DEF HandedOver, HandlerCounted
  <2> QED BY <1>0, <2>1, <2>2 DEF Written
<1>4. CASE Tick
  BY <1>0, <1>3, <1>4 DEF Tick, TimerDue, StartFlush, HandlerCounted, kafka
<1>5. CASE Disconnect
  <2>1. CASE CanFlush(buffer)
    BY <1>3, <1>5, <2>1 DEF Disconnect, StartFlush, HandlerCounted
  <2>2. CASE ~CanFlush(buffer)
    BY <1>0, <1>5, <2>2 DEF Disconnect, writer, HandlerCounted, Contiguous, Written, HandedOver
  <2> QED BY <2>1, <2>2
<1>6. ASSUME EndFlush
      PROVE  /\ HandedOver' = HandedOver /\ Len(batch') = 0 /\ mode # "ended"
             /\ batch' = <<>> /\ flusher' = "none"
             /\ mode = "closing" => pos' = pos
  BY <1>0, <1>6, <1>e DEF EndFlush, HandedOver, HandlerCounted
<1>7. CASE InsertDone
  <2>1. EndFlush /\ Insert /\ UNCHANGED <<produced, committed, base, buffer, mode>>
    BY <1>7 DEF InsertDone, kafka
  <2>2. Written' = Written + Len(batch)
    BY <1>0, <1>6, <2>1 DEF Written
  <2>3. \A n \in 1..Len(buffer') : buffer'[n] = Written' + Len(batch') + n
    BY <1>0, <1>6, <2>1, <2>2 DEF Contiguous
  <2>4. \A i \in base' + 1..Written' : copies'[i] > 0
    <3> TAKE i \in base' + 1..Written'
    <3>1. Contiguous
      BY <1>0, <1>6, <2>1
    <3>2. CASE i <= Written
      <4>1. i \in base + 1..Written /\ i \in Rows
        BY <1>0, <1>6, <1>w, <2>1, <3>2, WriterAssumption DEF Rows
      <4>2. copies[i] > 0 /\ copies[i] <= copies'[i] /\ copies[i] \in Nat /\ copies'[i] \in Nat
        BY <1>0, <2>1, <3>1, <4>1, Inserted DEF Contiguous, TypeOK
      <4> QED BY <4>2
    <3>3. CASE i > Written
      <4>1. i - Written \in 1..Len(batch) /\ batch[i - Written] = i
        BY <1>0, <2>1, <2>2, <3>1, <3>3 DEF Contiguous
      <4> QED BY <1>0, <2>1, <4>1, Inserted
    <3> QED BY <1>0, <2>1, <3>2, <3>3
  <2>5. HandlerCounted'
    BY <1>0, <1>6, <2>1 DEF HandlerCounted
  <2> QED BY <1>6, <2>1, <2>3, <2>4, <2>5 DEF Contiguous
<1>8. CASE InsertFails
  <2>1. EndFlush /\ buffer' = batch \o buffer
        /\ UNCHANGED <<produced, committed, base, mode>>
    BY <1>8 DEF InsertFails, Requeue, kafka
  <2>2. /\ Len(buffer') = Len(batch) + Len(buffer)
        /\ \A n \in 1..Len(buffer') :
             buffer'[n] = IF n <= Len(batch) THEN batch[n] ELSE buffer[n - Len(batch)]
    BY <1>0, <2>1, ConcatProperties
  <2>3. Written' = Written
    BY <1>0, <1>6, <2>1, <2>2 DEF Written
  <2>4. \A n \in 1..Len(buffer') : buffer'[n] = Written' + Len(batch') + n
    BY <1>0, <1>6, <2>1, <2>2, <2>3 DEF Contiguous
  <2>5. \A i \in base + 1..Written : copies'[i] > 0
    <3> TAKE i \in base + 1..Written
    <3>1. i \in Rows
      BY <1>0, <1>6, <1>w, <2>1, WriterAssumption DEF Rows
    <3>2. copies[i] > 0
      BY <1>0, <1>6, <2>1 DEF Contiguous
    <3>3. copies[i] <= copies'[i] /\ copies[i] \in Nat /\ copies'[i] \in Nat
      BY <1>0, <1>8, <3>1, Inserted DEF InsertFails, TypeOK
    <3> QED BY <3>2, <3>3
  <2>6. HandlerCounted'
    BY <1>0, <1>6, <2>1 DEF HandlerCounted
  <2> QED BY <1>6, <2>1, <2>3, <2>4, <2>5, <2>6 DEF Contiguous
<1>9. CASE Crash
  BY <1>9 DEF Crash
<1>10. CASE Restart
  <2>1. HandedOver' = base' /\ Len(batch') = 0 /\ Len(buffer') = 0 /\ base' \in Nat
    BY <1>0, <1>10, <1>e DEF Restart, HandedOver, TypeOK
  <2>2. Written' = base'
    BY <2>1 DEF Written, HandedOver
  <2> QED BY <1>10, <2>1, <2>2 DEF Restart, Contiguous, HandlerCounted
<1> QED BY <1>1, <1>2, <1>4, <1>5, <1>7, <1>8, <1>9, <1>10 DEF Next

-----------------------------------------------------------------------------
(* Only an insert that is answered brings the writer on.                   *)
LEMMA WrittenMoves ==
  ASSUME TypeOK, mode # "ended" => HandlerCounted
  PROVE  /\ InsertDone => Written' = Written + Len(batch)
         /\ Produce \/ Consume \/ Tick \/ InsertFails \/ Commit \/ Terminate \/ Disconnect \/ Exit
            \/ Crash \/ UNCHANGED vars => Written' = Written
<1>0. /\ buffer \in Seq(Rows) /\ batch \in Seq(Rows)
      /\ Len(batch) \in Nat /\ Len(buffer) \in Nat /\ pos \in Nat /\ HandedOver \in Nat
  BY Counters DEF TypeOK
<1>e. Len(<<>>) = 0
  BY EmptySeq
<1>1. UNCHANGED <<pos, buffer, batch, flusher>> => Written' = Written
  BY DEF Written, HandedOver
<1>2. ASSUME NEW b \in Seq(Rows), NEW who, StartFlush(b, who)
      PROVE  /\ Len(batch') \in Nat /\ Len(buffer') \in Nat
             /\ Len(batch') + Len(buffer') = Len(b)
  BY <1>2, Flushed, LenProperties
<1>3. ASSUME Consume PROVE Written' = Written
  <2> DEFINE b == Append(buffer, pos + 1)
  <2>1. mode = "running" /\ pos < produced /\ HandedOver = pos /\ flusher # "consumer"
    BY <1>3 DEF Consume, HandedOver
  <2>2. pos + 1 \in Rows
    BY <1>0, <2>1, WriterAssumption DEF TypeOK, Rows
  <2>3. b \in Seq(Rows) /\ Len(b) = Len(buffer) + 1
    BY <1>0, <2>2, AppendProperties
  <2>4. CASE FlushNow(b)
    <3>1. StartFlush(b, "consumer") /\ pos' = pos /\ flusher = "none"
      BY <1>3, <2>4 DEF Consume, FlushNow, CanFlush
    <3>2. batch = <<>> /\ flusher' = "consumer"
      BY <2>1, <3>1 DEF HandlerCounted, StartFlush
    <3> HIDE DEF b
    <3>3. /\ Len(batch') \in Nat /\ Len(buffer') \in Nat
          /\ Len(batch') + Len(buffer') = Len(buffer) + 1
      BY <1>2, <2>3, <3>1
    <3> QED BY <1>0, <1>e, <2>1, <3>1, <3>2, <3>3 DEF Written, HandedOver
  <2>5. CASE ~FlushNow(b)
    <3>1. buffer' = b /\ pos' = pos + 1 /\ UNCHANGED <<batch, flusher>>
      BY <1>3, <2>5 DEF Consume
    <3> HIDE DEF b
    <3> QED BY <1>0, <2>1, <2>3, <3>1 DEF Written, HandedOver
  <2> QED BY <2>4, <2>5
<1>4. ASSUME mode # "ended", CanFlush(buffer), NEW who \in {"timer", "close"},
             StartFlush(buffer, who), UNCHANGED pos
      PROVE  Written' = Written
  <2>1. /\ Len(batch') \in Nat /\ Len(buffer') \in Nat
        /\ Len(batch') + Len(buffer') = Len(buffer)
    BY <1>0, <1>2, <1>4
  <2>2. batch = <<>> /\ flusher = "none" /\ flusher' = who
    BY <1>4 DEF HandlerCounted, StartFlush, CanFlush
  <2> QED BY <1>0, <1>4, <1>e, <2>1, <2>2 DEF Written, HandedOver
<1>5. ASSUME Tick PROVE Written' = Written
  BY <1>4, <1>5 DEF Tick, TimerDue
<1>6. ASSUME Disconnect PROVE Written' = Written
  <2>1. CASE CanFlush(buffer)
    BY <1>4, <1>6, <2>1 DEF Disconnect
  <2>2. CASE ~CanFlush(buffer)
    BY <1>1, <1>6, <2>2 DEF Disconnect, writer
  <2> QED BY <2>1, <2>2
<1>7. ASSUME InsertDone PROVE Written' = Written + Len(batch)
  BY <1>0, <1>e, <1>7 DEF InsertDone, EndFlush, Written, HandedOver
<1>8. ASSUME InsertFails PROVE Written' = Written
  <2>1. EndFlush /\ buffer' = batch \o buffer
    BY <1>8 DEF InsertFails, Requeue
  <2>2. Len(buffer') = Len(batch) + Len(buffer)
    BY <1>0, <2>1, ConcatProperties
  <2> QED BY <1>0, <1>e, <2>1, <2>2 DEF EndFlush, Written, HandedOver
<1>9. ASSUME Produce \/ Commit \/ Terminate \/ Exit \/ Crash \/ UNCHANGED vars
      PROVE  Written' = Written
  BY <1>1, <1>9 DEF Produce, Commit, Terminate, Exit, Crash, vars, writer
<1> QED BY <1>3, <1>5, <1>6, <1>7, <1>8, <1>9

-----------------------------------------------------------------------------
(* Nothing is stored again without a fault.                                *)
LEMMA WriterStoresOnce ==
  ASSUME WriterInv, TypeOK', [Next]_vars
  PROVE  StoredOnce'
<1>0. /\ TypeOK /\ StoredOnce /\ copies \in [Rows -> Nat] /\ copies' \in [Rows -> Nat]
      /\ errors \in Nat /\ crashes \in Nat
      /\ Len(batch) \in Nat /\ Len(buffer) \in Nat /\ Written \in Int
      /\ pos \in Nat /\ committed \in Nat /\ HandedOver \in Nat
      /\ mode # "ended" => Contiguous /\ HandlerCounted
  <2>1. TypeOK /\ StoredOnce /\ (mode # "ended" => Contiguous /\ HandlerCounted)
    BY DEF WriterInv
  <2>2. errors \in Nat /\ crashes \in Nat
    BY <2>1, WriterAssumption DEF TypeOK
  <2>3. copies \in [Rows -> Nat] /\ copies' \in [Rows -> Nat]
    BY <2>1 DEF TypeOK
  <2> QED BY <2>1, <2>2, <2>3, Counters
<1>e. Len(<<>>) = 0
  BY EmptySeq
(* The steps that store nothing and forget nothing.                        *)
<1>1. ASSUME UNCHANGED <<copies, errors, crashes>>, mode # "ended", mode' # "ended",
             Written' = Written
      PROVE  StoredOnce'
  BY <1>0, <1>1 DEF StoredOnce, StoredAgainOnlyByFaults
<1>2. ASSUME UNCHANGED <<copies, errors, crashes, mode, committed, pos, flusher, batch, buffer>>
      PROVE  StoredOnce'
  BY <1>2, <1>0 DEF StoredOnce, StoredAgainOnlyByFaults, Written, HandedOver
<1>3. CASE Produce \/ UNCHANGED vars
  BY <1>2, <1>3 DEF Produce, vars, writer
<1>4. CASE Commit \/ Terminate \/ Consume \/ Tick \/ Disconnect
  <2>1. /\ UNCHANGED <<copies, errors, crashes>>
        /\ mode # "ended" /\ mode' # "ended"
    BY <1>4 DEF Commit, Terminate, Consume, Tick, TimerDue, Disconnect
  <2>2. Written' = Written
    BY <1>0, <1>4, WrittenMoves
  <2> QED BY <1>1, <2>1, <2>2
<1>5. CASE Exit
  <2>1. committed = HandedOver /\ Written <= HandedOver
    BY <1>0, <1>5 DEF Exit, HandlerCounted, HandedOver, Written
  <2> QED BY <1>0, <1>5, <2>1 DEF Exit, StoredOnce, StoredAgainOnlyByFaults, kafka
<1>6. ASSUME Insert \/ UNCHANGED copies, NEW i \in Rows
       PROVE  copies'[i] <= copies[i] + 1 /\ copies[i] <= errors + crashes + 1
  BY <1>0, <1>6, Inserted DEF StoredOnce, StoredAgainOnlyByFaults
<1>7. ASSUME Insert \/ UNCHANGED copies, mode # "ended", NEW i \in Rows
       PROVE  copies'[i] <= errors + crashes + 1
  <2>1. CASE copies'[i] = copies[i]
    BY <1>0, <1>6, <1>7, <2>1
  <2>2. CASE copies'[i] # copies[i]
    <3>1. PICK n \in 1..Len(batch) : batch[n] = i
      BY <1>0, <1>7, <2>2, Inserted
    <3>2. i > Written
      BY <1>0, <1>7, <3>1 DEF Contiguous
    <3> QED BY <1>0, <1>6, <1>7, <3>2 DEF StoredOnce
  <2> QED BY <2>1, <2>2
<1>8. CASE InsertDone
  <2>1. EndFlush /\ Insert /\ UNCHANGED <<buffer, errors, crashes, mode>> /\ mode # "ended"
    BY <1>8 DEF InsertDone, EndFlush
  <2>2. Written' = Written + Len(batch)
    BY <1>0, <1>8, WrittenMoves
  <2>3. ASSUME NEW i \in Rows, i > Written' PROVE copies'[i] <= errors + crashes
    <3>1. ~\E n \in 1..Len(batch) : batch[n] = i
      BY <1>0, <2>1, <2>2, <2>3 DEF Contiguous
    <3>2. copies'[i] = copies[i]
      BY <1>0, <2>1, <3>1, Inserted
    <3>3. i > Written
      BY <1>0, <2>2, <2>3, WriterAssumption DEF Rows
    <3> QED BY <1>0, <2>1, <3>2, <3>3 DEF StoredOnce
  <2> QED BY <1>0, <1>7, <2>1, <2>3 DEF StoredOnce, StoredAgainOnlyByFaults
<1>9. CASE InsertFails
  <2>1. /\ \A i \in Rows : copies'[i] <= errors + crashes + 1
        /\ errors' = errors + 1 /\ crashes' = crashes /\ mode' = mode /\ mode # "ended"
    BY <1>7, <1>9 DEF InsertFails, EndFlush
  <2> QED BY <1>0, <2>1 DEF StoredOnce, StoredAgainOnlyByFaults
<1>10. CASE Crash
  <2>1. /\ \A i \in Rows : copies'[i] <= errors + crashes + 1
        /\ errors' = errors /\ crashes' = crashes + 1 /\ mode' = "ended"
    BY <1>7, <1>10 DEF Crash
  <2> QED BY <1>0, <2>1 DEF StoredOnce, StoredAgainOnlyByFaults
<1>11. CASE Restart
  <2>1. Written' = committed
    BY <1>0, <1>e, <1>11 DEF Restart, Written, HandedOver
  <2> QED BY <1>0, <1>11, <2>1 DEF Restart, StoredOnce, StoredAgainOnlyByFaults
<1> QED BY <1>3, <1>4, <1>5, <1>8, <1>9, <1>10, <1>11 DEF Next

-----------------------------------------------------------------------------
LEMMA WriterInvInit == Init => WriterInv
<1> SUFFICES ASSUME Init PROVE WriterInv
  OBVIOUS
<1>1. <<>> \in Seq(Rows) /\ Len(<<>>) = 0
  BY EmptySeq
<1>2. TypeOK
  BY <1>1, WriterAssumption DEF Init, TypeOK
<1>3. Written = 0 /\ base = 0
  <2>1. HandedOver = 0 /\ Len(batch) = 0 /\ Len(buffer) = 0 /\ base = 0
    BY <1>1 DEF Init, HandedOver
  <2> QED BY <1>1, <2>1 DEF Written
<1>4. Contiguous
  BY <1>1, <1>3 DEF Init, Contiguous
<1>5. HandlerCounted /\ StoredOnce
  BY <1>3 DEF Init, HandlerCounted, StoredOnce, StoredAgainOnlyByFaults
<1> QED BY <1>2, <1>4, <1>5 DEF WriterInv

LEMMA WriterInvStep == WriterInv /\ [Next]_vars => WriterInv'
BY WriterTyped, WriterContiguous, WriterStoresOnce DEF WriterInv

(* Offsets, buffer and counters stay in range: no handler runs past the    *)
(* end of the partition and no offset is committed before it is reached.   *)
THEOREM TypeCorrect == Spec => []TypeOK
<1>1. WriterInv => TypeOK
  BY DEF WriterInv
<1> QED BY <1>1, WriterInvInit, WriterInvStep, PTL DEF Spec

(* A running worker loses and reorders nothing, for every batch size.      *)
THEOREM RunningLosesNothing == Spec => []NothingDropped
<1>1. WriterInv => NothingDropped
  <2> SUFFICES ASSUME WriterInv, mode # "ended"
               PROVE  /\ Waiting = [n \in 1..Len(Waiting) |-> HandedOver - Len(Waiting) + n]
                      /\ \A i \in base + 1..HandedOver - Len(Waiting) : i \in Stored
    BY DEF NothingDropped
  <2>0. /\ TypeOK /\ Contiguous /\ batch \in Seq(Rows) /\ buffer \in Seq(Rows)
        /\ Len(batch) \in Nat /\ Len(buffer) \in Nat /\ HandedOver \in Nat
        /\ pos \in 0..MaxRows /\ MaxRows \in Nat /\ Written <= MaxRows /\ base \in Nat
    <3>1. HandlerCounted /\ TypeOK /\ MaxRows \in Nat
      BY WriterAssumption DEF WriterInv
    <3>2. pos <= produced /\ produced <= MaxRows /\ pos \in Nat /\ produced \in Nat
      BY <3>1 DEF TypeOK
    <3>3. HandedOver <= MaxRows
      BY <3>1, <3>2 DEF HandedOver, HandlerCounted
    <3>4. Len(batch) \in Nat /\ Len(buffer) \in Nat /\ HandedOver \in Nat
      BY <3>1, Counters
    <3>5. Written <= MaxRows
      BY <3>1, <3>3, <3>4 DEF Written
    <3> QED BY <3>1, <3>2, <3>4, <3>5 DEF WriterInv, TypeOK
  <2>1. /\ Waiting \in Seq(Rows) /\ Len(Waiting) = Len(batch) + Len(buffer)
        /\ \A n \in 1..Len(batch) + Len(buffer) :
             Waiting[n] = IF n <= Len(batch) THEN batch[n] ELSE buffer[n - Len(batch)]
    BY <2>0, ConcatProperties DEF Waiting
  <2>2. HandedOver - Len(Waiting) = Written
    BY <2>0, <2>1 DEF Written
  <2>3. \A n \in 1..Len(Waiting) : Waiting[n] = Written + n
    <3>1. Written \in Int
      BY <2>0 DEF Written
    <3>2. \A n \in 1..Len(Waiting) : n <= Len(batch) \/ n - Len(batch) \in 1..Len(buffer)
      BY <2>0, <2>1
    <3>3. /\ \A n \in 1..Len(batch) : batch[n] = Written + n
          /\ \A n \in 1..Len(buffer) : buffer[n] = Written + Len(batch) + n
      BY <2>0 DEF Contiguous
    <3> TAKE n \in 1..Len(Waiting)
    <3>4. CASE n <= Len(batch)
      BY <2>0, <2>1, <3>3, <3>4
    <3>5. CASE ~(n <= Len(batch))
      <4>1. n - Len(batch) \in 1..Len(buffer) /\ n \in 1..Len(batch) + Len(buffer)
        BY <2>1, <3>2, <3>5
      <4>2. Waiting[n] = buffer[n - Len(batch)]
        BY <2>1, <3>5, <4>1
      <4>3. buffer[n - Len(batch)] = Written + Len(batch) + (n - Len(batch))
        BY <3>3, <4>1
      <4> QED BY <2>0, <3>1, <4>1, <4>2, <4>3
    <3> QED BY <3>4, <3>5
  <2>4. Waiting = [n \in 1..Len(Waiting) |-> Written + n]
    <3>1. Waiting \in [1..Len(Waiting) -> Rows]
      BY <2>1, LenProperties
    <3> HIDE DEF Waiting
    <3> QED BY <2>3, <3>1
  <2>5. \A i \in base + 1..Written : i \in Stored
    <3>1. Written \in Int
      BY <2>0 DEF Written
    <3>2. \A i \in base + 1..Written : i \in Rows /\ copies[i] > 0
      BY <2>0, <3>1 DEF Contiguous, Rows
    <3> QED BY <3>2 DEF Stored
  <2> QED BY <2>2, <2>4, <2>5
<1> QED BY <1>1, WriterInvInit, WriterInvStep, PTL DEF Spec

(* Every copy of a row but the first is the work of a fault.               *)
THEOREM CopiesNeedFaults == Spec => []StoredAgainOnlyByFaults
<1>1. WriterInv => StoredAgainOnlyByFaults
  BY DEF WriterInv, StoredOnce
<1> QED BY <1>1, WriterInvInit, WriterInvStep, PTL DEF Spec

-----------------------------------------------------------------------------
(* The table is filled in order.                                           *)
BatchFits == Len(batch) <= BatchSize

LEMMA FlushFits ==
  ASSUME NEW b \in Seq(Rows), NEW who, StartFlush(b, who)
  PROVE  BatchFits'
<1>1. Len(b) \in Nat /\ Size(b) \in 0..Len(b) /\ Size(b) <= BatchSize /\ BatchSize \in Nat
  BY WriterAssumption, LenProperties DEF Size
<1>2. batch' = SubSeq(b, 1, Size(b)) /\ \A n \in 1..Size(b) : b[n] \in Rows
  BY <1>1, ElementOfSeq DEF StartFlush
<1>3. Len(batch') = Size(b)
  BY <1>1, <1>2, SubSeqProperties
<1> QED BY <1>1, <1>3 DEF BatchFits

LEMMA BatchFitsStep ==
  ASSUME TypeOK, BatchFits, [Next]_vars
  PROVE  BatchFits'
<1>0. buffer \in Seq(Rows)
  BY DEF TypeOK
<1>e. Len(<<>>) = 0 /\ BatchSize \in Nat
  BY EmptySeq, WriterAssumption
<1>1. CASE UNCHANGED batch
  BY <1>1 DEF BatchFits
<1>2. CASE batch' = <<>>
  BY <1>2, <1>e DEF BatchFits
<1>3. CASE Consume
  <2> DEFINE b == Append(buffer, pos + 1)
  <2>1. pos + 1 \in Rows
    BY <1>3, WriterAssumption DEF Consume, TypeOK, Rows
  <2>2. b \in Seq(Rows)
    BY <1>0, <2>1, AppendProperties
  <2>3. StartFlush(b, "consumer") \/ UNCHANGED batch
    BY <1>3 DEF Consume
  <2> QED BY <1>1, <2>2, <2>3, FlushFits
<1>4. CASE Tick \/ Disconnect
  BY <1>0, <1>1, <1>4, FlushFits DEF Tick, Disconnect, writer
<1> QED BY <1>1, <1>2, <1>3, <1>4 DEF Next, vars, writer, Produce, InsertDone, InsertFails, EndFlush,
                                     Commit, Terminate, Exit, Crash, Restart

(* Where MeterTable's next stands.                                         *)
LEMMA WaitingCounted ==
  ASSUME TypeOK
  PROVE  HandedOver - Len(Waiting) + 1 = Written + 1 /\ Written \in Int
<1>1. Len(Waiting) = Len(batch) + Len(buffer)
  BY ConcatProperties DEF TypeOK, Waiting
<1> QED BY <1>1, Counters DEF Written

(* The insert in progress writes the batch that comes next.                *)
LEMMA InsertWrites ==
  ASSUME WriterInv, BatchFits, mode # "ended", Insert
  PROVE  \/ Len(batch) = 0 /\ UNCHANGED copies
         \/ Len(batch) \in Table!Batches /\ Table!Write(Len(batch))
<1>0. /\ TypeOK /\ Contiguous /\ Len(batch) \in Nat /\ Written \in Int
      /\ batch \in Seq(Rows) /\ copies \in [Rows -> Nat] /\ MaxRows \in Nat /\ BatchSize \in Nat
  BY WriterAssumption, Counters DEF WriterInv, TypeOK
<1>1. CASE Len(batch) = 0
  <2>1. copies' = [i \in Rows |-> copies[i] + 0]
    BY <1>0, <1>1 DEF Insert
  <2> QED BY <1>0, <1>1, <2>1
<1>2. CASE Len(batch) > 0
  <2> DEFINE n == Len(batch)
             m == HandedOver - Len(Waiting) + 1
  <2>0. n \in Nat /\ n >= 1 /\ n <= BatchSize /\ m = Written + 1 /\ m \in Int
    BY <1>0, <1>2, WaitingCounted DEF BatchFits
  <2>1. \A k \in 1..n : batch[k] = Written + k
    BY <1>0 DEF Contiguous
  <2>2. batch[n] \in Rows
    BY <1>0, <2>0, ElementOfSeq
  <2>3. m + n - 1 <= MaxRows
    <3> HIDE DEF n, m
    <3> QED BY <1>0, <2>0, <2>1, <2>2 DEF Rows
  <2>4. n \in Table!Batches
    BY <1>0, <2>0, <2>3 DEF Table!Batches
  <2>5. \A i \in Rows : (\E k \in 1..n : batch[k] = i) <=> i \in m..m + n - 1
    <3> HIDE DEF n, m
    <3> SUFFICES ASSUME NEW i \in Rows
                 PROVE  (\E k \in 1..n : batch[k] = i) <=> i \in m..m + n - 1
      OBVIOUS
    <3>0. i \in Int
      BY <1>0 DEF Rows
    <3>1. ASSUME NEW k \in 1..n, batch[k] = i PROVE i \in m..m + n - 1
      BY <1>0, <2>0, <2>1, <3>0, <3>1
    <3>2. ASSUME i \in m..m + n - 1 PROVE \E k \in 1..n : batch[k] = i
      <4>1. i - Written \in 1..n
        BY <1>0, <2>0, <3>0, <3>2
      <4>2. batch[i - Written] = i
        BY <1>0, <2>1, <3>0, <4>1
      <4> QED BY <4>1, <4>2
    <3> QED BY <3>1, <3>2
  <2>6. copies' = [i \in Rows |-> copies[i] + (IF i \in m..m + n - 1 THEN 1 ELSE 0)]
    <3>1. copies' = [i \in Rows |-> copies[i] + (IF \E k \in 1..n : batch[k] = i THEN 1 ELSE 0)]
      BY DEF Insert
    <3> HIDE DEF n, m
    <3> QED BY <2>5, <3>1
  <2>7. Table!Write(n)
    BY <2>6 DEF Table!Write, Table!Rows, Rows
  <2> QED BY <2>4, <2>7
<1> QED BY <1>0, <1>1, <1>2

LEMMA TableStep ==
  ASSUME WriterInv, BatchFits, WriterInv', [Next]_vars
  PROVE  [Table!Next]_(Table!vars)
<1>0. /\ HandedOver - Len(Waiting) + 1 = Written + 1
      /\ HandedOver' - Len(Waiting') + 1 = Written' + 1
      /\ Written \in Int /\ Written' \in Int /\ Len(batch) \in Nat
      /\ mode # "ended" => HandlerCounted
  <2>1. TypeOK /\ TypeOK' /\ (mode # "ended" => HandlerCounted)
    BY DEF WriterInv
  <2>2. Len(Waiting') = Len(batch') + Len(buffer') /\ Len(batch') \in Nat /\ Len(buffer') \in Nat
    BY <2>1, ConcatProperties, LenProperties DEF TypeOK, Waiting
  <2>3. HandedOver' \in Int
    BY <2>1 DEF TypeOK, HandedOver
  <2> QED BY <2>1, <2>2, <2>3, WaitingCounted, Counters DEF Written
<1>1. ASSUME Written' = Written, UNCHANGED copies, (mode # "ended") = (mode' # "ended")
      PROVE  UNCHANGED Table!vars
  BY <1>0, <1>1 DEF Table!vars
<1>2. CASE Produce \/ Consume \/ Tick \/ Commit \/ Terminate \/ Disconnect \/ UNCHANGED vars
  <2>1. Written' = Written
    BY <1>0, <1>2, WrittenMoves DEF WriterInv
  <2>2. UNCHANGED copies /\ ((mode # "ended") = (mode' # "ended"))
    BY <1>2 DEF Produce, Consume, Tick, TimerDue, Commit, Terminate, Disconnect, vars
  <2> QED BY <1>1, <2>1, <2>2
<1>3. CASE InsertDone
  <2>1. mode # "ended" /\ mode' # "ended" /\ Insert /\ Written' = Written + Len(batch)
    BY <1>0, <1>3, WrittenMoves DEF InsertDone, EndFlush, WriterInv
  <2>2. \/ Len(batch) = 0 /\ UNCHANGED copies
        \/ Len(batch) \in Table!Batches /\ Table!Write(Len(batch))
    BY <2>1, InsertWrites
  <2>3. CASE Len(batch) \in Table!Batches /\ Table!Write(Len(batch))
    <3>1. HandedOver' - Len(Waiting') + 1 = (HandedOver - Len(Waiting) + 1) + Len(batch)
      BY <1>0, <2>1
    <3> QED BY <2>1, <2>3, <3>1 DEF Table!Next, Table!Store
  <2>4. CASE UNCHANGED copies /\ Len(batch) = 0
    BY <1>0, <1>1, <2>1, <2>4
  <2> QED BY <2>2, <2>3, <2>4
<1>4. CASE InsertFails
  <2>1. mode # "ended" /\ mode' # "ended" /\ (Insert \/ UNCHANGED copies) /\ Written' = Written
    BY <1>0, <1>4, WrittenMoves DEF InsertFails, EndFlush, WriterInv
  <2>2. UNCHANGED copies \/ (Len(batch) \in Table!Batches /\ Table!Write(Len(batch)))
    BY <2>1, InsertWrites
  <2>3. CASE UNCHANGED copies
    BY <1>1, <2>1, <2>3
  <2>4. CASE Len(batch) \in Table!Batches /\ Table!Write(Len(batch))
    BY <1>0, <2>1, <2>4 DEF Table!Next, Table!StoreUnnoticed
  <2> QED BY <2>2, <2>3, <2>4
<1>5. CASE Exit \/ Crash
  <2>1. mode # "ended" /\ mode' = "ended" /\ (Insert \/ UNCHANGED copies) /\ Written' = Written
    BY <1>0, <1>5, WrittenMoves DEF Exit, Crash, WriterInv
  <2>2. UNCHANGED copies \/ (Len(batch) \in Table!Batches /\ Table!Write(Len(batch)))
    BY <2>1, InsertWrites
  <2> QED BY <1>0, <2>1, <2>2 DEF Table!Next, Table!Stop
<1>6. CASE Restart
  <2>1. mode = "ended" /\ mode' # "ended" /\ UNCHANGED copies
    BY <1>6 DEF Restart
  <2>2. Written' = committed /\ committed \in 0..MaxRows
    <3>1. HandedOver' = committed /\ Len(batch') = 0 /\ Len(buffer') = 0
      BY <1>6, EmptySeq DEF Restart, HandedOver
    <3>2. /\ committed \in 0..pos /\ pos \in 0..produced /\ produced \in 0..MaxRows /\ MaxRows \in Nat
      BY WriterAssumption DEF WriterInv, TypeOK
    <3>3. Written' = HandedOver' - Len(batch') - Len(buffer')
      BY DEF Written
    <3> QED BY <3>1, <3>2, <3>3
  <2>3. HandedOver' - Len(Waiting') + 1 \in 1..MaxRows + 1
    BY <1>0, <2>2, WriterAssumption
  <2> QED BY <2>1, <2>3 DEF Table!Next, Table!Resume
<1> QED BY <1>2, <1>3, <1>4, <1>5, <1>6 DEF Next

(* Whatever the worker buffers, the table is filled as MeterTable says.    *)
THEOREM WriterImplementsTable == Spec => FillsTableInOrder
<1>1. Init => WriterInv /\ BatchFits /\ Table!Init
  <2> SUFFICES ASSUME Init PROVE WriterInv /\ BatchFits /\ Table!Init
    OBVIOUS
  <2>1. WriterInv /\ Len(batch) = 0 /\ HandedOver = 0 /\ Len(buffer) = 0
    BY WriterInvInit, EmptySeq DEF Init, HandedOver
  <2>2. HandedOver - Len(Waiting) + 1 = 1
    BY <2>1, WaitingCounted DEF WriterInv, Written
  <2> QED BY <2>1, <2>2, WriterAssumption DEF Init, BatchFits, Table!Init, Table!Rows, Rows
<1>2. WriterInv /\ BatchFits /\ [Next]_vars => WriterInv' /\ BatchFits'
  BY WriterInvStep, BatchFitsStep DEF WriterInv
<1>3. WriterInv /\ BatchFits /\ WriterInv' /\ [Next]_vars => [Table!Next]_(Table!vars)
  BY TableStep
<1> QED BY <1>1, <1>2, <1>3, PTL DEF Spec, FillsTableInOrder, Table!Spec
=============================================================================
