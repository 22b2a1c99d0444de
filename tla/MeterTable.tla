----------------------------- MODULE MeterTable -----------------------------
(***************************************************************************)
(* What the ingestion worker promises of meter_samples, whatever buffers   *)
(* and timers it has: while it is up the table grows by the messages of    *)
(* the partition in their order, a batch at a time, and none is left out.  *)
(* A batch is written again if its answer was lost, and only at a restart  *)
(* does the worker go on anywhere else than behind what it wrote.          *)
(***************************************************************************)
EXTENDS Naturals

CONSTANTS
  BatchSize,  \* the most rows of one insert
  MaxRows     \* bound on the messages of the partition

Rows == 1..MaxRows

VARIABLES
  copies,  \* how many times each message is in the table
  next,    \* the message to be written next
  up       \* whether a worker is running

vars == <<copies, next, up>>

Init ==
  /\ copies = [i \in Rows |-> 0]
  /\ next = 1
  /\ up = TRUE

Batches == {n \in 1..BatchSize : next + n - 1 <= MaxRows}

Write(n) ==
  copies' = [i \in Rows |-> copies[i] + (IF i \in next..next + n - 1 THEN 1 ELSE 0)]

Store ==
  \E n \in Batches :
    /\ up /\ Write(n)
    /\ next' = next + n
    /\ UNCHANGED up

StoreUnnoticed ==
  \E n \in Batches :
    /\ up /\ Write(n)
    /\ UNCHANGED <<next, up>>

Stop ==
  /\ up /\ up' = FALSE
  /\ UNCHANGED copies \/ \E n \in Batches : Write(n)
  /\ UNCHANGED next

Resume ==
  /\ ~up /\ up' = TRUE
  /\ next' \in 1..MaxRows + 1
  /\ UNCHANGED copies

Next == Store \/ StoreUnnoticed \/ Stop \/ Resume

Spec == Init /\ [][Next]_vars
=============================================================================
