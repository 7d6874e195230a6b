--------------------------- MODULE TelemetryQueue ----------------------------
(***************************************************************************)
(* The background writer of telemetry documents.  Handlers put documents   *)
(* on a bounded queue and never wait; a daemon thread takes them off in    *)
(* batches and hands each batch to Elasticsearch, once, whatever the       *)
(* answer.  The queue is shared by all handlers and the two threads        *)
(* interleave command by command.                                          *)
(***************************************************************************)
EXTENDS Naturals, Sequences

CONSTANTS
  Documents,   \* what handlers put on the queue
  MaxQueue,    \* max_queue_size
  BatchSize    \* batch_size

ASSUME TelemetryQueueAssumption == MaxQueue \in Nat \ {0} /\ BatchSize \in Nat \ {0}

VARIABLES
  queue,       \* _queue
  batch,       \* the documents that the writer has taken off
  writer,      \* what the writer thread is doing
  shutdown,    \* _shutdown_event
  accepted,    \* history: every document that was put on the queue, in order
  submitted,   \* history: every document that was handed to Elasticsearch
  backlog      \* history: the length of the queue at shutdown

queueVars == <<queue, batch, writer, shutdown, accepted, submitted, backlog>>
-----------------------------------------------------------------------------
\* initialize_telemetry starts the writer before the server takes requests.
QueueInit ==
  /\ queue = <<>> /\ batch = <<>> /\ accepted = <<>> /\ submitted = <<>>
  /\ writer = "loop" /\ shutdown = FALSE /\ backlog = 0

\* Faulty variant: the queue has no bound.
EnqueueUnbounded(d) ==
  /\ queue' = Append(queue, d) /\ accepted' = Append(accepted, d)
  /\ UNCHANGED <<batch, writer, shutdown, submitted, backlog>>

\* enqueue_telemetry: put_nowait, or else the document is dropped.
Enqueue(d) ==
  /\ IF Len(queue) < MaxQueue
     THEN queue' = Append(queue, d) /\ accepted' = Append(accepted, d)
     ELSE UNCHANGED <<queue, accepted>>
  /\ UNCHANGED <<batch, writer, shutdown, submitted, backlog>>

\* _drain_batch: what there is, up to batch_size.
DrainBatch(next) ==
  LET n == IF Len(queue) < BatchSize THEN Len(queue) ELSE BatchSize IN
  /\ n > 0
  /\ batch' = SubSeq(queue, 1, n)
  /\ queue' = SubSeq(queue, n + 1, Len(queue))
  /\ writer' = next
  /\ UNCHANGED <<shutdown, accepted, submitted, backlog>>

\* One round of the loop; on an empty queue it waits for flush_interval.
Drain == writer = "loop" /\ ~shutdown /\ DrainBatch("bulk")

\* Faulty variant: an exception of the client ends the thread.
BulkRaises ==
  /\ writer \in {"bulk", "finalBulk"}
  /\ submitted' = submitted \o batch /\ batch' = <<>>
  /\ \/ writer' = IF writer = "bulk" THEN "loop" ELSE "exited"
     \/ writer' = "exited"
  /\ UNCHANGED <<queue, shutdown, accepted, backlog>>

\* _bulk_write_batch: an error is logged and the batch is not tried again.
Bulk ==
  /\ writer \in {"bulk", "finalBulk"}
  /\ submitted' = submitted \o batch /\ batch' = <<>>
  /\ writer' = IF writer = "bulk" THEN "loop" ELSE "exited"
  /\ UNCHANGED <<queue, shutdown, accepted, backlog>>

\* Faulty variant: the writer leaves the loop and the thread ends.
FinalDrainSkipped ==
  /\ writer = "loop" /\ shutdown
  /\ writer' = "exited" /\ UNCHANGED <<queue, batch, shutdown, accepted, submitted, backlog>>

\* After the loop: one more batch.
FinalDrain ==
  /\ writer = "loop" /\ shutdown
  /\ IF queue = <<>>
     THEN writer' = "exited" /\ UNCHANGED <<queue, batch, shutdown, accepted, submitted, backlog>>
     ELSE DrainBatch("finalBulk")

\* stop_background_worker, when the server's loop has ended...
Stop ==
  /\ ~shutdown
  /\ shutdown' = TRUE /\ backlog' = Len(queue)
  /\ UNCHANGED <<queue, batch, writer, accepted, submitted>>

\* ... and its join times out: the process ends, and its daemon threads.
ProcessEnds ==
  /\ shutdown /\ writer \notin {"exited", "killed"}
  /\ writer' = "killed"
  /\ UNCHANGED <<queue, batch, shutdown, accepted, submitted, backlog>>

Write == Drain \/ Bulk \/ FinalDrain

Produce == ~shutdown /\ \E d \in Documents : Enqueue(d)

QueueNext == Produce \/ Write \/ Stop \/ ProcessEnds

QueueSpec == QueueInit /\ [][QueueNext]_queueVars
-----------------------------------------------------------------------------
(* Properties.                                                             *)

QueueTypeOK ==
  /\ queue \in Seq(Documents) /\ Len(queue) <= MaxQueue
  /\ batch \in Seq(Documents) /\ Len(batch) <= BatchSize
  /\ accepted \in Seq(Documents) /\ submitted \in Seq(Documents)
  /\ writer \in {"loop", "bulk", "finalBulk", "exited", "killed"}
  /\ shutdown \in BOOLEAN /\ backlog \in 0..MaxQueue

\* Between the two threads no document that was accepted is lost, duplicated
\* or overtaken: it has been submitted, is in the batch or on the queue.
QueueInOrder == accepted = submitted \o batch \o queue

\* A graceful stop submits everything accepted if no more than one batch was
\* waiting (what is beyond it is lost).
FinalFlush == writer = "exited" /\ backlog <= BatchSize => submitted = accepted
=============================================================================
