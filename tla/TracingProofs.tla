---------------------------- MODULE TracingProofs ----------------------------
(***************************************************************************)
(* What the telemetry writer and the trace of a request promise, for any   *)
(* bound of the queue, any batch size and any number of runs.              *)
(*                                                                         *)
(* First the queue between handlers and the writer's thread; then that the *)
(* callbacks use it as TelemetryQueue says that handlers do, so that what  *)
(* is proved of the queue holds of the composition; then the spans.        *)
(*                                                                         *)
(* The spans rest on the tree of the runs: a run is started from an        *)
(* earlier one, so that what the handler computes by walking up the        *)
(* parents (NearestSpan, MeaningfulDepth, Ancestors) is known by induction *)
(* along them (UpInduction, from the least run that fails).  Two invariants*)
(* relate the walks to the tree: LinkInv, for the parents and depths of    *)
(* spans, and CountInv, for the LLM calls below a run.  Both say nothing   *)
(* of a run that ends after one above it, for then the walks stop early.   *)
(***************************************************************************)
EXTENDS Tracing, SequenceTheorems, FiniteSetTheorems, WellFoundedInduction, TLAPS

\* The writer holds documents only between taking them off and handing them
\* over; when the thread has ended, what it left was waiting at shutdown
\* beyond one batch.
WriterInv ==
  /\ writer \in {"loop", "exited"} => batch = <<>>
  /\ writer \in {"finalBulk", "exited"} => shutdown
  /\ shutdown /\ writer \in {"loop", "bulk"} => Len(queue) <= backlog
  /\ writer \in {"finalBulk", "exited"} /\ backlog <= BatchSize => queue = <<>>

QueueInv == QueueTypeOK /\ QueueInOrder /\ WriterInv

USE TelemetryQueueAssumption

-----------------------------------------------------------------------------
\* What DrainBatch takes and what it leaves make up the queue.
LEMMA TakenAndLeft ==
  ASSUME NEW S, NEW q \in Seq(S), NEW n \in 1..Len(q)
  PROVE  /\ SubSeq(q, 1, n) \in Seq(S) /\ Len(SubSeq(q, 1, n)) = n
         /\ SubSeq(q, n + 1, Len(q)) \in Seq(S) /\ Len(SubSeq(q, n + 1, Len(q))) = Len(q) - n
         /\ SubSeq(q, 1, n) \o SubSeq(q, n + 1, Len(q)) = q
<1>1. Len(q) \in Nat /\ \A i \in 1..Len(q) : q[i] \in S
  BY LenProperties, ElementOfSeq
<1>2. SubSeq(q, 1, n) \in Seq(S) /\ Len(SubSeq(q, 1, n)) = n
  <2>1. \A i \in 1..n : q[i] \in S
    BY <1>1
  <2> QED BY <1>1, <2>1, SubSeqProperties
<1>3. SubSeq(q, n + 1, Len(q)) \in Seq(S) /\ Len(SubSeq(q, n + 1, Len(q))) = Len(q) - n
  <2>1. \A i \in (n + 1)..Len(q) : q[i] \in S
    BY <1>1
  <2> QED BY <1>1, <2>1, SubSeqProperties
<1>4. SubSeq(q, 1, n) \o SubSeq(q, n + 1, Len(q)) = SubSeq(q, 1, Len(q))
  BY <1>1, ConcatAdjacentSubSeq
<1> QED BY <1>2, <1>3, <1>4, SubSeqFull

LEMMA DrainKeepsInv ==
  ASSUME NEW next \in {"bulk", "finalBulk"}, QueueInv, writer = "loop",
         next = "finalBulk" <=> shutdown, DrainBatch(next)
  PROVE  QueueInv'
<1> DEFINE n == IF Len(queue) < BatchSize THEN Len(queue) ELSE BatchSize
<1>0. queue \in Seq(Documents) /\ Len(queue) \in Nat
  BY LenProperties DEF QueueInv, QueueTypeOK
<1>1. /\ n \in 1..Len(queue) /\ n <= BatchSize /\ writer' = next
      /\ batch' = SubSeq(queue, 1, n) /\ queue' = SubSeq(queue, n + 1, Len(queue))
      /\ UNCHANGED <<shutdown, accepted, submitted, backlog>>
  BY <1>0 DEF DrainBatch
<1>2. /\ queue \in Seq(Documents) /\ submitted \in Seq(Documents)
      /\ accepted = submitted \o queue /\ Len(queue) <= MaxQueue
  BY ConcatEmptySeq DEF QueueInv, QueueTypeOK, QueueInOrder, WriterInv
<1> HIDE DEF n
<1>3. /\ batch' \in Seq(Documents) /\ Len(batch') = n
      /\ queue' \in Seq(Documents) /\ Len(queue') = Len(queue) - n
      /\ batch' \o queue' = queue
  BY <1>1, <1>2, TakenAndLeft
<1>4. QueueTypeOK'
  BY <1>0, <1>1, <1>2, <1>3 DEF QueueInv, QueueTypeOK
<1>5. QueueInOrder'
  <2>1. (submitted \o batch') \o queue' = submitted \o (batch' \o queue')
    <3>1. submitted \in Seq(Documents) /\ batch' \in Seq(Documents) /\ queue' \in Seq(Documents)
      BY <1>2, <1>3
    <3>2. \A s, t, u \in Seq(Documents) : (s \o t) \o u = s \o (t \o u)
      BY ConcatAssociative
    <3> QED BY <3>1, <3>2, Zenon
  <2>2. accepted' = (submitted \o batch') \o queue'
    BY <1>1, <1>2, <1>3, <2>1
  <2> QED BY <1>1, <2>2 DEF QueueInOrder
<1>6. WriterInv'
  <2>1. next = "finalBulk" /\ backlog <= BatchSize => queue' = <<>>
    <3> SUFFICES ASSUME next = "finalBulk", backlog <= BatchSize PROVE queue' = <<>>
      OBVIOUS
    <3>1. Len(queue) <= BatchSize
      BY <1>2 DEF QueueInv, QueueTypeOK, WriterInv
    <3>2. Len(queue') = 0
      BY <1>0, <1>1, <1>2, <1>3, <3>1 DEF n
    <3> QED BY <1>3, <3>2, EmptySeq
  <2> QED BY <1>1, <1>2, <1>3, <2>1 DEF WriterInv
<1> QED BY <1>4, <1>5, <1>6 DEF QueueInv

LEMMA QueueInductive == QueueInv /\ [QueueNext]_queueVars => QueueInv'
<1> SUFFICES ASSUME QueueInv, [QueueNext]_queueVars PROVE QueueInv'
  OBVIOUS
<1>0. QueueTypeOK /\ QueueInOrder /\ WriterInv
  BY DEF QueueInv
<1>1. CASE Produce
  <2>1. PICK d \in Documents : Enqueue(d)
    BY <1>1 DEF Produce
  <2>2. CASE Len(queue) < MaxQueue
    <3>1. /\ queue' = Append(queue, d) /\ accepted' = Append(accepted, d) /\ ~shutdown
          /\ UNCHANGED <<batch, writer, shutdown, submitted, backlog>>
      BY <1>1, <2>1, <2>2 DEF Enqueue, Produce
    <3>2. QueueTypeOK'
      BY <1>0, <2>2, <3>1, AppendProperties, LenProperties DEF QueueTypeOK
    <3>3. QueueInOrder'
      <4>1. /\ queue \in Seq(Documents) /\ <<d>> \in Seq(Documents) /\ submitted \o batch \in Seq(Documents)
            /\ accepted = submitted \o batch \o queue /\ accepted \in Seq(Documents)
        BY <1>0, ConcatProperties DEF QueueTypeOK, QueueInOrder
      <4>2. accepted' = (submitted \o batch \o queue) \o <<d>> /\ queue' = queue \o <<d>>
        BY <3>1, <4>1, AppendIsConcat
      <4>3. ((submitted \o batch) \o queue) \o <<d>> = (submitted \o batch) \o (queue \o <<d>>)
        BY <4>1, ConcatAssociative
      <4>4. accepted' = (submitted \o batch) \o queue'
        BY <4>1, <4>2, <4>3
      <4> QED BY <3>1, <4>4 DEF QueueInOrder
    <3>4. WriterInv'
      BY <1>0, <3>1 DEF WriterInv
    <3> QED BY <3>2, <3>3, <3>4 DEF QueueInv
  <2>3. CASE ~(Len(queue) < MaxQueue)
    BY <1>0, <2>1, <2>3 DEF Enqueue, QueueInv, QueueTypeOK, QueueInOrder, WriterInv
  <2> QED BY <2>2, <2>3
<1>2. CASE Drain
  BY <1>2, DrainKeepsInv DEF Drain
<1>3. CASE Bulk
  <2>1. /\ submitted' = submitted \o batch /\ batch' = <<>> /\ writer \in {"bulk", "finalBulk"}
        /\ writer' = IF writer = "bulk" THEN "loop" ELSE "exited"
        /\ UNCHANGED <<queue, shutdown, accepted, backlog>>
    BY <1>3 DEF Bulk
  <2>2. QueueTypeOK'
    BY <1>0, <2>1, ConcatProperties, EmptySeq DEF QueueTypeOK
  <2>3. QueueInOrder'
    BY <1>0, <2>1, ConcatProperties, ConcatEmptySeq DEF QueueTypeOK, QueueInOrder
  <2>4. WriterInv'
    BY <1>0, <2>1 DEF WriterInv
  <2> QED BY <2>2, <2>3, <2>4 DEF QueueInv
<1>4. CASE FinalDrain
  <2>1. CASE queue = <<>>
    BY <1>0, <1>4, <2>1 DEF FinalDrain, QueueInv, QueueTypeOK, QueueInOrder, WriterInv
  <2>2. CASE queue # <<>>
    BY <1>4, <2>2, DrainKeepsInv DEF FinalDrain
  <2> QED BY <2>1, <2>2
<1>5. CASE Stop
  BY <1>0, <1>5 DEF Stop, QueueInv, QueueTypeOK, QueueInOrder, WriterInv
<1>6. CASE ProcessEnds
  BY <1>0, <1>6 DEF ProcessEnds, QueueInv, QueueTypeOK, QueueInOrder, WriterInv
<1>7. CASE UNCHANGED queueVars
  BY <1>0, <1>7 DEF queueVars, QueueInv, QueueTypeOK, QueueInOrder, WriterInv
<1> QED BY <1>1, <1>2, <1>3, <1>4, <1>5, <1>6, <1>7 DEF QueueNext, Write

LEMMA QueueInitially == QueueInit => QueueInv
<1> SUFFICES ASSUME QueueInit PROVE QueueInv
  OBVIOUS
<1>1. <<>> \in Seq(Documents) /\ Len(<<>>) = 0
  BY EmptySeq
<1>2. (<<>> \o <<>>) \o <<>> = <<>>
  BY <1>1, ConcatEmptySeq
<1>3. QueueTypeOK
  <2>1. MaxQueue \in Nat /\ BatchSize \in Nat
    OBVIOUS
  <2>2. queue = <<>> /\ batch = <<>> /\ accepted = <<>> /\ submitted = <<>>
    BY DEF QueueInit
  <2>3. /\ queue \in Seq(Documents) /\ Len(queue) = 0 /\ batch \in Seq(Documents) /\ Len(batch) = 0
        /\ accepted \in Seq(Documents) /\ submitted \in Seq(Documents)
    BY <1>1, <2>2, Zenon
  <2>4. Len(queue) <= MaxQueue /\ Len(batch) <= BatchSize
    BY <2>1, <2>3
  <2>5. writer \in {"loop", "bulk", "finalBulk", "exited", "killed"} /\ shutdown \in BOOLEAN
    BY DEF QueueInit
  <2>6. backlog \in 0..MaxQueue
    BY <2>1 DEF QueueInit
  <2> QED BY <2>3, <2>4, <2>5, <2>6, Zenon DEF QueueTypeOK
<1>4. QueueInOrder
  BY <1>2 DEF QueueInit, QueueInOrder
<1>5. WriterInv
  BY <1>1 DEF QueueInit, WriterInv
<1> QED BY <1>3, <1>4, <1>5 DEF QueueInv

LEMMA QueueInvariant == QueueSpec => []QueueInv
BY QueueInitially, QueueInductive, PTL DEF QueueSpec

\* The queue of enqueue_telemetry never exceeds max_queue_size, nor a batch
\* batch_size.
THEOREM QueueTypeCorrect == QueueSpec => []QueueTypeOK
BY QueueInvariant, PTL DEF QueueInv

\* Between enqueue_telemetry and _bulk_write_batch no document is lost,
\* duplicated or overtaken, whatever the two threads do.
THEOREM NothingOvertaken == QueueSpec => []QueueInOrder
BY QueueInvariant, PTL DEF QueueInv

\* stop_background_worker loses nothing if it waits for the thread and no more
\* than batch_size documents were waiting.
THEOREM GracefulStopFlushes == QueueSpec => []FinalFlush
<1>1. QueueInv => FinalFlush
  BY DEF QueueInv, QueueTypeOK, QueueInOrder, WriterInv, FinalFlush
<1> QED BY <1>1, QueueInvariant, PTL
-----------------------------------------------------------------------------
(* The callbacks implement the queue.                                      *)

USE DEF Runs

LEMMA WriteSpanEnqueues ==
  ASSUME NEW r \in Runs, NEW n, NEW code, ~shutdown, WriteSpan(r, n, code)
  PROVE  Produce
<1>1. r \in Documents
  BY TracingAssumption
<1> QED BY <1>1 DEF WriteSpan, Produce

LEMMA ChainQueues ==
  ASSUME NEW r \in Runs, OnChainEnd(r) \/ OnChainError(r) \/ OnChainTransfer(r)
  PROVE  Produce \/ UNCHANGED queueVars
<1>1. ~shutdown
  BY DEF OnChainEnd, OnChainError, OnChainTransfer, Returns, Raises, Transfers, Fails, Idle
<1>2. \/ NoDocument
      \/ WriteSpan(r, tokens[r], 200) \/ WriteSpan(r, 0, 500)
  BY DEF OnChainEnd, OnChainError, OnChainTransfer
<1> QED BY <1>1, <1>2, WriteSpanEnqueues DEF NoDocument

LEMMA LlmOrToolQueues ==
  ASSUME NEW r \in Runs,
         \/ OnLlmEnd(r) \/ OnLlmError(r) \/ OnLlmTransfer(r)
         \/ OnToolEnd(r) \/ OnToolError(r) \/ OnToolTransfer(r)
  PROVE  Produce \/ UNCHANGED queueVars
<1>1. ~shutdown
  BY DEF OnLlmEnd, OnLlmError, OnLlmTransfer, OnToolEnd, OnToolError, OnToolTransfer,
         Returns, Raises, Transfers, Fails, Idle
<1>2. NoDocument \/ \E n, code : WriteSpan(r, n, code)
  BY DEF OnLlmEnd, OnLlmError, OnLlmTransfer, OnToolEnd, OnToolError, OnToolTransfer
<1> QED BY <1>1, <1>2, WriteSpanEnqueues DEF NoDocument

LEMMA CallbackQueues == Callback => Produce \/ UNCHANGED queueVars
<1> SUFFICES ASSUME Callback PROVE Produce \/ UNCHANGED queueVars
  OBVIOUS
<1>1. CASE \E r \in Runs : \E p \in 0..N :
             \/ \E name \in ChainNames : OnChainStart(r, name, p)
             \/ OnToolStart(r, p) \/ OnLlmStart(r, p)
  BY <1>1 DEF OnChainStart, OnToolStart, OnLlmStart, Started
<1>2. CASE \E r \in Runs :
             \/ OnChainEnd(r) \/ OnChainError(r) \/ OnChainTransfer(r)
             \/ OnLlmEnd(r) \/ OnLlmError(r) \/ OnLlmTransfer(r)
             \/ OnToolEnd(r) \/ OnToolError(r) \/ OnToolTransfer(r)
  BY <1>2, ChainQueues, LlmOrToolQueues
<1>3. CASE WriteFlow
  <2>1. LlmFlow \in Documents
    BY TracingAssumption DEF LlmFlow
  <2> QED BY <1>3, <2>1 DEF WriteFlow, Produce
<1>4. CASE FlushIo
  <2>1. IoDoc \in Documents
    BY TracingAssumption DEF IoDoc
  <2> QED BY <1>4, <2>1 DEF FlushIo, Idle, Produce
<1> QED BY <1>1, <1>2, <1>3, <1>4 DEF Callback

\* The handler of the callbacks, with the writer thread, implements the
\* bounded queue: each callback puts one document on it or leaves it alone,
\* and none after the server has stopped.
THEOREM TracingImplementsQueue == Spec => QueueSpec
<1>1. Init => QueueInit
  BY DEF Init
<1>2. [Next]_vars => [QueueNext]_queueVars
  <2>1. Next => [QueueNext]_queueVars
    BY CallbackQueues DEF Next, Writer, QueueNext
  <2>2. UNCHANGED vars => UNCHANGED queueVars
    BY DEF vars
  <2> QED BY <2>1, <2>2
<1> QED BY <1>1, <1>2, PTL DEF Spec, QueueSpec

\* A graceful stop of the server submits every document that the callbacks
\* have put on the queue, if no more than one batch was waiting.
THEOREM TracesFlushed == Spec => []FinalFlush
BY TracingImplementsQueue, GracefulStopFlushes, PTL

HIDE DEF Runs
-----------------------------------------------------------------------------
(* Induction and recursion along the parents of runs.                      *)

LEMMA LeastNat ==
  ASSUME NEW T \in SUBSET Nat, T # {}
  PROVE  \E n \in T : \A m \in T : n <= m
<1> DEFINE R == OpToRel(<, Nat)
<1>1. IsWellFoundedOn(R, Nat)
  BY NatLessThanWellFounded
<1>2. \A m, n \in Nat : m < n => <<m, n>> \in R
  BY DEF R, OpToRel
<1> HIDE DEF R
<1>3. PICK n \in T : \A m \in T : ~ (<<m, n>> \in R)
  BY <1>1, WFMin
<1>4. \A m \in T : ~(m < n)
  BY <1>2, <1>3
<1> QED BY <1>3, <1>4

\* Parents come before their children.
Upward == {par \in [Runs -> 0..N] : \A q \in Runs : par[q] < q}

LEMMA NTyped == N \in Nat /\ Runs \subseteq 0..N /\ 0..N = Runs \cup {0} /\ 0 \notin Runs /\ 1 \in Runs
BY TracingAssumption DEF Runs

LEMMA UpInduction ==
  ASSUME NEW par \in Upward, NEW T, 0 \in T, \A q \in Runs : par[q] \in T => q \in T
  PROVE  \A q \in 0..N : q \in T
<1> SUFFICES ASSUME (0..N) \ T # {} PROVE FALSE
  OBVIOUS
<1>1. (0..N) \ T \in SUBSET Nat
  BY NTyped
<1>2. PICK q \in (0..N) \ T : \A m \in (0..N) \ T : q <= m
  BY <1>1, LeastNat
<1>3. q \in Runs /\ par[q] \in 0..N /\ par[q] < q
  BY <1>2, NTyped DEF Upward
<1>4. par[q] \in T
  BY <1>1, <1>2, <1>3
<1> QED BY <1>2, <1>3, <1>4

\* A recursive definition along the parents defines a function.
Climbs(h, par, b, g) == h[0] = b /\ \A q \in Runs : h[q] = g[q][h[par[q]]]

LEMMA UpRecursion ==
  ASSUME NEW par \in Upward, NEW S, NEW b \in S, NEW g \in [Runs -> [S -> S]]
  PROVE  \E h \in [0..N -> S] : Climbs(h, par, b, g)
<1> DEFINE Good(k, h) == h[0] = b /\ \A q \in Runs : q <= k => h[q] = g[q][h[par[q]]]
           T == {k \in 0..N : \E h \in [0..N -> S] : Good(k, h)}
<1> SUFFICES N \in T
  BY NTyped DEF Climbs
<1>1. 0 \in T
  <2>1. [q \in 0..N |-> b] \in [0..N -> S] /\ [q \in 0..N |-> b][0] = b
    BY NTyped
  <2>2. \A q \in Runs : ~(q <= 0)
    BY NTyped DEF Runs
  <2>3. Good(0, [q \in 0..N |-> b])
    BY <2>1, <2>2
  <2> QED BY <2>1, <2>3, NTyped
<1>2. ASSUME NEW k \in Nat, k + 1 \in 0..N, k \in T
      PROVE  k + 1 \in T
  <2>1. PICK h \in [0..N -> S] : Good(k, h)
    BY <1>2
  <2> DEFINE e == [h EXCEPT ![k + 1] = g[k + 1][h[par[k + 1]]]]
  <2>2. k + 1 \in Runs /\ par[k + 1] \in 0..N
    BY <1>2, NTyped DEF Upward, Runs
  <2>3. g[k + 1][h[par[k + 1]]] \in S
    BY <2>2
  <2>4. e \in [0..N -> S]
    BY <2>3
  <2>5. e[0] = b
    BY <2>1, NTyped
  <2>6. ASSUME NEW q \in Runs, q <= k + 1
        PROVE  e[q] = g[q][e[par[q]]]
    <3>1. par[q] \in 0..N /\ par[q] < q /\ q \in Nat
      BY NTyped DEF Upward, Runs
    <3>2. e[par[q]] = h[par[q]]
      BY <2>6, <3>1
    <3>3. CASE q = k + 1
      BY <2>2, <3>2, <3>3, NTyped
    <3>4. CASE q # k + 1
      <4>1. q <= k
        BY <2>6, <3>1, <3>4
      <4>2. h[q] = g[q][h[par[q]]]
        BY <2>1, <4>1
      <4>3. e[q] = h[q]
        BY <3>4, NTyped
      <4> QED BY <3>2, <4>2, <4>3
    <3> QED BY <3>3, <3>4
  <2> HIDE DEF e
  <2> QED BY <1>2, <2>4, <2>5, <2>6
<1> HIDE DEF T
<1>3. \A k \in Nat : k \in 0..N => k \in T
  <2> SUFFICES ASSUME {k \in 0..N : k \notin T} # {} PROVE FALSE
    OBVIOUS
  <2>1. {k \in 0..N : k \notin T} \in SUBSET Nat
    BY NTyped
  <2>2. PICK k \in {j \in 0..N : j \notin T} : \A m \in {j \in 0..N : j \notin T} : k <= m
    BY <2>1, LeastNat
  <2>3. k # 0 /\ k - 1 \in Nat /\ k - 1 \in 0..N /\ k - 1 \in T
    BY <1>1, <2>2, NTyped
  <2>4. (k - 1) + 1 \in 0..N /\ (k - 1) + 1 = k
    BY <2>2, NTyped
  <2>5. (k - 1) + 1 \in T
    BY <1>2, <2>3, <2>4
  <2> QED BY <2>2, <2>4, <2>5
<1> QED BY <1>3, NTyped

-----------------------------------------------------------------------------
LEMMA AboveExists ==
  ASSUME NEW par \in Upward
  PROVE  \E h \in [0..N -> SUBSET Runs] :
           \A r \in 0..N : h[r] = IF r = 0 THEN {}
                                 ELSE IF par[r] = 0 THEN {} ELSE {par[r]} \cup h[par[r]]
<1> DEFINE S == SUBSET Runs
           g == [q \in Runs |-> [x \in S |-> IF par[q] = 0 THEN {} ELSE {par[q]} \cup x]]
<1>1. \A q \in Runs : par[q] \in 0..N
  BY DEF Upward
<1>2. g \in [Runs -> [S -> S]]
  BY <1>1, NTyped
<1>3. {} \in S
  OBVIOUS
<1>4. PICK h \in [0..N -> S] : Climbs(h, par, {}, g)
  <2> HIDE DEF g, S
  <2> QED BY <1>2, <1>3, UpRecursion
<1>5. \A q \in Runs : h[q] = IF par[q] = 0 THEN {} ELSE {par[q]} \cup h[par[q]]
  <2> TAKE q \in Runs
  <2>1. h[par[q]] \in S
    BY <1>1
  <2> QED BY <1>4, <2>1 DEF Climbs
<1> QED BY <1>4, <1>5, NTyped DEF Climbs

Parents == [r \in Runs |-> tree[r].parent]

AboveOK ==
  /\ Above \in [0..N -> SUBSET Runs] /\ Above[0] = {}
  /\ \A r \in Runs : Above[r] = IF tree[r].parent = 0 THEN {}
                               ELSE {tree[r].parent} \cup Above[tree[r].parent]

LEMMA AboveClimbs == Parents \in Upward => AboveOK
<1> SUFFICES ASSUME Parents \in Upward PROVE AboveOK
  OBVIOUS
<1>1. PICK h \in [0..N -> SUBSET Runs] :
        \A r \in 0..N : h[r] = IF r = 0 THEN {}
                       ELSE IF Parents[r] = 0 THEN {} ELSE {Parents[r]} \cup h[Parents[r]]
  BY AboveExists
<1>2. h = [r \in 0..N |-> IF r = 0 \/ tree[r].parent = 0 THEN {}
                         ELSE {tree[r].parent} \cup h[tree[r].parent]]
  <2>1. \A r \in 0..N : h[r] = IF r = 0 \/ tree[r].parent = 0 THEN {}
                               ELSE {tree[r].parent} \cup h[tree[r].parent]
    BY <1>1, NTyped DEF Parents
  <2> QED BY <2>1
<1>3. Above = [r \in 0..N |-> IF r = 0 \/ tree[r].parent = 0 THEN {}
                             ELSE {tree[r].parent} \cup Above[tree[r].parent]]
  BY <1>2 DEF Above
<1>4. /\ Above[0] = {}
      /\ \A r \in Runs : Above[r] = IF tree[r].parent = 0 THEN {}
                                   ELSE {tree[r].parent} \cup Above[tree[r].parent]
  BY <1>3, NTyped
<1> DEFINE T == {q \in 0..N : Above[q] = h[q]}
<1>5. \A q \in 0..N : q \in T
  <2>1. 0 \in T
    BY <1>1, <1>4, NTyped
  <2>2. ASSUME NEW q \in Runs, Parents[q] \in T PROVE q \in T
    <3>1. q \in 0..N /\ q # 0 /\ Parents[q] = tree[q].parent
      BY NTyped DEF Parents
    <3>2. Above[Parents[q]] = h[Parents[q]]
      BY <2>2
    <3>3. h[q] = IF Parents[q] = 0 THEN {} ELSE {Parents[q]} \cup h[Parents[q]]
      BY <1>1, <3>1
    <3>4. Above[q] = IF Parents[q] = 0 THEN {} ELSE {Parents[q]} \cup Above[Parents[q]]
      BY <1>4, <3>1
    <3> QED BY <3>1, <3>2, <3>3, <3>4
  <2> HIDE DEF T
  <2> QED BY <2>1, <2>2, UpInduction
<1>6. Above = [r \in 0..N |-> Above[r]]
  BY <1>3
<1>7. Above \in [0..N -> SUBSET Runs]
  BY <1>5, <1>6
<1> QED BY <1>4, <1>7 DEF AboveOK
-----------------------------------------------------------------------------
(* The runs.                                                               *)

States == {"new", "running", "flushing", "ended", "transferred"}

TreeTypes ==
  /\ tree \in [Runs -> [kind : Kinds, name : Names, parent : 0..N, state : States]]
  /\ entry \in [Runs -> Entries \cup {NoEntry}]
  /\ span \in [Runs -> Spans \cup {NoSpan}] /\ late \subseteq Runs /\ raised \subseteq Runs /\ io \in BOOLEAN
  /\ tokens \in [Runs -> Nat] /\ calls \in Nat /\ flow \in (0..N) \cup {NoSpan}

\* A run has a lower number than the runs that start from it, and the handler
\* an entry for the runs in flight, the same as LangChain's.
RunOK(r) ==
  /\ tree[r].parent < r
  /\ tree[r].state = "new" =>
       /\ tree[r].parent = 0 /\ span[r] = NoSpan /\ r \notin late \cup raised /\ tokens[r] = 0
       /\ \A q \in Runs : q > r => tree[q].state = "new"
  /\ tree[r].state # "new" =>
       /\ (r = 1 <=> tree[r].parent = 0)
       /\ r = 1 => tree[r].kind = "chain" /\ tree[r].name = "agent"
       /\ r # 1 /\ tree[r].kind = "chain" => tree[r].name # "agent"
       /\ r # 1 => /\ tree[tree[r].parent].state # "new"
                   /\ tree[tree[r].parent].kind # "llm"
  /\ tree[r].state = "flushing" => r = 1
  /\ r = 1 /\ tree[r].state \in {"flushing", "ended"} => span[r] # NoSpan
  /\ entry[r] = IF tree[r].state \in {"running", "flushing"}
                THEN [kind |-> tree[r].kind, name |-> tree[r].name, parent |-> tree[r].parent]
                ELSE NoEntry
  /\ Running(r) => span[r] = NoSpan /\ r \notin late \cup raised

\* The LLM calls that were answered; no run counts more than there were.
Answered == {q \in Runs : tree[q].kind = "llm" /\ span[q] # NoSpan /\ q \notin raised}

Tally == calls = Cardinality(Answered) /\ \A r \in Runs : tokens[r] <= calls

TreeInv == TreeTypes /\ (\A r \in Runs : RunOK(r)) /\ Tally

\* How a run ends, by which callback, and with what document if any.
SpanOf(r, n, code) ==
  [parent |-> NearestSpan[tree[r].parent], depth |-> MeaningfulDepth[tree[r].parent],
   calls |-> n, code |-> code]

EndsBy(r, how, n, code, err) ==
  \/ /\ tree[r].kind = "chain"
     /\ \/ how = IF tree[r].parent = 0 THEN "flushing" ELSE "ended"
        \/ how = "transferred" /\ err = {}
     /\ \/ n = tokens[r] /\ err = {} /\ code = IF Skipped(r) THEN 0 ELSE 200
        \/ n = 0 /\ err = {r} /\ code = IF SkippedOnError(r) THEN 0 ELSE 500
  \/ /\ tree[r].kind = "llm"
     /\ \/ how = "ended" /\ n = 1 /\ err = {} /\ code \in {200, 500}
        \/ how = "ended" /\ n = 0 /\ err = {r} /\ code = 500
        \/ how = "transferred" /\ n = 0 /\ err = {} /\ code = 0
  \/ /\ tree[r].kind = "tool"
     /\ \/ how = "ended" /\ n = tokens[r] /\ err = {} /\ code \in {200, 500}
        \/ how = "ended" /\ n = 0 /\ err = {r} /\ code = 500
        \/ how = "transferred" /\ n = 0 /\ err = {} /\ code = 0

Ends(r, how, n, code, err) ==
  /\ Idle /\ Running(r) /\ Ended(r, how) /\ EndsBy(r, how, n, code, err)
  /\ entry' = IF how = "flushing" THEN entry ELSE [entry EXCEPT ![r] = NoEntry]
  /\ span' = IF code = 0 THEN span ELSE [span EXCEPT ![r] = SpanOf(r, n, code)]
  /\ IF tree[r].kind = "llm" /\ n = 1
     THEN calls' = calls + 1 /\ tokens' = AccumulateToAncestors(r)
     ELSE calls' = calls /\ tokens' = IF how = "flushing" THEN tokens ELSE [tokens EXCEPT ![r] = 0]
  /\ flow' = flow /\ raised' = raised \cup err

Starts(r, p) ==
  /\ MayStart(r, p) /\ flow' = flow
  /\ \E kind \in Kinds, name \in Names :
       /\ r = 1 => kind = "chain" /\ name = "agent"
       /\ r # 1 /\ kind = "chain" => name # "agent"
       /\ Started(r, kind, name, p)
  /\ calls' = IF p = 0 THEN 0 ELSE calls

LEMMA EndsAll ==
  ASSUME NEW r \in Runs,
         \/ OnChainEnd(r) \/ OnChainError(r) \/ OnChainTransfer(r)
         \/ OnLlmEnd(r) \/ OnLlmError(r) \/ OnLlmTransfer(r)
         \/ OnToolEnd(r) \/ OnToolError(r) \/ OnToolTransfer(r)
  PROVE  \E how, n, code, err : Ends(r, how, n, code, err)
<1> DEFINE last == IF tree[r].parent = 0 THEN "flushing" ELSE "ended"
<1>1. CASE OnChainEnd(r)
  <2>1. Ends(r, last, tokens[r], IF Skipped(r) THEN 0 ELSE 200, {})
    BY <1>1 DEF Ends, EndsBy, WriteSpan, SpanOf, NoDocument, Forget, Cleanup, Ended, Returns,
               Raises, Transfers, Fails, OnChainEnd, ChainEnded
  <2> QED BY <2>1
<1>2. CASE OnChainError(r)
  <2>1. Ends(r, last, 0, IF SkippedOnError(r) THEN 0 ELSE 500, {r})
    BY <1>2 DEF Ends, EndsBy, WriteSpan, SpanOf, NoDocument, Forget, Cleanup, Ended, Returns,
               Raises, Transfers, Fails, OnChainError, ChainEnded
  <2> QED BY <2>1
<1>3. CASE OnChainTransfer(r)
  <2>1. Ends(r, "transferred", tokens[r], IF Skipped(r) THEN 0 ELSE 200, {})
    BY <1>3 DEF Ends, EndsBy, WriteSpan, SpanOf, NoDocument, Forget, Cleanup, Ended, Returns,
               Raises, Transfers, Fails, OnChainTransfer
  <2> QED BY <2>1
<1>4. CASE OnLlmEnd(r)
  <2>1. PICK code \in {200, 500} : WriteSpan(r, 1, code)
    BY <1>4 DEF OnLlmEnd
  <2>2. /\ Idle /\ Running(r) /\ tree[r].kind = "llm" /\ raised' = raised
        /\ Ended(r, "ended") /\ entry' = [entry EXCEPT ![r] = NoEntry] /\ flow' = flow
        /\ tokens' = AccumulateToAncestors(r) /\ calls' = calls + 1
    BY <1>4 DEF OnLlmEnd, Returns, Forget, Cleanup
  <2>3. span' = [span EXCEPT ![r] = SpanOf(r, 1, code)]
    BY <2>1 DEF WriteSpan, SpanOf
  <2>4. EndsBy(r, "ended", 1, code, {})
    BY <2>2 DEF EndsBy
  <2>5. code # 0
    OBVIOUS
  <2>6. Ends(r, "ended", 1, code, {})
    BY <2>2, <2>3, <2>4, <2>5 DEF Ends
  <2> QED BY <2>6
<1>5. CASE OnLlmError(r)
  <2>1. Ends(r, "ended", 0, 500, {r})
    BY <1>5 DEF Ends, EndsBy, WriteSpan, SpanOf, NoDocument, Forget, Cleanup, Ended, Returns,
               Raises, Transfers, Fails, OnLlmError
  <2> QED BY <2>1
<1>6. CASE OnLlmTransfer(r)
  <2>1. Ends(r, "transferred", 0, 0, {})
    BY <1>6 DEF Ends, EndsBy, WriteSpan, SpanOf, NoDocument, Forget, Cleanup, Ended, Returns,
               Raises, Transfers, Fails, OnLlmTransfer
  <2> QED BY <2>1
<1>7. CASE OnToolEnd(r)
  <2>1. PICK code \in {200, 500} : WriteSpan(r, tokens[r], code)
    BY <1>7 DEF OnToolEnd
  <2>2. /\ Idle /\ Running(r) /\ tree[r].kind = "tool" /\ raised' = raised
        /\ Ended(r, "ended") /\ entry' = [entry EXCEPT ![r] = NoEntry] /\ flow' = flow
        /\ tokens' = [tokens EXCEPT ![r] = 0] /\ calls' = calls
    BY <1>7 DEF OnToolEnd, Returns, Forget, Cleanup
  <2>3. span' = [span EXCEPT ![r] = SpanOf(r, tokens[r], code)]
    BY <2>1 DEF WriteSpan, SpanOf
  <2>4. EndsBy(r, "ended", tokens[r], code, {})
    BY <2>2 DEF EndsBy
  <2>5. code # 0
    OBVIOUS
  <2>6. Ends(r, "ended", tokens[r], code, {})
    BY <2>2, <2>3, <2>4, <2>5 DEF Ends
  <2> QED BY <2>6
<1>8. CASE OnToolError(r)
  <2>1. Ends(r, "ended", 0, 500, {r})
    BY <1>8 DEF Ends, EndsBy, WriteSpan, SpanOf, NoDocument, Forget, Cleanup, Ended, Returns,
               Raises, Transfers, Fails, OnToolError
  <2> QED BY <2>1
<1>9. CASE OnToolTransfer(r)
  <2>1. Ends(r, "transferred", 0, 0, {})
    BY <1>9 DEF Ends, EndsBy, WriteSpan, SpanOf, NoDocument, Forget, Cleanup, Ended, Returns,
               Raises, Transfers, Fails, OnToolTransfer
  <2> QED BY <2>1
<1> QED BY <1>1, <1>2, <1>3, <1>4, <1>5, <1>6, <1>7, <1>8, <1>9

LEMMA StartsAll ==
  ASSUME NEW r \in Runs, NEW p \in 0..N,
         \/ \E name \in ChainNames : OnChainStart(r, name, p)
         \/ OnToolStart(r, p) \/ OnLlmStart(r, p)
  PROVE  Starts(r, p)
<1> USE DEF Starts, Kinds, Names, ChainNames
<1>1. CASE \E name \in ChainNames : OnChainStart(r, name, p)
  BY <1>1 DEF OnChainStart, Started
<1>2. CASE OnToolStart(r, p)
  BY <1>2 DEF OnToolStart, Started, MayStart
<1>3. CASE OnLlmStart(r, p)
  BY <1>3 DEF OnLlmStart, Started, MayStart
<1> QED BY <1>1, <1>2, <1>3

-----------------------------------------------------------------------------
(* Every step starts a run, ends one, writes the document of the LLM calls *)
(* or leaves the trace alone.                                              *)

Still ==
  /\ UNCHANGED <<tree, entry, tokens, calls, span, flow, late, raised>>
  /\ io' \in {io, TRUE}

LEMMA StepCases ==
  ASSUME [Next]_vars
  PROVE  \/ \E r \in Runs, p \in 0..N : Starts(r, p)
         \/ \E r \in Runs : \E how, n, code, err : Ends(r, how, n, code, err)
         \/ WriteFlow \/ Still
<1>1. CASE Callback
  <2>1. CASE \E r \in Runs : \E p \in 0..N :
               \/ \E name \in ChainNames : OnChainStart(r, name, p)
               \/ OnToolStart(r, p) \/ OnLlmStart(r, p)
    <3>1. PICK r \in Runs : \E p \in 0..N :
               \/ \E name \in ChainNames : OnChainStart(r, name, p)
               \/ OnToolStart(r, p) \/ OnLlmStart(r, p)
      BY <2>1
    <3>2. PICK p \in 0..N :
               \/ \E name \in ChainNames : OnChainStart(r, name, p)
               \/ OnToolStart(r, p) \/ OnLlmStart(r, p)
      BY <3>1
    <3>3. Starts(r, p)
      BY <3>2, StartsAll
    <3> QED BY <3>3
  <2>2. CASE \E r \in Runs :
               \/ OnChainEnd(r) \/ OnChainError(r) \/ OnChainTransfer(r)
               \/ OnLlmEnd(r) \/ OnLlmError(r) \/ OnLlmTransfer(r)
               \/ OnToolEnd(r) \/ OnToolError(r) \/ OnToolTransfer(r)
    BY <2>2, EndsAll
  <2>3. CASE FlushIo
    BY <2>3 DEF FlushIo, Still
  <2> QED BY <1>1, <2>1, <2>2, <2>3 DEF Callback
<1>2. CASE Writer \/ UNCHANGED vars
  BY <1>2 DEF Writer, traceVars, vars, Still
<1> QED BY <1>1, <1>2 DEF Next

LEMMA AnsweredBound ==
  ASSUME TreeTypes
  PROVE  /\ IsFiniteSet(Answered) /\ Cardinality(Answered) \in 0..N
         /\ \A r \in Runs : r \notin Answered => Cardinality(Answered) < N
<1>1. IsFiniteSet(Runs) /\ Cardinality(Runs) = N
  BY FS_Interval, NTyped, TracingAssumption DEF Runs
<1>2. Answered \subseteq Runs
  BY DEF Answered
<1>3. /\ IsFiniteSet(Answered) /\ Cardinality(Answered) <= N
      /\ N = Cardinality(Answered) => Runs = Answered
  BY <1>1, <1>2, FS_Subset
<1>4. Cardinality(Answered) \in Nat
  BY <1>3, FS_CardinalityType
<1>5. \A r \in Runs : r \notin Answered => N # Cardinality(Answered)
  BY <1>3
<1> QED BY <1>3, <1>4, <1>5, NTyped

-----------------------------------------------------------------------------
LEMMA StartKeepsTree ==
  ASSUME NEW r \in Runs, NEW p \in 0..N, TreeInv, Starts(r, p)
  PROVE  TreeInv'
<1>0. TreeTypes /\ (\A q \in Runs : RunOK(q)) /\ Tally
  BY DEF TreeInv
<1>1. PICK kind \in Kinds, name \in Names :
        /\ r = 1 => kind = "chain" /\ name = "agent"
        /\ r # 1 /\ kind = "chain" => name # "agent"
        /\ Started(r, kind, name, p)
  BY DEF Starts
<1>2. /\ tree' = [tree EXCEPT ![r] = [kind |-> kind, name |-> name, parent |-> p, state |-> "running"]]
      /\ entry' = [entry EXCEPT ![r] = [kind |-> kind, name |-> name, parent |-> p]]
      /\ tokens' = tokens /\ span' = span /\ flow' = flow /\ late' = late /\ raised' = raised /\ io' = io
      /\ calls' = IF p = 0 THEN 0 ELSE calls
  BY <1>1 DEF Started, Starts
<1>3. /\ tree[r].state = "new" /\ \A q \in 1..r - 1 : tree[q].state # "new"
      /\ IF r = 1 THEN p = 0 ELSE p \in Runs /\ tree[p].state = "running" /\ tree[p].kind # "llm"
  BY DEF Starts, MayStart, Running
<1>4. TreeTypes'
  <2>1. tree' \in [Runs -> [kind : Kinds, name : Names, parent : 0..N, state : States]]
    BY <1>0, <1>2 DEF TreeTypes, States
  <2>2. entry' \in [Runs -> Entries \cup {NoEntry}]
    BY <1>0, <1>2 DEF TreeTypes, Entries
  <2> QED BY <1>0, <1>2, <2>1, <2>2 DEF TreeTypes
<1>5. /\ tree'[r] = [kind |-> kind, name |-> name, parent |-> p, state |-> "running"]
      /\ entry'[r] = [kind |-> kind, name |-> name, parent |-> p]
      /\ \A q \in Runs : q # r => tree'[q] = tree[q] /\ entry'[q] = entry[q]
  BY <1>0, <1>2 DEF TreeTypes
<1>6. p < r
  <2>1. CASE r = 1
    BY <1>3, <2>1
  <2>2. CASE r # 1
    <3>1. p \in Runs /\ tree[p].state = "running"
      BY <1>3, <2>2
    <3>2. ~(p > r) /\ p # r
      BY <1>0, <1>3, <3>1 DEF RunOK
    <3> QED BY <3>1, <3>2, NTyped DEF Runs
  <2> QED BY <2>1, <2>2
<1>7. \A q \in Runs : RunOK(q)'
  <2> TAKE q \in Runs
  <2>1. CASE q = r
    <3>1. r \in Nat /\ p \in Nat /\ (p = 0 <=> r = 1)
      BY <1>3, NTyped DEF Runs
    <3>2. r # 1 => tree'[p].state # "new" /\ tree'[p].kind # "llm"
      BY <1>3, <1>5, <1>6, <3>1
    <3>3. span[r] = NoSpan /\ r \notin late \cup raised
      BY <1>0, <1>3 DEF RunOK
    <3> QED BY <1>1, <1>2, <1>5, <1>6, <2>1, <3>1, <3>2, <3>3 DEF RunOK, Running
  <2>2. CASE q # r
    <3>1. RunOK(q) /\ tree'[q] = tree[q] /\ entry'[q] = entry[q]
      BY <1>0, <1>5, <2>2
    <3>2. tree[q].state = "new" => \A s \in Runs : s > q => tree'[s].state = "new"
      <4> SUFFICES ASSUME tree[q].state = "new", NEW s \in Runs, s > q PROVE tree'[s].state = "new"
        OBVIOUS
      <4>1. tree[s].state = "new"
        BY <3>1 DEF RunOK
      <4>2. s # r
        BY <1>3, NTyped DEF Runs
      <4> QED BY <1>5, <4>1, <4>2
    <3>3. tree[q].state # "new" /\ q # 1 =>
            /\ tree[q].parent \in Runs /\ tree'[tree[q].parent].state # "new"
            /\ tree'[tree[q].parent].kind # "llm"
      <4> SUFFICES ASSUME tree[q].state # "new", q # 1
                   PROVE  /\ tree[q].parent \in Runs /\ tree'[tree[q].parent].state # "new"
                          /\ tree'[tree[q].parent].kind # "llm"
        OBVIOUS
      <4>1. tree[q].parent \in 0..N /\ tree[q].parent # 0
        BY <1>0, <3>1 DEF TreeTypes, RunOK
      <4>2. /\ tree[q].parent \in Runs /\ tree[tree[q].parent].state # "new"
            /\ tree[tree[q].parent].kind # "llm"
        BY <3>1, <4>1, NTyped DEF RunOK
      <4> QED BY <1>3, <1>5, <4>2
    <3> QED BY <1>2, <3>1, <3>2, <3>3 DEF RunOK, Running
  <2> QED BY <2>1, <2>2
<1>8. Tally'
  <2>1. Answered' = Answered
    <3>1. span[r] = NoSpan
      BY <1>0, <1>3 DEF RunOK
    <3> QED BY <1>2, <1>5, <3>1 DEF Answered
  <2>2. CASE r = 1
    <3>1. \A q \in Runs : tree[q].state = "new"
      <4>1. RunOK(1) /\ tree[1].state = "new"
        BY <1>0, <1>3, <2>2
      <4>2. \A q \in Runs : q > 1 => tree[q].state = "new"
        BY <4>1 DEF RunOK
      <4>3. \A q \in Runs : q > 1 \/ q = 1
        BY NTyped DEF Runs
      <4> QED BY <4>1, <4>2, <4>3
    <3>2. (\A q \in Runs : span[q] = NoSpan) /\ \A q \in Runs : tokens[q] = 0
      BY <1>0, <3>1 DEF RunOK
    <3>3. Answered = {}
      BY <3>2 DEF Answered
    <3> QED BY <1>2, <1>3, <2>1, <2>2, <3>2, <3>3, FS_EmptySet DEF Tally
  <2>3. CASE r # 1
    <3>1. calls' = calls
      BY <1>2, <1>3, <2>3, NTyped
    <3> QED BY <1>0, <1>2, <2>1, <3>1 DEF Tally
  <2> QED BY <2>2, <2>3
<1> QED BY <1>4, <1>7, <1>8 DEF TreeInv

-----------------------------------------------------------------------------
(* The walks up the entries.                                               *)

Walk == [q \in Runs |-> ParentOf(q)]

WalksOK ==
  /\ NearestSpan \in [0..N -> 0..N] /\ NearestSpan[0] = 0
  /\ \A q \in Runs : NearestSpan[q] = IF Meaningful(q) THEN q ELSE NearestSpan[ParentOf(q)]
  /\ MeaningfulDepth \in [0..N -> Nat] /\ MeaningfulDepth[0] = 0
  /\ \A q \in Runs : /\ MeaningfulDepth[q] \in 0..q
                     /\ MeaningfulDepth[q] = MeaningfulDepth[ParentOf(q)] + (IF Meaningful(q) THEN 1 ELSE 0)
  /\ Ancestors \in [0..N -> SUBSET Runs] /\ Ancestors[0] = {}
  /\ \A q \in Runs : Ancestors[q] = {q} \cup Ancestors[ParentOf(q)]
  /\ \A q \in 0..N : \A s \in Ancestors[q] : s <= q

LEMMA NearestClimbs ==
  ASSUME Walk \in Upward
  PROVE  /\ NearestSpan \in [0..N -> 0..N] /\ NearestSpan[0] = 0
         /\ \A q \in Runs : NearestSpan[q] = IF Meaningful(q) THEN q ELSE NearestSpan[ParentOf(q)]
<1> DEFINE g == [q \in Runs |-> [x \in 0..N |-> IF Meaningful(q) THEN q ELSE x]]
<1>0. \A q \in Runs : ParentOf(q) \in 0..N /\ Walk[q] = ParentOf(q)
  BY DEF Walk, Upward
<1>1. g \in [Runs -> [0..N -> 0..N]] /\ 0 \in 0..N
  BY NTyped
<1>2. PICK h \in [0..N -> 0..N] : Climbs(h, Walk, 0, g)
  <2> HIDE DEF g
  <2> QED BY <1>1, UpRecursion
<1>3. \A q \in Runs : h[q] = IF Meaningful(q) THEN q ELSE h[ParentOf(q)]
  BY <1>0, <1>2 DEF Climbs
<1>4. h = [q \in 0..N |-> IF q = 0 \/ Meaningful(q) THEN q ELSE h[ParentOf(q)]]
  <2>1. \A q \in 0..N : h[q] = IF q = 0 \/ Meaningful(q) THEN q ELSE h[ParentOf(q)]
    BY <1>2, <1>3, NTyped DEF Climbs
  <2> QED BY <2>1
<1>5. NearestSpan = [q \in 0..N |-> IF q = 0 \/ Meaningful(q) THEN q ELSE NearestSpan[ParentOf(q)]]
  BY <1>4 DEF NearestSpan
<1>6. /\ NearestSpan[0] = 0
      /\ \A q \in Runs : NearestSpan[q] = IF Meaningful(q) THEN q ELSE NearestSpan[ParentOf(q)]
  BY <1>5, NTyped
<1> DEFINE T == {q \in 0..N : NearestSpan[q] \in 0..N}
<1>7. \A q \in 0..N : q \in T
  <2>1. 0 \in T
    BY <1>6, NTyped
  <2>2. ASSUME NEW q \in Runs, Walk[q] \in T PROVE q \in T
    BY <1>0, <1>6, <2>2, NTyped
  <2> HIDE DEF T
  <2> QED BY <2>1, <2>2, UpInduction
<1>8. NearestSpan = [q \in 0..N |-> NearestSpan[q]]
  BY <1>5
<1> QED BY <1>6, <1>7, <1>8

LEMMA DepthClimbs ==
  ASSUME Walk \in Upward
  PROVE  /\ MeaningfulDepth \in [0..N -> Nat] /\ MeaningfulDepth[0] = 0
         /\ \A q \in Runs :
              /\ MeaningfulDepth[q] \in 0..q
              /\ MeaningfulDepth[q] = MeaningfulDepth[ParentOf(q)] + (IF Meaningful(q) THEN 1 ELSE 0)
<1> DEFINE g == [q \in Runs |-> [x \in Nat |-> x + (IF Meaningful(q) THEN 1 ELSE 0)]]
<1>0. \A q \in Runs : ParentOf(q) \in 0..N /\ Walk[q] = ParentOf(q) /\ ParentOf(q) < q
  BY DEF Walk, Upward
<1>1. g \in [Runs -> [Nat -> Nat]] /\ 0 \in Nat
  BY NTyped
<1>2. PICK h \in [0..N -> Nat] : Climbs(h, Walk, 0, g)
  <2> HIDE DEF g
  <2> QED BY <1>1, UpRecursion
<1>3. \A q \in Runs : h[q] = h[ParentOf(q)] + (IF Meaningful(q) THEN 1 ELSE 0)
  BY <1>0, <1>2 DEF Climbs
<1>4. h = [q \in 0..N |-> IF q = 0 THEN 0 ELSE h[ParentOf(q)] + (IF Meaningful(q) THEN 1 ELSE 0)]
  <2>1. \A q \in 0..N : h[q] = IF q = 0 THEN 0 ELSE h[ParentOf(q)] + (IF Meaningful(q) THEN 1 ELSE 0)
    BY <1>2, <1>3, NTyped DEF Climbs
  <2> QED BY <2>1
<1>5. MeaningfulDepth = [q \in 0..N |->
        IF q = 0 THEN 0 ELSE MeaningfulDepth[ParentOf(q)] + (IF Meaningful(q) THEN 1 ELSE 0)]
  BY <1>4 DEF MeaningfulDepth
<1>6. /\ MeaningfulDepth[0] = 0
      /\ \A q \in Runs : MeaningfulDepth[q] = MeaningfulDepth[ParentOf(q)] + (IF Meaningful(q) THEN 1 ELSE 0)
  BY <1>5, NTyped
<1> DEFINE T == {q \in 0..N : MeaningfulDepth[q] \in 0..q}
<1>7. \A q \in 0..N : q \in T
  <2>1. 0 \in T
    BY <1>6, NTyped
  <2>2. ASSUME NEW q \in Runs, Walk[q] \in T PROVE q \in T
    <3>1. MeaningfulDepth[ParentOf(q)] \in 0..ParentOf(q) /\ ParentOf(q) \in 0..N /\ ParentOf(q) < q
      BY <1>0, <2>2
    <3> QED BY <1>6, <3>1, NTyped
  <2> HIDE DEF T
  <2> QED BY <2>1, <2>2, UpInduction
<1>8. MeaningfulDepth = [q \in 0..N |-> MeaningfulDepth[q]]
  BY <1>5
<1>9. \A q \in 0..N : MeaningfulDepth[q] \in Nat
  BY <1>7
<1>10. MeaningfulDepth \in [0..N -> Nat]
  BY <1>8, <1>9
<1>11. \A q \in Runs : MeaningfulDepth[q] \in 0..q
  BY <1>7, NTyped
<1> QED BY <1>6, <1>10, <1>11

LEMMA AncestorsClimb ==
  ASSUME Walk \in Upward
  PROVE  /\ Ancestors \in [0..N -> SUBSET Runs] /\ Ancestors[0] = {}
         /\ \A q \in Runs : Ancestors[q] = {q} \cup Ancestors[ParentOf(q)]
         /\ \A q \in 0..N : \A s \in Ancestors[q] : s <= q
<1> DEFINE S == SUBSET Runs
           g == [q \in Runs |-> [x \in S |-> {q} \cup x]]
<1>0. \A q \in Runs : ParentOf(q) \in 0..N /\ Walk[q] = ParentOf(q) /\ ParentOf(q) < q
  BY DEF Walk, Upward
<1>1. g \in [Runs -> [S -> S]] /\ {} \in S
  OBVIOUS
<1>2. PICK h \in [0..N -> S] : Climbs(h, Walk, {}, g)
  <2> HIDE DEF g, S
  <2> QED BY <1>1, UpRecursion
<1>3. \A q \in Runs : h[q] = {q} \cup h[ParentOf(q)]
  <2> TAKE q \in Runs
  <2>1. h[ParentOf(q)] \in S
    BY <1>0
  <2> QED BY <1>0, <1>2, <2>1 DEF Climbs
<1>4. h = [q \in 0..N |-> IF q = 0 THEN {} ELSE {q} \cup h[ParentOf(q)]]
  <2>1. \A q \in 0..N : h[q] = IF q = 0 THEN {} ELSE {q} \cup h[ParentOf(q)]
    BY <1>2, <1>3, NTyped DEF Climbs
  <2> QED BY <2>1
<1>5. Ancestors = [q \in 0..N |-> IF q = 0 THEN {} ELSE {q} \cup Ancestors[ParentOf(q)]]
  BY <1>4 DEF Ancestors
<1>6. Ancestors[0] = {} /\ \A q \in Runs : Ancestors[q] = {q} \cup Ancestors[ParentOf(q)]
  BY <1>5, NTyped
<1> DEFINE T == {q \in 0..N : Ancestors[q] \in SUBSET Runs /\ \A s \in Ancestors[q] : s <= q}
<1>7. \A q \in 0..N : q \in T
  <2>1. 0 \in T
    BY <1>6, NTyped
  <2>2. ASSUME NEW q \in Runs, Walk[q] \in T PROVE q \in T
    <3>1. /\ Ancestors[ParentOf(q)] \in SUBSET Runs /\ ParentOf(q) \in 0..N /\ ParentOf(q) < q
          /\ \A s \in Ancestors[ParentOf(q)] : s <= ParentOf(q)
      BY <1>0, <2>2
    <3>2. \A s \in Ancestors[q] : s <= q
      BY <1>6, <3>1, NTyped DEF Runs
    <3> QED BY <1>6, <3>1, <3>2, NTyped
  <2> HIDE DEF T
  <2> QED BY <2>1, <2>2, UpInduction
<1>8. Ancestors = [q \in 0..N |-> Ancestors[q]]
  BY <1>5
<1> QED BY <1>6, <1>7, <1>8

LEMMA TreeClimbs == TreeInv => Parents \in Upward /\ AboveOK /\ Walk \in Upward /\ WalksOK
<1> SUFFICES ASSUME TreeInv PROVE Parents \in Upward /\ AboveOK /\ Walk \in Upward /\ WalksOK
  OBVIOUS
<1>1. \A q \in Runs : tree[q].parent \in 0..N /\ tree[q].parent < q
  BY DEF TreeInv, TreeTypes, RunOK
<1>2. Parents \in Upward
  BY <1>1 DEF Parents, Upward
<1>3. \A q \in Runs : ParentOf(q) \in 0..N /\ ParentOf(q) < q
  <2> TAKE q \in Runs
  <2>1. entry[q] = NoEntry \/ entry[q] = [kind |-> tree[q].kind, name |-> tree[q].name, parent |-> tree[q].parent]
    BY DEF TreeInv, RunOK
  <2> QED BY <1>1, <2>1, NTyped DEF ParentOf, Runs
<1>4. Walk \in Upward
  BY <1>3 DEF Walk, Upward
<1> QED BY <1>2, <1>4, AboveClimbs, NearestClimbs, DepthClimbs, AncestorsClimb DEF WalksOK

-----------------------------------------------------------------------------
\* A run that ends stays what it was; whatever document it leaves is a span.
EndFacts(r, how, n, code) ==
  /\ ~shutdown /\ tree[r].state = "running" /\ tree[1].state # "flushing"
  /\ how \in {"flushing", "ended", "transferred"}
  /\ (how = "flushing" => r = 1) /\ (how = "ended" => r # 1)
  /\ code \in {0, 200, 500} /\ (how = "flushing" => code # 0)
  /\ n \in Nat /\ (n = 0 \/ n = tokens[r] \/ (n = 1 /\ tree[r].kind = "llm"))
  /\ SpanOf(r, n, code).parent = NearestSpan[tree[r].parent]
  /\ SpanOf(r, n, code).depth = MeaningfulDepth[tree[r].parent]
  /\ SpanOf(r, n, code).calls = n /\ SpanOf(r, n, code).code = code
  /\ code # 0 => SpanOf(r, n, code) \in Spans

Keeps(r, how) ==
  /\ tree' \in [Runs -> [kind : Kinds, name : Names, parent : 0..N, state : States]]
  /\ \A q \in Runs : /\ tree'[q].kind = tree[q].kind /\ tree'[q].name = tree[q].name
                     /\ tree'[q].parent = tree[q].parent
                     /\ tree'[q].state = IF q = r THEN how ELSE tree[q].state

LEMMA EndShape ==
  ASSUME NEW r \in Runs, NEW how, NEW n, NEW code, NEW err, TreeInv, Ends(r, how, n, code, err)
  PROVE  EndFacts(r, how, n, code) /\ Keeps(r, how)
<1>0. TreeTypes /\ (\A q \in Runs : RunOK(q)) /\ Tally /\ WalksOK
  BY TreeClimbs DEF TreeInv
<1>1. ~shutdown /\ tree[r].state = "running" /\ tree[1].state # "flushing" /\ EndsBy(r, how, n, code, err)
  BY DEF Ends, Idle, Running
<1>2. /\ tree[r].parent \in 0..N /\ tokens[r] \in Nat /\ tree[r].kind \in Kinds
      /\ (r = 1 <=> tree[r].parent = 0) /\ (r = 1 => tree[r].kind = "chain" /\ tree[r].name = "agent")
  BY <1>0, <1>1 DEF TreeTypes, RunOK
<1>3. /\ how \in {"flushing", "ended", "transferred"}
      /\ (how = "flushing" => r = 1) /\ (how = "ended" => r # 1)
      /\ code \in {0, 200, 500}
      /\ n \in Nat /\ (n = 0 \/ n = tokens[r] \/ (n = 1 /\ tree[r].kind = "llm"))
  BY <1>1, <1>2 DEF EndsBy
<1>4. how = "flushing" => code # 0
  <2> SUFFICES ASSUME how = "flushing" PROVE code # 0
    OBVIOUS
  <2>1. r = 1 /\ tree[r].parent = 0 /\ tree[r].kind = "chain"
    BY <1>2, <1>3
  <2>2. entry[r] = [kind |-> tree[r].kind, name |-> tree[r].name, parent |-> tree[r].parent]
    BY <1>0, <1>1 DEF RunOK
  <2>3. entry[r].name = "agent" /\ NameOf(tree[r].parent) = ""
    BY <1>2, <2>1, <2>2 DEF NameOf
  <2>4. ~Skipped(r) /\ ~SkippedOnError(r)
    BY <2>3 DEF Skipped, SkippedOnError
  <2> QED BY <1>1, <2>1, <2>4 DEF EndsBy
<1>5. n \in 0..N
  BY <1>0, <1>3, AnsweredBound, NTyped DEF Tally, Runs
<1>6. NearestSpan[tree[r].parent] \in 0..N /\ MeaningfulDepth[tree[r].parent] \in 0..N
  <2>1. CASE tree[r].parent = 0
    BY <1>0, <2>1, NTyped DEF WalksOK
  <2>2. CASE tree[r].parent # 0
    <3>1. tree[r].parent \in Runs
      BY <1>2, <2>2, NTyped
    <3>2. /\ NearestSpan[tree[r].parent] \in 0..N
          /\ MeaningfulDepth[tree[r].parent] \in 0..tree[r].parent
      BY <1>0, <1>2, <3>1 DEF WalksOK
    <3> QED BY <1>2, <3>2, NTyped
  <2> QED BY <2>1, <2>2
<1>7. /\ SpanOf(r, n, code).parent = NearestSpan[tree[r].parent]
      /\ SpanOf(r, n, code).depth = MeaningfulDepth[tree[r].parent]
      /\ SpanOf(r, n, code).calls = n /\ SpanOf(r, n, code).code = code
      /\ code # 0 => SpanOf(r, n, code) \in Spans
  BY <1>3, <1>5, <1>6 DEF SpanOf, Spans
<1>8. tree' = [tree EXCEPT ![r].state = how] /\ how \in States
  BY <1>3 DEF Ends, Ended, States
<1>9. tree' \in [Runs -> [kind : Kinds, name : Names, parent : 0..N, state : States]]
  BY <1>0, <1>8 DEF TreeTypes
<1>10. \A q \in Runs : /\ tree'[q].kind = tree[q].kind /\ tree'[q].name = tree[q].name
                       /\ tree'[q].parent = tree[q].parent
                       /\ tree'[q].state = IF q = r THEN how ELSE tree[q].state
  BY <1>0, <1>8 DEF TreeTypes
<1> QED BY <1>1, <1>3, <1>4, <1>7, <1>9, <1>10 DEF EndFacts, Keeps

\* The LLM call that was answered is one more.
LEMMA EndAnswers ==
  ASSUME NEW r \in Runs, NEW how, NEW n, NEW code, NEW err, TreeInv, Ends(r, how, n, code, err)
  PROVE  /\ tree[r].kind = "llm" /\ n = 1 =>
              Answered' = Answered \cup {r} /\ r \notin Answered
         /\ ~(tree[r].kind = "llm" /\ n = 1) => Answered' = Answered
<1>0. TreeTypes /\ RunOK(r)
  BY DEF TreeInv
<1>1. EndFacts(r, how, n, code) /\ Keeps(r, how)
  BY EndShape
<1>2. span[r] = NoSpan
  BY <1>0, <1>1 DEF EndFacts, RunOK, Running
<1>3. span' = IF code = 0 THEN span ELSE [span EXCEPT ![r] = SpanOf(r, n, code)]
  BY DEF Ends
<1>4. \A q \in Runs : q # r => span'[q] = span[q] /\ (q \in raised' <=> q \in raised)
  BY <1>0, <1>3 DEF TreeTypes, Ends, EndsBy
<1>5. code # 0 => span'[r] = SpanOf(r, n, code) /\ span'[r].code = code /\ span'[r] # NoSpan
  BY <1>0, <1>1, <1>3, NoEntryAssumption DEF TreeTypes, EndFacts
<1>6. code = 0 => span'[r] = NoSpan
  BY <1>2, <1>3
<1>7. r \notin Answered
  BY <1>2 DEF Answered
<1>8. \A q \in Runs : q # r => (q \in Answered' <=> q \in Answered)
  BY <1>1, <1>4 DEF Answered, Keeps
<1>9. r \in Answered' <=> tree[r].kind = "llm" /\ n = 1
  <2>1. r \notin raised
    BY <1>0, <1>1 DEF EndFacts, RunOK, Running
  <2>2. /\ tree[r].kind = "llm" =>
              (n = 1 /\ err = {} /\ code # 0) \/ (err = {r} /\ n = 0) \/ (code = 0 /\ n = 0)
        /\ raised' = raised \cup err
    BY DEF Ends, EndsBy
  <2>3. tree'[r].kind = tree[r].kind
    BY <1>1 DEF Keeps
  <2> QED BY <1>5, <1>6, <2>1, <2>2, <2>3 DEF Answered
<1>10. Answered \subseteq Runs /\ Answered' \subseteq Runs
  BY DEF Answered
<1> QED BY <1>7, <1>8, <1>9, <1>10

LEMMA EndKeepsTree ==
  ASSUME NEW r \in Runs, NEW how, NEW n, NEW code, NEW err, TreeInv, Ends(r, how, n, code, err), io' = io
  PROVE  TreeInv'
<1>0. TreeTypes /\ (\A q \in Runs : RunOK(q)) /\ Tally /\ WalksOK
  BY TreeClimbs DEF TreeInv
<1>1. EndFacts(r, how, n, code) /\ Keeps(r, how)
  BY EndShape
<1>2. /\ entry' = IF how = "flushing" THEN entry ELSE [entry EXCEPT ![r] = NoEntry]
      /\ span' = IF code = 0 THEN span ELSE [span EXCEPT ![r] = SpanOf(r, n, code)]
      /\ late' \in {late, late \cup {r}} /\ flow' = flow /\ raised' \in {raised, raised \cup {r}}
  BY DEF Ends, EndsBy, Ended
<1>3. IF tree[r].kind = "llm" /\ n = 1
      THEN calls' = calls + 1 /\ tokens' = AccumulateToAncestors(r)
      ELSE calls' = calls /\ tokens' = IF how = "flushing" THEN tokens ELSE [tokens EXCEPT ![r] = 0]
  BY DEF Ends
<1>4. tokens' \in [Runs -> Nat] /\ \A q \in Runs : tokens'[q] <= calls'
  <2>1. CASE tree[r].kind = "llm" /\ n = 1
    <3>1. tokens' = AccumulateToAncestors(r) /\ calls' = calls + 1
      BY <1>3, <2>1
    <3>2. \A q \in Runs : tokens'[q] = IF q \in Ancestors[entry[r].parent] THEN tokens[q] + 1 ELSE tokens[q]
      BY <3>1 DEF AccumulateToAncestors
    <3>3. tokens' = [q \in Runs |-> tokens'[q]]
      BY <3>1 DEF AccumulateToAncestors
    <3> QED BY <1>0, <3>1, <3>2, <3>3 DEF TreeTypes, Tally
  <2>2. CASE ~(tree[r].kind = "llm" /\ n = 1)
    BY <1>0, <1>3, <2>2 DEF TreeTypes, Tally
  <2> QED BY <2>1, <2>2
<1>5. calls' \in Nat /\ calls' = Cardinality(Answered')
  <2>1. IsFiniteSet(Answered) /\ calls = Cardinality(Answered) /\ calls \in Nat
    BY <1>0, AnsweredBound DEF Tally, TreeTypes
  <2>2. CASE tree[r].kind = "llm" /\ n = 1
    <3>1. Answered' = Answered \cup {r} /\ r \notin Answered
      BY <2>2, EndAnswers
    <3> QED BY <1>3, <2>1, <2>2, <3>1, FS_AddElement
  <2>3. CASE ~(tree[r].kind = "llm" /\ n = 1)
    <3>1. Answered' = Answered
      BY <2>3, EndAnswers
    <3> QED BY <1>3, <2>1, <2>3, <3>1
  <2> QED BY <2>2, <2>3
<1>6. TreeTypes'
  <2>1. entry' \in [Runs -> Entries \cup {NoEntry}]
    BY <1>0, <1>2 DEF TreeTypes
  <2>2. span' \in [Runs -> Spans \cup {NoSpan}]
    BY <1>0, <1>1, <1>2 DEF TreeTypes, EndFacts
  <2>3. late' \subseteq Runs /\ raised' \subseteq Runs /\ flow' \in (0..N) \cup {NoSpan} /\ io' \in BOOLEAN
    BY <1>0, <1>2 DEF TreeTypes
  <2> QED BY <1>1, <1>4, <1>5, <2>1, <2>2, <2>3 DEF TreeTypes, Keeps
<1>7. \A q \in Runs : q # r =>
        /\ span'[q] = span[q] /\ entry'[q] = entry[q] /\ (q \in late' <=> q \in late)
        /\ q \in raised' <=> q \in raised
  BY <1>0, <1>2 DEF TreeTypes
<1>8. \A q \in Runs : RunOK(q)'
  <2> TAKE q \in Runs
  <2>1. CASE q = r
    <3>1. entry'[r] = IF how = "flushing" THEN entry[r] ELSE NoEntry
      BY <1>0, <1>2 DEF TreeTypes
    <3>2. code # 0 => span'[r] # NoSpan
      BY <1>0, <1>1, <1>2, NoEntryAssumption DEF TreeTypes, EndFacts
    <3>3. /\ tree[r].parent < r /\ tree[r].state = "running"
          /\ (r = 1 <=> tree[r].parent = 0)
          /\ (r = 1 => tree[r].kind = "chain" /\ tree[r].name = "agent")
          /\ (r # 1 /\ tree[r].kind = "chain" => tree[r].name # "agent")
          /\ (r # 1 => tree[tree[r].parent].state # "new" /\ tree[tree[r].parent].kind # "llm")
          /\ entry[r] = [kind |-> tree[r].kind, name |-> tree[r].name, parent |-> tree[r].parent]
      BY <1>0, <1>1 DEF RunOK, EndFacts
    <3>4. r # 1 => /\ tree[r].parent \in Runs
                   /\ tree'[tree[r].parent].state # "new" /\ tree'[tree[r].parent].kind # "llm"
      <4> SUFFICES ASSUME r # 1
                   PROVE  /\ tree[r].parent \in Runs
                          /\ tree'[tree[r].parent].state # "new" /\ tree'[tree[r].parent].kind # "llm"
        OBVIOUS
      <4>1. tree[r].parent \in Runs /\ tree[r].parent # r
        BY <1>0, <3>3, NTyped DEF TreeTypes, Runs
      <4> QED BY <1>1, <3>3, <4>1 DEF Keeps
    <3>5. /\ tree'[r].kind = tree[r].kind /\ tree'[r].name = tree[r].name
          /\ tree'[r].parent = tree[r].parent /\ tree'[r].state = how
      BY <1>1 DEF Keeps
    <3> QED BY <1>1, <2>1, <3>1, <3>2, <3>3, <3>4, <3>5 DEF RunOK, EndFacts, Running
  <2>2. CASE q # r
    <3>1. RunOK(q)
      BY <1>0
    <3>2. /\ tree'[q].kind = tree[q].kind /\ tree'[q].name = tree[q].name
          /\ tree'[q].parent = tree[q].parent /\ tree'[q].state = tree[q].state
          /\ span'[q] = span[q] /\ entry'[q] = entry[q] /\ (q \in late' <=> q \in late)
          /\ q \in raised' <=> q \in raised
      <4>1. /\ tree'[q].kind = tree[q].kind /\ tree'[q].name = tree[q].name
            /\ tree'[q].parent = tree[q].parent /\ tree'[q].state = tree[q].state
        BY <1>1, <2>2 DEF Keeps
      <4>2. /\ span'[q] = span[q] /\ entry'[q] = entry[q] /\ (q \in late' <=> q \in late)
            /\ q \in raised' <=> q \in raised
        BY <1>7, <2>2
      <4> QED BY <4>1, <4>2
    <3>3. tree[q].state = "new" => tokens'[q] = 0 /\ \A s \in Runs : s > q => tree'[s].state = "new"
      <4> SUFFICES ASSUME tree[q].state = "new"
                   PROVE  tokens'[q] = 0 /\ \A s \in Runs : s > q => tree'[s].state = "new"
        OBVIOUS
      <4>1. \A s \in Runs : s > q => s # r /\ tree'[s].state = "new"
        <5> TAKE s \in Runs
        <5> HAVE s > q
        <5>1. tree[s].state = "new"
          BY <3>1 DEF RunOK
        <5>2. s # r
          BY <1>1, <5>1 DEF EndFacts
        <5> QED BY <1>1, <5>1, <5>2 DEF Keeps
      <4>2. tokens'[q] = tokens[q]
        <5>1. CASE tree[r].kind = "llm" /\ n = 1
          <6>1. tokens'[q] = IF q \in Ancestors[entry[r].parent] THEN tokens[q] + 1 ELSE tokens[q]
            BY <1>3, <5>1 DEF AccumulateToAncestors
          <6>2. ~(q < r)
            BY <1>1, <3>1 DEF RunOK, EndFacts
          <6>3. entry[r].parent = tree[r].parent /\ tree[r].parent \in 0..N /\ tree[r].parent < r
            BY <1>0, <1>1 DEF RunOK, EndFacts, TreeTypes
          <6>4. q \notin Ancestors[entry[r].parent]
            <7>1. \A s \in Ancestors[tree[r].parent] : s <= tree[r].parent
              BY <1>0, <6>3 DEF WalksOK
            <7>2. q \in Ancestors[tree[r].parent] => q <= tree[r].parent
              BY <7>1
            <7> QED BY <2>2, <6>2, <6>3, <7>2, NTyped DEF Runs
          <6> QED BY <6>1, <6>4
        <5>2. CASE ~(tree[r].kind = "llm" /\ n = 1)
          BY <1>0, <1>3, <2>2, <5>2 DEF TreeTypes
        <5> QED BY <5>1, <5>2
      <4>3. tokens[q] = 0
        BY <3>1 DEF RunOK
      <4> QED BY <4>1, <4>2, <4>3
    <3>4. tree[q].state # "new" /\ q # 1 =>
            /\ tree[q].parent \in Runs /\ tree'[tree[q].parent].state # "new"
            /\ tree'[tree[q].parent].kind # "llm"
      <4> SUFFICES ASSUME tree[q].state # "new", q # 1
                   PROVE  /\ tree[q].parent \in Runs /\ tree'[tree[q].parent].state # "new"
                          /\ tree'[tree[q].parent].kind # "llm"
        OBVIOUS
      <4>1. tree[q].parent \in 0..N /\ tree[q].parent # 0
        BY <1>0, <3>1 DEF TreeTypes, RunOK
      <4>2. /\ tree[q].parent \in Runs /\ tree[tree[q].parent].state # "new"
            /\ tree[tree[q].parent].kind # "llm"
        BY <3>1, <4>1, NTyped DEF RunOK
      <4> QED BY <1>1, <4>2 DEF Keeps, EndFacts
    <3> QED BY <3>1, <3>2, <3>3, <3>4 DEF RunOK, Running
  <2> QED BY <2>1, <2>2
<1>9. Tally'
  BY <1>4, <1>5 DEF Tally
<1> QED BY <1>6, <1>8, <1>9 DEF TreeInv


LEMMA FlowKeepsTree ==
  ASSUME TreeInv, WriteFlow
  PROVE  TreeInv'
<1>0. TreeTypes /\ (\A q \in Runs : RunOK(q)) /\ Tally
  BY DEF TreeInv
<1>1. /\ tree[1].state = "flushing" /\ tree' = [tree EXCEPT ![1].state = "ended"]
      /\ entry' = [entry EXCEPT ![1] = NoEntry] /\ tokens' = [tokens EXCEPT ![1] = 0]
      /\ calls' = calls /\ span' = span /\ late' = late /\ raised' = raised /\ io' = io
      /\ flow' \in {flow, calls}
  BY DEF WriteFlow, Cleanup
<1>2. calls \in 0..N
  BY <1>0, AnsweredBound DEF Tally
<1>3. Keeps(1, "ended")
  BY <1>0, <1>1, NTyped DEF TreeTypes, Keeps, States
<1>4. TreeTypes'
  BY <1>0, <1>1, <1>2, <1>3 DEF TreeTypes, Keeps
<1>5. \A q \in Runs : RunOK(q)'
  <2> TAKE q \in Runs
  <2>1. RunOK(q) /\ RunOK(1)
    BY <1>0, NTyped
  <2>2. /\ entry'[q] = IF q = 1 THEN NoEntry ELSE entry[q]
        /\ tokens'[q] = IF q = 1 THEN 0 ELSE tokens[q]
    BY <1>0, <1>1 DEF TreeTypes
  <2>3. tree[q].state = "new" => \A s \in Runs : s > q => tree'[s].state = "new"
    <3> SUFFICES ASSUME tree[q].state = "new", NEW s \in Runs, s > q PROVE tree'[s].state = "new"
      OBVIOUS
    <3>1. tree[s].state = "new"
      BY <2>1 DEF RunOK
    <3> QED BY <1>1, <1>3, <3>1 DEF Keeps
  <2>4. tree[q].state # "new" /\ q # 1 =>
          /\ tree[q].parent \in Runs /\ tree'[tree[q].parent].state # "new"
          /\ tree'[tree[q].parent].kind # "llm"
    <3> SUFFICES ASSUME tree[q].state # "new", q # 1
                 PROVE  /\ tree[q].parent \in Runs /\ tree'[tree[q].parent].state # "new"
                        /\ tree'[tree[q].parent].kind # "llm"
      OBVIOUS
    <3>1. tree[q].parent \in 0..N /\ tree[q].parent # 0
      BY <1>0, <2>1 DEF TreeTypes, RunOK
    <3>2. /\ tree[q].parent \in Runs /\ tree[tree[q].parent].state # "new"
          /\ tree[tree[q].parent].kind # "llm"
      BY <2>1, <3>1, NTyped DEF RunOK
    <3> QED BY <1>3, <3>2 DEF Keeps
  <2>5. /\ tree'[q].kind = tree[q].kind /\ tree'[q].name = tree[q].name
        /\ tree'[q].parent = tree[q].parent
        /\ tree'[q].state = IF q = 1 THEN "ended" ELSE tree[q].state
    BY <1>3 DEF Keeps
  <2> QED BY <1>1, <2>1, <2>2, <2>3, <2>4, <2>5 DEF RunOK, Running
<1>6. Tally'
  <2>1. Answered' = Answered
    BY <1>1, <1>3 DEF Answered, Keeps
  <2> QED BY <1>0, <1>1, <2>1 DEF Tally, TreeTypes
<1> QED BY <1>4, <1>5, <1>6 DEF TreeInv

LEMMA TreeInvariant == Spec => []TreeInv
<1>1. Init => TreeInv
  <2> SUFFICES ASSUME Init PROVE TreeInv
    OBVIOUS
  <2>1. /\ tree = [r \in Runs |-> [kind |-> "chain", name |-> "agent", parent |-> 0, state |-> "new"]]
        /\ entry = [r \in Runs |-> NoEntry] /\ tokens = [r \in Runs |-> 0]
        /\ calls = 0 /\ flow = NoSpan /\ late = {} /\ raised = {} /\ io = FALSE
        /\ span = [r \in Runs |-> NoSpan]
    BY DEF Init
  <2>2. TreeTypes
    BY <2>1, NTyped DEF TreeTypes, Kinds, Names, ChainNames, States
  <2>3. \A r \in Runs : RunOK(r)
    BY <2>1, NTyped DEF RunOK, Running, Runs
  <2>4. Answered = {}
    BY <2>1 DEF Answered
  <2>5. Tally
    BY <2>1, <2>4, FS_EmptySet DEF Tally
  <2> QED BY <2>2, <2>3, <2>5 DEF TreeInv
<1>2. TreeInv /\ [Next]_vars => TreeInv'
  <2> SUFFICES ASSUME TreeInv, [Next]_vars PROVE TreeInv'
    OBVIOUS
  <2>1. CASE \E r \in Runs, p \in 0..N : Starts(r, p)
    BY <2>1, StartKeepsTree
  <2>2. CASE \E r \in Runs : \E how, n, code, err : Ends(r, how, n, code, err)
    <3>1. PICK r \in Runs : \E how, n, code, err : Ends(r, how, n, code, err)
      BY <2>2
    <3>2. PICK how, n, code, err : Ends(r, how, n, code, err)
      BY <3>1
    <3>3. io' = io
      BY <3>2 DEF Ends, Ended
    <3> QED BY <3>2, <3>3, EndKeepsTree
  <2>3. CASE Still
    <3>1. TreeTypes'
      BY <2>3 DEF TreeInv, TreeTypes, Still
    <3>2. \A r \in Runs : RunOK(r)'
      BY <2>3 DEF TreeInv, RunOK, Running, Still
    <3>3. Tally'
      BY <2>3 DEF TreeInv, Tally, Answered, Still
    <3> QED BY <3>1, <3>2, <3>3 DEF TreeInv
  <2> QED BY <2>1, <2>2, <2>3, StepCases, FlowKeepsTree
<1> QED BY <1>1, <1>2, PTL DEF Spec

-----------------------------------------------------------------------------
(* The runs above a run.                                                   *)

AboveFacts ==
  /\ \A q \in 0..N : Above[q] \subseteq Runs /\ \A s \in Above[q] : s < q
  /\ \A q \in Runs : \A p \in Above[q] : Above[p] \subseteq Above[q]
  /\ \A q \in Runs : \A p, s \in Above[q] : p < s => p \in Above[s]
  /\ \A q \in Runs : tree[q].state = "new" => Above[q] = {}
  /\ \A q \in Runs : tree[q].state # "new" =>
       /\ q = 1 \/ 1 \in Above[q]
       /\ \A p \in Above[q] : tree[p].state # "new" /\ tree[p].kind # "llm"

\* A run and those above it.
Line(q) == IF q = 0 THEN {} ELSE {q} \cup Above[q]

LEMMA LineOfParent ==
  ASSUME TreeInv, NEW q \in Runs
  PROVE  /\ Above[q] = Line(tree[q].parent) /\ Line(q) = {q} \cup Line(tree[q].parent)
         /\ tree[q].parent \in 0..N /\ tree[q].parent < q
<1>1. AboveOK /\ tree[q].parent \in 0..N /\ tree[q].parent < q /\ q # 0
  BY TreeClimbs, NTyped DEF TreeInv, TreeTypes, RunOK
<1> QED BY <1>1 DEF AboveOK, Line

LEMMA AboveIsOrdered == TreeInv => AboveFacts
<1> SUFFICES ASSUME TreeInv PROVE AboveFacts
  OBVIOUS
<1>0. TreeTypes /\ (\A q \in Runs : RunOK(q)) /\ Parents \in Upward /\ AboveOK
  BY TreeClimbs DEF TreeInv
<1>1. \A q \in Runs : /\ Parents[q] = tree[q].parent /\ Parents[q] \in 0..N /\ Parents[q] < q
                      /\ Parents[q] # 0 => Parents[q] \in Runs
                      /\ Above[q] = IF Parents[q] = 0 THEN {} ELSE {Parents[q]} \cup Above[Parents[q]]
  BY <1>0, NTyped DEF Parents, Upward, AboveOK
<1>2. \A q \in 0..N : Above[q] \subseteq Runs
  BY <1>0 DEF AboveOK
<1>3. \A q \in 0..N : \A s \in Above[q] : s < q
  <2> DEFINE T == {q \in 0..N : \A s \in Above[q] : s < q}
  <2>1. 0 \in T
    BY <1>0, NTyped DEF AboveOK
  <2>2. ASSUME NEW q \in Runs, Parents[q] \in T PROVE q \in T
    <3>1. \A s \in Above[Parents[q]] : s < Parents[q] /\ s \in Runs
      BY <1>2, <2>2
    <3>2. ASSUME NEW s \in Above[q] PROVE s < q
      <4>1. Parents[q] # 0 /\ (s = Parents[q] \/ s \in Above[Parents[q]])
        BY <1>1
      <4>2. Parents[q] \in Nat /\ q \in Nat /\ s \in Nat /\ Parents[q] < q
        <5>1. Parents[q] \in Nat /\ q \in Nat /\ Parents[q] < q
          <6>1. Runs \subseteq Nat /\ 0..N \subseteq Nat
            BY NTyped DEF Runs
          <6> QED BY <1>1, <6>1
        <5>2. s \in Runs
          BY <1>2, NTyped
        <5> QED BY <5>1, <5>2, NTyped DEF Runs
      <4>3. s = Parents[q] \/ s < Parents[q]
        BY <3>1, <4>1
      <4> QED BY <4>2, <4>3
    <3> QED BY <3>2, NTyped
  <2> HIDE DEF T
  <2>3. \A q \in 0..N : q \in T
    BY <1>0, <2>1, <2>2, UpInduction
  <2> QED BY <2>3 DEF T
<1>4. \A q \in Runs : \A p \in Above[q] : Above[p] \subseteq Above[q]
  <2> DEFINE T == {q \in 0..N : \A p \in Above[q] : Above[p] \subseteq Above[q]}
  <2>1. 0 \in T
    BY <1>0, NTyped DEF AboveOK
  <2>2. ASSUME NEW q \in Runs, Parents[q] \in T PROVE q \in T
    BY <1>1, <2>2, NTyped
  <2> HIDE DEF T
  <2>3. \A q \in 0..N : q \in T
    BY <1>0, <2>1, <2>2, UpInduction
  <2> QED BY <2>3, NTyped DEF T
<1>5. \A q \in Runs : \A p, s \in Above[q] : p < s => p \in Above[s]
  <2> DEFINE T == {q \in 0..N : \A p, s \in Above[q] : p < s => p \in Above[s]}
  <2>1. 0 \in T
    BY <1>0, NTyped DEF AboveOK
  <2>2. ASSUME NEW q \in Runs, Parents[q] \in T PROVE q \in T
    <3> SUFFICES ASSUME NEW p \in Above[q], NEW s \in Above[q], p < s PROVE p \in Above[s]
      BY NTyped
    <3>1. Parents[q] # 0 /\ Parents[q] \in Runs /\ Above[q] = {Parents[q]} \cup Above[Parents[q]]
      BY <1>1
    <3>2. CASE s = Parents[q]
      <4>1. p # Parents[q]
        BY <3>1, <3>2, NTyped DEF Runs
      <4> QED BY <3>1, <3>2, <4>1
    <3>3. CASE s # Parents[q]
      <4>1. s \in Above[Parents[q]] /\ s < Parents[q] /\ s \in Runs
        BY <1>1, <1>2, <1>3, <3>1, <3>3
      <4>2. p # Parents[q]
        BY <3>1, <4>1, NTyped DEF Runs
      <4> QED BY <2>2, <3>1, <4>1, <4>2
    <3> QED BY <3>2, <3>3
  <2> HIDE DEF T
  <2>3. \A q \in 0..N : q \in T
    BY <1>0, <2>1, <2>2, UpInduction
  <2> QED BY <2>3, NTyped DEF T
<1>6. \A q \in Runs : tree[q].state = "new" => Above[q] = {}
  BY <1>0, <1>1 DEF RunOK
<1>7. \A q \in Runs : tree[q].state # "new" =>
        /\ q = 1 \/ 1 \in Above[q]
        /\ \A p \in Above[q] : tree[p].state # "new" /\ tree[p].kind # "llm"
  <2> DEFINE T == {q \in 0..N : q # 0 /\ tree[q].state # "new" =>
                     /\ q = 1 \/ 1 \in Above[q]
                     /\ \A p \in Above[q] : tree[p].state # "new" /\ tree[p].kind # "llm"}
  <2>1. 0 \in T
    BY NTyped
  <2>2. ASSUME NEW q \in Runs, Parents[q] \in T PROVE q \in T
    <3> SUFFICES ASSUME tree[q].state # "new"
                 PROVE  /\ q = 1 \/ 1 \in Above[q]
                        /\ \A p \in Above[q] : tree[p].state # "new" /\ tree[p].kind # "llm"
      BY NTyped
    <3>1. CASE q = 1
      <4>1. Parents[q] = 0
        BY <1>0, <1>1, <3>1 DEF RunOK
      <4>2. Above[q] = {}
        BY <1>1, <4>1
      <4> QED BY <3>1, <4>2
    <3>2. CASE q # 1
      <4>1. /\ Parents[q] # 0 /\ Parents[q] \in Runs
            /\ tree[Parents[q]].state # "new" /\ tree[Parents[q]].kind # "llm"
        BY <1>0, <1>1, <3>2 DEF RunOK
      <4>2. /\ Parents[q] = 1 \/ 1 \in Above[Parents[q]]
            /\ \A p \in Above[Parents[q]] : tree[p].state # "new" /\ tree[p].kind # "llm"
        BY <2>2, <4>1
      <4>3. Above[q] = {Parents[q]} \cup Above[Parents[q]]
        BY <1>1, <4>1
      <4> QED BY <4>1, <4>2, <4>3
    <3> QED BY <3>1, <3>2
  <2> HIDE DEF T
  <2>3. \A q \in 0..N : q \in T
    BY <1>0, <2>1, <2>2, UpInduction
  <2> QED BY <2>3, NTyped DEF T
<1> QED BY <1>2, <1>3, <1>4, <1>5, <1>6, <1>7 DEF AboveFacts

-----------------------------------------------------------------------------
(* What the walks find.                                                    *)

\* The chains and tools that are spans, by what LangChain says of them.
TreeName(q) == IF q = 0 THEN "" ELSE tree[q].name

IsSpan(q) ==
  \/ tree[q].kind = "tool"
  \/ tree[q].name \notin {"internal", "unknown"} /\ tree[q].name # TreeName(tree[q].parent)

SpansIn(S) == {q \in S : IsSpan(q)}

\* The latest of the spans, or none.
IsNearest(p, S) == IF S = {} THEN p = 0 ELSE p \in S /\ \A q \in S : q <= p

\* Whatever has ended, the walks stay within the runs above.
LEMMA WalksStay ==
  ASSUME TreeInv
  PROVE  \A q \in 0..N :
           /\ NearestSpan[q] # 0 => NearestSpan[q] \in Line(q) /\ Meaningful(NearestSpan[q])
           /\ Ancestors[q] \subseteq Line(q)
<1>0. TreeTypes /\ (\A q \in Runs : RunOK(q)) /\ Walk \in Upward /\ WalksOK
  BY TreeClimbs DEF TreeInv
<1> DEFINE T == {q \in 0..N : /\ NearestSpan[q] # 0 => NearestSpan[q] \in Line(q) /\ Meaningful(NearestSpan[q])
                              /\ Ancestors[q] \subseteq Line(q)}
<1>1. 0 \in T
  BY <1>0, NTyped DEF WalksOK
<1>2. ASSUME NEW q \in Runs, Walk[q] \in T PROVE q \in T
  <2>1. Line(q) = {q} \cup Line(tree[q].parent) /\ q \in 0..N
    BY LineOfParent, NTyped
  <2>2. ParentOf(q) \in {0, tree[q].parent} /\ Walk[q] = ParentOf(q)
    <3>1. \/ entry[q] = NoEntry
          \/ entry[q] = [kind |-> tree[q].kind, name |-> tree[q].name, parent |-> tree[q].parent]
      BY <1>0 DEF RunOK
    <3>2. entry[q] = NoEntry \/ entry[q].parent = tree[q].parent
      BY <3>1
    <3> QED BY <3>2 DEF ParentOf, Walk
  <2>3. Line(ParentOf(q)) \subseteq Line(q)
    BY <2>1, <2>2 DEF Line
  <2>4. /\ NearestSpan[q] = IF Meaningful(q) THEN q ELSE NearestSpan[ParentOf(q)]
        /\ Ancestors[q] = {q} \cup Ancestors[ParentOf(q)]
    BY <1>0 DEF WalksOK
  <2>5. /\ NearestSpan[ParentOf(q)] # 0 =>
             NearestSpan[ParentOf(q)] \in Line(ParentOf(q)) /\ Meaningful(NearestSpan[ParentOf(q)])
        /\ Ancestors[ParentOf(q)] \subseteq Line(ParentOf(q))
    BY <1>2, <2>2
  <2> QED BY <2>1, <2>3, <2>4, <2>5
<1> HIDE DEF T
<1>3. \A q \in 0..N : q \in T
  BY <1>0, <1>1, <1>2, UpInduction
<1> QED BY <1>3 DEF T

LEMMA LineIsFinite ==
  ASSUME TreeInv, NEW q \in 0..N
  PROVE  /\ IsFiniteSet(Line(q)) /\ IsFiniteSet(SpansIn(Line(q)))
         /\ Line(q) \subseteq Runs /\ \A s \in Line(q) : s <= q
<1>1. AboveFacts
  BY AboveIsOrdered
<1>2. Line(q) \subseteq Runs /\ \A s \in Line(q) : s <= q
  BY <1>1, NTyped DEF AboveFacts, Line, Runs
<1>3. IsFiniteSet(Runs)
  BY FS_Interval, NTyped DEF Runs
<1>4. SpansIn(Line(q)) \subseteq Runs
  BY <1>2 DEF SpansIn
<1> QED BY <1>2, <1>3, <1>4, FS_Subset

\* While the runs above are in flight, the walks find all of them.
LEMMA WalksFind ==
  ASSUME TreeInv, NEW r \in Runs, \A s \in Above[r] : Running(s)
  PROVE  /\ IsNearest(NearestSpan[tree[r].parent], SpansIn(Above[r]))
         /\ MeaningfulDepth[tree[r].parent] = Cardinality(SpansIn(Above[r]))
         /\ Ancestors[tree[r].parent] = Above[r]
<1>0. TreeTypes /\ (\A q \in Runs : RunOK(q)) /\ Parents \in Upward /\ WalksOK
  BY TreeClimbs DEF TreeInv
<1> DEFINE Found(q) == /\ IsNearest(NearestSpan[q], SpansIn(Line(q)))
                       /\ MeaningfulDepth[q] = Cardinality(SpansIn(Line(q)))
                       /\ Ancestors[q] = Line(q)
           T == {q \in 0..N : (\A s \in Line(q) : Running(s)) => Found(q)}
<1>1. 0 \in T
  <2>1. Line(0) = {} /\ SpansIn(Line(0)) = {}
    BY DEF Line, SpansIn
  <2> QED BY <1>0, <2>1, FS_EmptySet, NTyped DEF WalksOK, IsNearest
<1>2. ASSUME NEW q \in Runs, Parents[q] \in T PROVE q \in T
  <2> SUFFICES ASSUME \A s \in Line(q) : Running(s) PROVE Found(q)
    BY NTyped
  <2> DEFINE p == tree[q].parent
  <2>1. Line(q) = {q} \cup Line(p) /\ p \in 0..N /\ p < q /\ Parents[q] = p
    BY LineOfParent DEF Parents
  <2>2. Found(p)
    BY <1>2, <2>1
  <2>3. Running(q) /\ (p # 0 => Running(p) /\ p \in Runs)
    BY <2>1, NTyped DEF Line
  <2>4. entry[q] = [kind |-> tree[q].kind, name |-> tree[q].name, parent |-> tree[q].parent]
    BY <1>0, <2>3 DEF RunOK, Running
  <2>5. p # 0 => entry[p] = [kind |-> tree[p].kind, name |-> tree[p].name, parent |-> tree[p].parent]
    BY <1>0, <2>3 DEF RunOK, Running
  <2>6. entry[q] # NoEntry /\ (p # 0 => entry[p] # NoEntry)
    <3>1. \A s \in Runs : [kind |-> tree[s].kind, name |-> tree[s].name, parent |-> tree[s].parent] # NoEntry
      BY <1>0, NoEntryAssumption DEF TreeTypes, Entries
    <3> QED BY <2>3, <2>4, <2>5, <3>1
  <2>7. ParentOf(q) = p /\ NameOf(p) = TreeName(p)
    <3>1. entry[q].parent = p /\ (p # 0 => entry[p].name = tree[p].name)
      BY <2>4, <2>5
    <3> HIDE DEF p
    <3> QED BY <2>6, <3>1 DEF ParentOf, NameOf, TreeName
  <2>8. Meaningful(q) <=> IsSpan(q)
    BY <2>4, <2>6, <2>7 DEF Meaningful, IsSpan
  <2>9. SpansIn(Line(q)) = IF IsSpan(q) THEN SpansIn(Line(p)) \cup {q} ELSE SpansIn(Line(p))
    BY <2>1 DEF SpansIn
  <2>10. q \notin Line(p) /\ IsFiniteSet(SpansIn(Line(p))) /\ \A s \in Line(p) : s < q /\ s \in Runs
    BY <2>1, LineIsFinite, NTyped DEF Runs
  <2>11. IsNearest(NearestSpan[q], SpansIn(Line(q)))
    <3>1. NearestSpan[q] = IF IsSpan(q) THEN q ELSE NearestSpan[p]
      BY <1>0, <2>7, <2>8 DEF WalksOK
    <3>2. CASE IsSpan(q)
      <4>1. \A s \in SpansIn(Line(p)) : s <= q
        BY <2>10, NTyped DEF SpansIn, Runs
      <4>2. q <= q
        BY NTyped DEF Runs
      <4> QED BY <2>9, <3>1, <3>2, <4>1, <4>2 DEF IsNearest
    <3>3. CASE ~IsSpan(q)
      BY <2>2, <2>9, <3>1, <3>3
    <3> QED BY <3>2, <3>3
  <2>12. MeaningfulDepth[q] = Cardinality(SpansIn(Line(q)))
    <3>1. MeaningfulDepth[q] = MeaningfulDepth[p] + (IF IsSpan(q) THEN 1 ELSE 0)
      BY <1>0, <2>7, <2>8 DEF WalksOK
    <3>2. q \notin SpansIn(Line(p)) /\ Cardinality(SpansIn(Line(p))) \in Nat
      BY <2>10, FS_CardinalityType DEF SpansIn
    <3>3. Cardinality(SpansIn(Line(p)) \cup {q}) = Cardinality(SpansIn(Line(p))) + 1
      BY <2>10, <3>2, FS_AddElement
    <3> QED BY <2>2, <2>9, <3>1, <3>2, <3>3
  <2>13. Ancestors[q] = Line(q)
    BY <1>0, <2>1, <2>2, <2>7 DEF WalksOK
  <2> QED BY <2>11, <2>12, <2>13
<1> HIDE DEF T, Found
<1>3. \A q \in 0..N : q \in T
  BY <1>0, <1>1, <1>2, UpInduction
<1>4. Above[r] = Line(tree[r].parent) /\ tree[r].parent \in 0..N
  BY LineOfParent
<1>5. Found(tree[r].parent)
  BY <1>3, <1>4 DEF T
<1> QED BY <1>4, <1>5 DEF Found

-----------------------------------------------------------------------------
(* What a step keeps.                                                      *)

TreeFacts == TreeInv /\ AboveOK /\ AboveFacts

LEMMA TreeAlways == Spec => []TreeFacts
<1>1. TreeInv => TreeFacts
  BY TreeClimbs, AboveIsOrdered DEF TreeFacts
<1> QED BY <1>1, TreeInvariant, PTL

\* A run that has started stays in its place, a document stays as it is made,
\* and a run that ended late did.
Grown ==
  /\ \A q \in Runs : tree[q].state # "new" =>
       /\ tree'[q].state # "new"
       /\ tree'[q].kind = tree[q].kind /\ tree'[q].name = tree[q].name /\ tree'[q].parent = tree[q].parent
       /\ tree[q].state # "running" => tree'[q].state # "running"
       /\ tree[q].state = "transferred" => tree'[q].state = "transferred"
  /\ \A q \in Runs : tree[q].state = "new" => tree'[q].state \in {"new", "running"}
  /\ \A q \in Runs : span[q] # NoSpan => span'[q] = span[q]
  /\ late \subseteq late'

LEMMA StepGrows ==
  ASSUME TreeInv, [Next]_vars
  PROVE  Grown
<1>0. TreeTypes /\ \A q \in Runs : RunOK(q)
  BY DEF TreeInv
<1>1. CASE \E r \in Runs, p \in 0..N : Starts(r, p)
  <2>1. PICK r \in Runs, p \in 0..N : Starts(r, p)
    BY <1>1
  <2>2. /\ tree[r].state = "new" /\ span' = span /\ late' = late
        /\ \E kind, name : tree' = [tree EXCEPT ![r] =
             [kind |-> kind, name |-> name, parent |-> p, state |-> "running"]]
    BY <2>1 DEF Starts, Started, MayStart
  <2>3. \A q \in Runs : q # r => tree'[q] = tree[q]
    BY <1>0, <2>2 DEF TreeTypes
  <2> QED BY <2>2, <2>3 DEF Grown
<1>2. CASE \E r \in Runs : \E how, n, code, err : Ends(r, how, n, code, err)
  <2>1. PICK r \in Runs : \E how, n, code, err : Ends(r, how, n, code, err)
    BY <1>2
  <2>2. PICK how, n, code, err : Ends(r, how, n, code, err)
    BY <2>1
  <2>3. EndFacts(r, how, n, code) /\ Keeps(r, how)
    BY <2>2, EndShape
  <2>4. /\ span' = IF code = 0 THEN span ELSE [span EXCEPT ![r] = SpanOf(r, n, code)]
        /\ late' \in {late, late \cup {r}}
    BY <2>2 DEF Ends, Ended
  <2>5. span[r] = NoSpan
    BY <1>0, <2>3 DEF RunOK, Running, EndFacts
  <2>6. \A q \in Runs : span[q] # NoSpan => span'[q] = span[q]
    BY <1>0, <2>4, <2>5 DEF TreeTypes
  <2> QED BY <2>3, <2>4, <2>6 DEF Grown, EndFacts, Keeps
<1>3. CASE WriteFlow
  <2>1. /\ tree' = [tree EXCEPT ![1].state = "ended"] /\ tree[1].state = "flushing"
        /\ span' = span /\ late' = late
    BY <1>3 DEF WriteFlow
  <2>2. \A q \in Runs : /\ tree'[q].kind = tree[q].kind /\ tree'[q].name = tree[q].name
                        /\ tree'[q].parent = tree[q].parent
                        /\ tree'[q].state = IF q = 1 THEN "ended" ELSE tree[q].state
    BY <1>0, <2>1 DEF TreeTypes
  <2> QED BY <2>1, <2>2 DEF Grown
<1>4. CASE Still
  BY <1>4 DEF Still, Grown
<1> QED BY <1>1, <1>2, <1>3, <1>4, StepCases

LEMMA GrowthKeepsAbove ==
  ASSUME TreeFacts, TreeFacts', Grown
  PROVE  \A q \in Runs : tree[q].state # "new" => Above'[q] = Above[q]
<1>0. /\ TreeTypes /\ (\A q \in Runs : RunOK(q)) /\ AboveOK /\ Parents \in Upward
      /\ AboveOK'
  BY TreeClimbs DEF TreeFacts, TreeInv
<1> DEFINE T == {q \in 0..N : q # 0 /\ tree[q].state # "new" => Above'[q] = Above[q]}
<1>1. 0 \in T
  BY NTyped
<1>2. ASSUME NEW q \in Runs, Parents[q] \in T PROVE q \in T
  <2> SUFFICES ASSUME tree[q].state # "new" PROVE Above'[q] = Above[q]
    BY NTyped
  <2>1. tree'[q].parent = tree[q].parent /\ Parents[q] = tree[q].parent
    BY DEF Grown, Parents
  <2>2. tree[q].parent # 0 => tree[tree[q].parent].state # "new"
    BY <1>0 DEF RunOK
  <2>3. /\ Above[q] = IF tree[q].parent = 0 THEN {} ELSE {tree[q].parent} \cup Above[tree[q].parent]
        /\ Above'[q] = IF tree'[q].parent = 0 THEN {} ELSE {tree'[q].parent} \cup Above'[tree'[q].parent]
    BY <1>0 DEF AboveOK
  <2>4. tree[q].parent # 0 => Above'[tree[q].parent] = Above[tree[q].parent]
    BY <1>2, <2>1, <2>2
  <2> QED BY <2>1, <2>3, <2>4
<1> HIDE DEF T
<1>3. \A q \in 0..N : q \in T
  BY <1>0, <1>1, <1>2, UpInduction
<1> QED BY <1>3, NTyped DEF T

LEMMA GrowthKeepsSpans ==
  ASSUME TreeFacts, TreeFacts', Grown
  PROVE  \A q \in Runs : tree[q].state # "new" =>
           /\ IsSpan(q)' <=> IsSpan(q)
           /\ SpansIn(Above[q])' = SpansIn(Above[q])
<1>0. TreeTypes /\ (\A q \in Runs : RunOK(q)) /\ AboveFacts
  BY DEF TreeFacts, TreeInv
<1>1. ASSUME NEW q \in Runs, tree[q].state # "new" PROVE IsSpan(q)' <=> IsSpan(q)
  <2>1. /\ tree'[q].kind = tree[q].kind /\ tree'[q].name = tree[q].name /\ tree'[q].parent = tree[q].parent
    BY <1>1 DEF Grown
  <2>2. tree[q].parent # 0 => tree[q].parent \in Runs /\ tree[tree[q].parent].state # "new"
    BY <1>0, <1>1, NTyped DEF RunOK, TreeTypes
  <2>3. tree[q].parent # 0 => tree'[tree[q].parent].name = tree[tree[q].parent].name
    BY <2>2 DEF Grown
  <2> QED BY <2>1, <2>3 DEF IsSpan, TreeName
<1>2. ASSUME NEW q \in Runs, tree[q].state # "new" PROVE SpansIn(Above[q])' = SpansIn(Above[q])
  <2>1. Above'[q] = Above[q]
    BY <1>2, GrowthKeepsAbove
  <2>2. \A s \in Above[q] : s \in Runs /\ tree[s].state # "new"
    BY <1>0, <1>2, NTyped DEF AboveFacts
  <2>3. \A s \in Above[q] : IsSpan(s)' <=> IsSpan(s)
    BY <1>1, <2>2
  <2> QED BY <2>1, <2>3 DEF SpansIn
<1> QED BY <1>1, <1>2

-----------------------------------------------------------------------------
(* The parents of spans.                                                   *)

\* A document of the run has been made or will be, unless it is a tool that
\* transferred.
Owed(p) ==
  \/ span[p] # NoSpan
  \/ tree[p].kind = "tool" /\ tree[p].state = "transferred"
  \/ Running(p) /\ Meaningful(p)

LinkTo(r, p, d) ==
  /\ p # 0 => p \in Above[r] /\ Owed(p)
  /\ r \notin late =>
       /\ IsNearest(p, SpansIn(Above[r])) /\ d = Cardinality(SpansIn(Above[r]))
       /\ tree[r].kind = "llm" \/ IsSpan(r)

LinkInv ==
  \A r \in Runs, p, d \in 0..N :
    span[r] # NoSpan /\ p = span[r].parent /\ d = span[r].depth => LinkTo(r, p, d)

\* A run that the walks count does not end without a document.
LEMMA MeaningfulLeaves ==
  ASSUME TreeInv, NEW r \in Runs, NEW how, NEW n, NEW code, NEW err, Ends(r, how, n, code, err), Meaningful(r),
         tree[r].kind # "llm"
  PROVE  code # 0 \/ (tree[r].kind = "tool" /\ how = "transferred")
<1>0. TreeTypes /\ RunOK(r) /\ EndsBy(r, how, n, code, err) /\ EndFacts(r, how, n, code)
  BY EndShape DEF TreeInv, Ends
<1>1. CASE tree[r].kind = "chain"
  <2>1. entry[r] = [kind |-> tree[r].kind, name |-> tree[r].name, parent |-> tree[r].parent]
    BY <1>0 DEF RunOK, EndFacts
  <2>2. entry[r].kind # "tool" /\ entry[r].parent = tree[r].parent
    BY <1>1, <2>1
  <2>3. ~Skipped(r) /\ ~SkippedOnError(r)
    BY <2>2 DEF Meaningful, Skipped, SkippedOnError
  <2> QED BY <1>0, <1>1, <2>3 DEF EndsBy
<1>2. CASE tree[r].kind # "chain"
  BY <1>0, <1>2 DEF EndsBy
<1> QED BY <1>1, <1>2

LEMMA MeaningfulKept ==
  ASSUME TreeInv, NEW p \in Runs, Running(p), Meaningful(p), entry'[p] = entry[p], tree'[p] = tree[p],
         \A q \in Runs : tree[q].state # "new" => entry'[q] \in {entry[q], NoEntry}
  PROVE  Running(p)' /\ Meaningful(p)'
<1>0. TreeTypes /\ RunOK(p)
  BY DEF TreeInv
<1>1. /\ tree[p].state = "running" /\ tree[p].name \in Names /\ tree[p].parent \in 0..N
      /\ entry[p] = [kind |-> tree[p].kind, name |-> tree[p].name, parent |-> tree[p].parent]
  BY <1>0 DEF RunOK, Running, TreeTypes
<1>2. entry[p].parent = tree[p].parent /\ entry[p].name \in Names /\ "" \notin Names
  BY <1>1 DEF Names, ChainNames
<1>3. tree[p].parent # 0 =>
        tree[p].parent \in Runs /\ entry'[tree[p].parent] \in {entry[tree[p].parent], NoEntry}
  <2>1. tree[p].parent # 0 => tree[p].parent \in Runs /\ tree[tree[p].parent].state # "new"
    BY <1>0, <1>1, NTyped DEF RunOK
  <2> QED BY <2>1
<1>4. NameOf(tree[p].parent)' \in {NameOf(tree[p].parent), ""}
  BY <1>3 DEF NameOf
<1>5. entry'[p] # NoEntry /\ entry'[p].parent = tree[p].parent
  BY <1>2 DEF Meaningful
<1> QED BY <1>1, <1>2, <1>4, <1>5 DEF Meaningful, Running

LEMMA OwedKept ==
  ASSUME TreeInv, [Next]_vars, NEW p \in Runs, tree[p].state # "new", tree[p].kind # "llm", Owed(p)
  PROVE  Owed(p)'
<1>0. TreeTypes /\ (\A q \in Runs : RunOK(q)) /\ Grown
  BY StepGrows DEF TreeInv
<1>1. CASE span[p] # NoSpan
  BY <1>0, <1>1 DEF Grown, Owed
<1>2. CASE tree[p].kind = "tool" /\ tree[p].state = "transferred"
  BY <1>0, <1>2 DEF Grown, Owed
<1>3. CASE Running(p) /\ Meaningful(p)
  <2>1. CASE \E r \in Runs, q \in 0..N : Starts(r, q)
    <3>1. PICK r \in Runs, q \in 0..N : Starts(r, q)
      BY <2>1
    <3>2. /\ tree[r].state = "new"
          /\ \E kind, name :
               /\ tree' = [tree EXCEPT ![r] = [kind |-> kind, name |-> name, parent |-> q, state |-> "running"]]
               /\ entry' = [entry EXCEPT ![r] = [kind |-> kind, name |-> name, parent |-> q]]
      BY <3>1 DEF Starts, Started, MayStart
    <3>3. \A s \in Runs : tree[s].state # "new" => entry'[s] = entry[s] /\ tree'[s] = tree[s]
      BY <1>0, <3>2 DEF TreeTypes
    <3>4. Running(p)' /\ Meaningful(p)'
      BY <1>3, <3>3, MeaningfulKept
    <3> QED BY <3>4 DEF Owed
  <2>2. CASE \E r \in Runs : \E how, n, code, err : Ends(r, how, n, code, err)
    <3>1. PICK r \in Runs : \E how, n, code, err : Ends(r, how, n, code, err)
      BY <2>2
    <3>2. PICK how, n, code, err : Ends(r, how, n, code, err)
      BY <3>1
    <3>3. /\ EndFacts(r, how, n, code) /\ tree' = [tree EXCEPT ![r].state = how]
          /\ entry' = IF how = "flushing" THEN entry ELSE [entry EXCEPT ![r] = NoEntry]
          /\ span' = IF code = 0 THEN span ELSE [span EXCEPT ![r] = SpanOf(r, n, code)]
      BY <3>2, EndShape DEF Ends, Ended
    <3>4. CASE p = r
      <4>1. code # 0 \/ (tree[r].kind = "tool" /\ how = "transferred")
        BY <1>3, <3>2, <3>4, MeaningfulLeaves
      <4>2. code # 0 => span'[r] # NoSpan
        BY <1>0, <3>3, NoEntryAssumption DEF TreeTypes, EndFacts
      <4>3. tree'[r].kind = tree[r].kind /\ tree'[r].state = how
        BY <1>0, <3>3 DEF TreeTypes
      <4> QED BY <3>4, <4>1, <4>2, <4>3 DEF Owed
    <3>5. CASE p # r
      <4>1. \A s \in Runs : entry'[s] \in {entry[s], NoEntry} /\ (s # r => entry'[s] = entry[s] /\ tree'[s] = tree[s])
        BY <1>0, <3>3 DEF TreeTypes
      <4>2. Running(p)' /\ Meaningful(p)'
        BY <1>3, <3>5, <4>1, MeaningfulKept
      <4> QED BY <4>2 DEF Owed
    <3> QED BY <3>4, <3>5
  <2>3. CASE WriteFlow
    <3>1. /\ tree[1].state = "flushing" /\ tree' = [tree EXCEPT ![1].state = "ended"]
          /\ entry' = [entry EXCEPT ![1] = NoEntry]
      BY <2>3 DEF WriteFlow, Cleanup
    <3>2. p # 1
      BY <1>3, <3>1 DEF Running
    <3>3. \A s \in Runs : entry'[s] \in {entry[s], NoEntry} /\ (s # 1 => entry'[s] = entry[s] /\ tree'[s] = tree[s])
      BY <1>0, <3>1 DEF TreeTypes
    <3>4. Running(p)' /\ Meaningful(p)'
      BY <1>3, <3>2, <3>3, MeaningfulKept
    <3> QED BY <3>4 DEF Owed
  <2>4. CASE Still
    BY <1>3, <2>4 DEF Still, Owed, Running, Meaningful, NameOf
  <2> QED BY <2>1, <2>2, <2>3, <2>4, StepCases
<1> QED BY <1>1, <1>2, <1>3 DEF Owed

\* A run that ends before the runs above it is a span like those the walks
\* find, or has no document.
LEMMA EndsLinked ==
  ASSUME TreeInv, NEW r \in Runs, NEW how, NEW n, NEW code, NEW err, Ends(r, how, n, code, err), code # 0
  PROVE  LET p == NearestSpan[tree[r].parent] IN
         /\ p # 0 => p \in Above[r] /\ Owed(p)
         /\ r \notin late' =>
              /\ IsNearest(p, SpansIn(Above[r]))
              /\ MeaningfulDepth[tree[r].parent] = Cardinality(SpansIn(Above[r]))
              /\ tree[r].kind = "llm" \/ IsSpan(r)
<1>0. /\ TreeTypes /\ (\A q \in Runs : RunOK(q)) /\ EndsBy(r, how, n, code, err) /\ EndFacts(r, how, n, code)
      /\ AboveFacts
  BY EndShape, AboveIsOrdered DEF TreeInv, Ends
<1> DEFINE p == NearestSpan[tree[r].parent]
<1>1. Above[r] = Line(tree[r].parent) /\ tree[r].parent \in 0..N /\ tree[r].state = "running"
  BY <1>0, LineOfParent DEF EndFacts
<1>2. p # 0 => p \in Above[r] /\ Owed(p)
  <2> SUFFICES ASSUME p # 0 PROVE p \in Above[r] /\ Owed(p)
    OBVIOUS
  <2>1. p \in Above[r] /\ Meaningful(p)
    BY <1>1, WalksStay
  <2>2. p \in Runs
    BY <1>0, <2>1, NTyped DEF AboveFacts
  <2> HIDE DEF p
  <2>3. entry[p] # NoEntry
    BY <2>1 DEF Meaningful
  <2>4. tree[p].state \in {"running", "flushing"}
    BY <1>0, <2>2, <2>3 DEF RunOK
  <2>5. tree[p].state = "running"
    BY <1>0, <2>2, <2>4 DEF RunOK, EndFacts
  <2> QED BY <2>1, <2>5 DEF Owed, Running
<1>3. ASSUME r \notin late'
      PROVE  /\ IsNearest(p, SpansIn(Above[r]))
             /\ MeaningfulDepth[tree[r].parent] = Cardinality(SpansIn(Above[r]))
             /\ tree[r].kind = "llm" \/ IsSpan(r)
  <2>1. \A s \in Above[r] : Running(s)
    BY <1>3 DEF Ends, Ended
  <2>2. /\ IsNearest(p, SpansIn(Above[r]))
        /\ MeaningfulDepth[tree[r].parent] = Cardinality(SpansIn(Above[r]))
    BY <2>1, WalksFind
  <2>3. tree[r].kind = "chain" => IsSpan(r)
    <3> SUFFICES ASSUME tree[r].kind = "chain" PROVE IsSpan(r)
      OBVIOUS
    <3>1. ~Skipped(r) \/ ~SkippedOnError(r)
      BY <1>0 DEF EndsBy
    <3>2. entry[r] = [kind |-> tree[r].kind, name |-> tree[r].name, parent |-> tree[r].parent]
      BY <1>0, <1>1 DEF RunOK
    <3>3. entry[r].name = tree[r].name
      BY <3>2
    <3>4. NameOf(tree[r].parent) = TreeName(tree[r].parent)
      <4>1. CASE tree[r].parent = 0
        BY <4>1 DEF NameOf, TreeName
      <4>2. CASE tree[r].parent # 0
        <5>1. tree[r].parent \in Above[r] /\ tree[r].parent \in Runs
          BY <1>1, <4>2, NTyped DEF Line
        <5>2. tree[tree[r].parent].state = "running"
          BY <2>1, <5>1 DEF Running
        <5> DEFINE t == tree[tree[r].parent]
        <5>3. entry[tree[r].parent] = [kind |-> t.kind, name |-> t.name, parent |-> t.parent]
          BY <1>0, <5>1, <5>2 DEF RunOK
        <5>4. t \in [kind : Kinds, name : Names, parent : 0..N, state : States]
          BY <1>0, <5>1 DEF TreeTypes
        <5>5. entry[tree[r].parent] # NoEntry /\ entry[tree[r].parent].name = t.name
          BY <5>3, <5>4, NoEntryAssumption DEF Entries
        <5> QED BY <4>2, <5>5 DEF NameOf, TreeName
      <4> QED BY <4>1, <4>2
    <3>5. r # 1 => SpansIn(Above[r]) # {}
      <4> SUFFICES ASSUME r # 1 PROVE 1 \in SpansIn(Above[r])
        OBVIOUS
      <4>1. 1 \in Above[r] /\ tree[1].state # "new"
        BY <1>0, <1>1 DEF AboveFacts
      <4>2. tree[1].name = "agent" /\ tree[1].parent = 0
        BY <1>0, <4>1, NTyped DEF RunOK
      <4> QED BY <4>1, <4>2 DEF SpansIn, IsSpan, TreeName
    <3>6. tree[r].name = "unknown" => tree[r].parent # 0 /\ MeaningfulDepth[tree[r].parent] > 0
      <4> SUFFICES ASSUME tree[r].name = "unknown"
                   PROVE  tree[r].parent # 0 /\ MeaningfulDepth[tree[r].parent] > 0
        OBVIOUS
      <4>1. r # 1 /\ tree[r].parent # 0
        BY <1>0, <1>1 DEF RunOK
      <4>2. IsFiniteSet(SpansIn(Above[r]))
        BY <1>1, LineIsFinite
      <4>3. Cardinality(SpansIn(Above[r])) \in Nat /\ Cardinality(SpansIn(Above[r])) # 0
        BY <3>5, <4>1, <4>2, FS_EmptySet, FS_CardinalityType
      <4> QED BY <2>2, <4>1, <4>3
    <3> QED BY <3>1, <3>3, <3>4, <3>6 DEF Skipped, SkippedOnError, IsSpan
  <2>4. tree[r].kind = "tool" => IsSpan(r)
    BY DEF IsSpan
  <2>5. tree[r].kind \in {"chain", "tool", "llm"}
    BY <1>0 DEF EndsBy
  <2> QED BY <2>2, <2>3, <2>4, <2>5
<1> QED BY <1>2, <1>3

LEMMA LinksKept ==
  ASSUME TreeFacts, TreeFacts', LinkInv, [Next]_vars
  PROVE  LinkInv'
<1>0. TreeInv /\ TreeTypes /\ (\A q \in Runs : RunOK(q)) /\ AboveFacts /\ Grown
  BY StepGrows DEF TreeFacts, TreeInv
<1> SUFFICES ASSUME NEW q \in Runs, NEW p \in 0..N, NEW d \in 0..N,
                    span'[q] # NoSpan, p = span'[q].parent, d = span'[q].depth
             PROVE  LinkTo(q, p, d)'
  BY DEF LinkInv
<1>1. \A s \in Runs : tree[s].state # "new" =>
        /\ Above'[s] = Above[s] /\ (IsSpan(s)' <=> IsSpan(s))
        /\ SpansIn(Above[s])' = SpansIn(Above[s])
  BY <1>0, GrowthKeepsAbove, GrowthKeepsSpans
<1>2. \A s \in Runs : tree[s].state # "new" /\ tree[s].kind # "llm" /\ Owed(s) => Owed(s)'
  BY <1>0, OwedKept
<1>3. ASSUME tree[q].state # "new", p # 0 => p \in Above[q] /\ Owed(p),
             q \notin late' => /\ IsNearest(p, SpansIn(Above[q])) /\ d = Cardinality(SpansIn(Above[q]))
                               /\ tree[q].kind = "llm" \/ IsSpan(q)
      PROVE  LinkTo(q, p, d)'
  <2>1. /\ Above'[q] = Above[q] /\ (IsSpan(q)' <=> IsSpan(q))
        /\ SpansIn(Above[q])' = SpansIn(Above[q]) /\ tree'[q].kind = tree[q].kind
    BY <1>0, <1>1, <1>3 DEF Grown
  <2>2. p # 0 => p \in Above'[q] /\ Owed(p)'
    <3>1. \A s \in Above[q] : s \in Runs /\ tree[s].state # "new" /\ tree[s].kind # "llm"
      BY <1>0, <1>3, NTyped DEF AboveFacts
    <3> QED BY <1>2, <1>3, <2>1, <3>1
  <2> QED BY <1>3, <2>1, <2>2 DEF LinkTo, IsNearest
<1>4. CASE span[q] # NoSpan
  <2>1. span'[q] = span[q] /\ tree[q].state # "new" /\ late \subseteq late'
    BY <1>0, <1>4 DEF Grown, RunOK
  <2>2. LinkTo(q, p, d)
    BY <1>4, <2>1 DEF LinkInv
  <2> QED BY <1>3, <2>1, <2>2 DEF LinkTo
<1>5. CASE span[q] = NoSpan
  <2>1. PICK r \in Runs : \E how, n, code, err : Ends(r, how, n, code, err)
    <3>1. span' # span
      BY <1>5
    <3>2. ~(\E r \in Runs, s \in 0..N : Starts(r, s)) /\ ~WriteFlow /\ ~Still
      BY <3>1 DEF Starts, Started, WriteFlow, Still
    <3> QED BY <3>2, StepCases
  <2>2. PICK how, n, code, err : Ends(r, how, n, code, err)
    BY <2>1
  <2>3. span' = IF code = 0 THEN span ELSE [span EXCEPT ![r] = SpanOf(r, n, code)]
    BY <2>2 DEF Ends
  <2>4. q = r /\ code # 0 /\ span'[q] = SpanOf(r, n, code)
    BY <1>0, <1>5, <2>3 DEF TreeTypes
  <2>5. /\ p = NearestSpan[tree[r].parent] /\ d = MeaningfulDepth[tree[r].parent]
        /\ tree[r].state = "running"
    BY <1>0, <2>2, <2>4, EndShape DEF EndFacts
  <2> QED BY <1>0, <1>3, <2>2, <2>4, <2>5, EndsLinked
<1> QED BY <1>4, <1>5

LEMMA LinkInvariant == Spec => []LinkInv
<1>1. Init => LinkInv
  BY DEF Init, LinkInv
<1>2. TreeFacts /\ TreeFacts' /\ LinkInv /\ [Next]_vars => LinkInv'
  BY LinksKept
<1> QED BY <1>1, <1>2, TreeAlways, PTL DEF Spec

\* Every span names a span above it, or the agent's none; if it ended in
\* time, the nearest, and one level up: _get_parent_span_id and
\* _get_meaningful_depth, which skip what on_chain_end leaves out.
THEOREM SpansNameSpans == Spec => []SpansLinked
<1>1. TreeFacts /\ LinkInv => SpansLinked
  <2> SUFFICES ASSUME TreeFacts, LinkInv, NEW r \in Runs, span[r] # NoSpan,
                      NEW p, p = span[r].parent
               PROVE  /\ p # 0 => /\ p \in Above[r]
                                  /\ \/ span[p] # NoSpan \/ Running(p)
                                     \/ tree[p].kind = "tool" /\ tree[p].state = "transferred"
                      /\ r \notin late /\ r # 1 =>
                           /\ p # 0
                           /\ \A q \in Above[r] \ (late \cup Above[p]) : span[q] # NoSpan => q = p
                           /\ span[p] # NoSpan /\ p \notin late => span[r].depth = span[p].depth + 1
    BY DEF SpansLinked
  <2>0. TreeInv /\ TreeTypes /\ (\A q \in Runs : RunOK(q)) /\ AboveFacts
    BY DEF TreeFacts, TreeInv
  <2>1. \A q \in Runs : span[q] # NoSpan =>
          /\ span[q].parent \in 0..N /\ span[q].depth \in 0..N
          /\ tree[q].state # "new" /\ LinkTo(q, span[q].parent, span[q].depth)
    <3> SUFFICES ASSUME NEW q \in Runs, span[q] # NoSpan
                 PROVE  /\ span[q].parent \in 0..N /\ span[q].depth \in 0..N
                        /\ tree[q].state # "new" /\ LinkTo(q, span[q].parent, span[q].depth)
      OBVIOUS
    <3>1. span[q].parent \in 0..N /\ span[q].depth \in 0..N /\ tree[q].state # "new"
      BY <2>0 DEF TreeTypes, Spans, RunOK
    <3> QED BY <3>1 DEF LinkInv
  <2>2. LinkTo(r, p, span[r].depth) /\ tree[r].state # "new" /\ p \in 0..N
    BY <2>1
  <2>3. p # 0 => /\ p \in Above[r]
                 /\ \/ span[p] # NoSpan \/ Running(p)
                    \/ tree[p].kind = "tool" /\ tree[p].state = "transferred"
    BY <2>2 DEF LinkTo, Owed
  <2>4. ASSUME r \notin late, r # 1
        PROVE  /\ p # 0
               /\ \A q \in Above[r] \ (late \cup Above[p]) : span[q] # NoSpan => q = p
               /\ span[p] # NoSpan /\ p \notin late => span[r].depth = span[p].depth + 1
    <3>1. IsNearest(p, SpansIn(Above[r])) /\ span[r].depth = Cardinality(SpansIn(Above[r]))
      BY <2>2, <2>4 DEF LinkTo
    <3>2. 1 \in SpansIn(Above[r])
      <4>1. 1 \in Above[r] /\ tree[1].state # "new"
        BY <2>0, <2>2, <2>4 DEF AboveFacts
      <4>2. tree[1].name = "agent" /\ tree[1].parent = 0
        BY <2>0, <4>1, NTyped DEF RunOK
      <4> QED BY <4>1, <4>2 DEF SpansIn, IsSpan, TreeName
    <3>3. /\ p \in Above[r] /\ IsSpan(p) /\ p \in Runs /\ p # 0
          /\ \A q \in Above[r] : IsSpan(q) => q <= p
      BY <2>0, <2>2, <3>1, <3>2, NTyped DEF IsNearest, SpansIn, AboveFacts
    <3>4. Above[r] \subseteq Runs /\ Above[p] \subseteq Above[r] /\ \A q \in Above[r] : q < p => q \in Above[p]
      BY <2>0, <3>3, NTyped DEF AboveFacts
    <3>5. ASSUME NEW q \in Above[r] \ (late \cup Above[p]), span[q] # NoSpan PROVE q = p
      <4>1. tree[q].kind # "llm" /\ q \in Runs
        BY <2>0, <2>2, <3>4 DEF AboveFacts
      <4>2. IsSpan(q)
        BY <2>1, <3>5, <4>1 DEF LinkTo
      <4>3. q <= p /\ ~(q < p)
        BY <3>3, <3>4, <4>2
      <4> QED BY <3>3, <4>1, <4>3, NTyped DEF Runs
    <3>6. ASSUME span[p] # NoSpan, p \notin late PROVE span[r].depth = span[p].depth + 1
      <4>1. span[p].depth = Cardinality(SpansIn(Above[p]))
        BY <2>1, <3>3, <3>6 DEF LinkTo
      <4>2. SpansIn(Above[r]) = SpansIn(Above[p]) \cup {p}
        <5>1. \A q \in Above[r] : IsSpan(q) => q = p \/ q \in Above[p]
          <6> SUFFICES ASSUME NEW q \in Above[r], IsSpan(q) PROVE q = p \/ q < p
            BY <3>4
          <6>1. q <= p /\ q \in Nat /\ p \in Nat
            BY <3>3, <3>4, NTyped DEF Runs
          <6> QED BY <6>1
        <5> QED BY <3>3, <3>4, <5>1 DEF SpansIn
      <4>3. p \notin SpansIn(Above[p])
        BY <2>0, <3>3, NTyped DEF AboveFacts, SpansIn, Runs
      <4>4. IsFiniteSet(SpansIn(Above[p]))
        BY <2>0, <3>3, LineOfParent, LineIsFinite
      <4> QED BY <3>1, <4>1, <4>2, <4>3, <4>4, FS_AddElement
    <3> QED BY <3>3, <3>5, <3>6
  <2> QED BY <2>3, <2>4
<1> QED BY <1>1, TreeAlways, LinkInvariant, PTL

-----------------------------------------------------------------------------
(* The LLM calls below a run.                                              *)

CountOK(r) ==
  Below(r) \cap late = {} =>
    /\ Running(r) => tokens[r] = Cardinality(Answers(r))
    /\ span[r] # NoSpan /\ tree[r].kind # "llm" =>
         span[r].calls = IF r \in raised THEN 0 ELSE Cardinality(Answers(r))

FlowOK ==
  IF tree[1].state = "ended"
  THEN late = {} => flow = IF Answered # {} \/ 1 \in raised THEN Cardinality(Answered) ELSE NoSpan
  ELSE flow = NoSpan

CountInv == (\A r \in Runs : CountOK(r)) /\ FlowOK

LEMMA AnswersAre ==
  ASSUME TreeFacts
  PROVE  /\ \A r \in Runs : /\ Answers(r) = Below(r) \cap Answered
                            /\ IsFiniteSet(Answers(r)) /\ Cardinality(Answers(r)) \in Nat
         /\ Answers(1) = Answered
<1>0. TreeTypes /\ (\A q \in Runs : RunOK(q)) /\ AboveFacts
  BY DEF TreeFacts, TreeInv
<1>1. \A r \in Runs : Answers(r) = Below(r) \cap Answered
  BY DEF Answers, Below, Answered
<1>2. IsFiniteSet(Answered)
  BY <1>0, AnsweredBound
<1>3. \A r \in Runs : IsFiniteSet(Answers(r)) /\ Cardinality(Answers(r)) \in Nat
  <2> TAKE r \in Runs
  <2>1. Answers(r) \subseteq Answered
    BY <1>1
  <2> QED BY <1>2, <2>1, FS_Subset, FS_CardinalityType
<1>4. \A q \in Answered : q \in Below(1)
  <2> SUFFICES ASSUME NEW q \in Answered PROVE 1 \in Above[q] /\ q \in Runs
    BY DEF Below
  <2>1. q \in Runs /\ tree[q].kind = "llm" /\ span[q] # NoSpan
    BY DEF Answered
  <2>2. tree[q].state # "new" /\ q # 1
    BY <1>0, <2>1 DEF RunOK
  <2> QED BY <1>0, <2>1, <2>2 DEF AboveFacts
<1>5. Answers(1) = Answered
  BY <1>1, <1>4, NTyped
<1> QED BY <1>1, <1>3, <1>5

\* Runs below start and are answered; none is forgotten.
LEMMA AnswersGrow ==
  ASSUME TreeFacts, TreeFacts', [Next]_vars, NEW q \in Runs, tree[q].state # "new"
  PROVE  /\ Below(q) \subseteq Below(q)' /\ late \subseteq late'
         /\ Answers(q)' = Below(q) \cap Answered'
<1>0. /\ TreeInv /\ TreeTypes /\ (\A s \in Runs : RunOK(s)) /\ AboveFacts /\ Grown
      /\ (\A s \in Runs : RunOK(s)') /\ TreeTypes'
  BY StepGrows DEF TreeFacts, TreeInv
<1>1. \A s \in Runs : tree[s].state # "new" => Above'[s] = Above[s]
  BY <1>0, GrowthKeepsAbove
<1>2. \A s \in Runs : tree[s].state = "new" => Above[s] = {}
  BY <1>0 DEF AboveFacts
<1>3. Below(q) \subseteq Below(q)'
  BY <1>1, <1>2 DEF Below
<1>4. \A s \in Answered' : tree[s].state # "new"
  <2> SUFFICES ASSUME NEW s \in Answered', tree[s].state = "new" PROVE FALSE
    OBVIOUS
  <2>1. s \in Runs /\ span'[s] # NoSpan
    BY DEF Answered
  <2>2. tree'[s].state \in {"new", "running"}
    BY <1>0, <2>1 DEF Grown
  <2>3. RunOK(s)'
    BY <1>0, <2>1
  <2> QED BY <2>1, <2>2, <2>3 DEF RunOK, Running
<1>5. Answers(q)' = Below(q)' \cap Answered'
  BY DEF Answers, Below, Answered
<1>6. Answered' \subseteq Runs
  BY DEF Answered
<1>7. \A s \in Answered' : s \in Below(q)' <=> s \in Below(q)
  BY <1>1, <1>4, <1>6 DEF Below
<1> QED BY <1>0, <1>3, <1>5, <1>7 DEF Grown

\* A step that answers no call.
LEMMA CountStays ==
  ASSUME TreeFacts, TreeFacts', [Next]_vars, NEW q \in Runs, CountOK(q), tree[q].state # "new",
         Below(q) \cap Answered' = Below(q) \cap Answered,
         tokens'[q] = tokens[q] \/ tree'[q].state # "running",
         span'[q] = span[q], q \in raised' <=> q \in raised
  PROVE  CountOK(q)'
<1>1. /\ Below(q) \subseteq Below(q)' /\ late \subseteq late' /\ Answers(q)' = Answers(q)
  BY AnswersGrow, AnswersAre
<1>2. /\ tree'[q].kind = tree[q].kind
      /\ tree'[q].state = "running" => tree[q].state = "running"
  BY StepGrows DEF Grown, TreeFacts
<1>3. Below(q)' \cap late' = {} => Below(q) \cap late = {}
  BY <1>1
<1> QED BY <1>1, <1>2, <1>3 DEF CountOK, Running

\* A run that has not started counts nothing.
LEMMA CountStarts ==
  ASSUME TreeFacts, TreeFacts', [Next]_vars, NEW q \in Runs, tree[q].state = "new",
         tokens'[q] = tokens[q]
  PROVE  CountOK(q)'
<1>0. /\ TreeInv /\ (\A s \in Runs : RunOK(s)) /\ Grown
      /\ (\A s \in Runs : RunOK(s)') /\ AboveFacts'
  BY StepGrows DEF TreeFacts, TreeInv
<1>1. span'[q] = NoSpan /\ tokens'[q] = 0
  <2>1. tree'[q].state \in {"new", "running"} /\ RunOK(q)' /\ RunOK(q)
    BY <1>0 DEF Grown
  <2> QED BY <2>1 DEF RunOK, Running
<1>2. Answers(q)' = {}
  <2> SUFFICES ASSUME NEW s \in Runs, q \in Above'[s], span'[s] # NoSpan PROVE FALSE
    BY DEF Answers, Below
  <2>1. q < s
    BY <1>0, NTyped DEF AboveFacts
  <2>2. tree[s].state = "new"
    <3>1. q \in Nat /\ s \in Nat /\ s > q
      BY <2>1, NTyped DEF Runs
    <3>2. RunOK(q)
      BY <1>0
    <3> QED BY <3>1, <3>2 DEF RunOK
  <2>3. tree'[s].state \in {"new", "running"} /\ RunOK(s)'
    BY <1>0, <2>2 DEF Grown
  <2> QED BY <2>3 DEF RunOK, Running
<1> QED BY <1>1, <1>2, FS_EmptySet DEF CountOK

LEMMA EndCounts ==
  ASSUME TreeFacts, TreeFacts', CountInv, [Next]_vars,
         NEW r \in Runs, NEW how, NEW n, NEW code, NEW err, Ends(r, how, n, code, err)
  PROVE  CountInv'
<1>0. /\ TreeInv /\ TreeTypes /\ (\A s \in Runs : RunOK(s)) /\ AboveFacts /\ Grown /\ WalksOK
      /\ \A q \in Runs : CountOK(q)
  BY StepGrows, TreeClimbs DEF TreeFacts, TreeInv, CountInv
<1>1. EndFacts(r, how, n, code) /\ Keeps(r, how) /\ EndsBy(r, how, n, code, err)
  BY <1>0, EndShape DEF Ends
<1>2. /\ span' = IF code = 0 THEN span ELSE [span EXCEPT ![r] = SpanOf(r, n, code)]
      /\ late' = IF \A p \in Above[r] : Running(p) THEN late ELSE late \cup {r}
      /\ flow' = flow /\ raised' = raised \cup err /\ err \in {{}, {r}}
  BY DEF Ends, EndsBy, Ended
<1>3. /\ tree[r].state = "running" /\ tree'[r].state # "running" /\ tree[r].state # "new"
      /\ RunOK(r) /\ span[r] = NoSpan /\ r \notin raised
  BY <1>0, <1>1 DEF EndFacts, Keeps, RunOK, Running
<1>4. \A q \in Runs : q # r => span'[q] = span[q] /\ tree'[q].state = tree[q].state /\ (q \in raised' <=> q \in raised)
  BY <1>0, <1>1, <1>2 DEF TreeTypes, Keeps
<1>7. FlowOK'
  <2>1. FlowOK
    BY DEF CountInv
  <2>2. CASE r = 1
    <3>1. tree'[1].state # "ended" /\ tree[1].state # "ended"
      BY <1>1, <1>3, <2>2 DEF EndFacts, Keeps
    <3> QED BY <1>2, <2>1, <3>1 DEF FlowOK
  <2>3. CASE r # 1
    <3>1. tree'[1].state = tree[1].state
      BY <1>4, <2>3, NTyped
    <3>2. CASE tree[1].state = "ended"
      <4>1. 1 \in Above[r] /\ ~Running(1)
        BY <1>0, <1>3, <2>3, <3>2 DEF AboveFacts, Running
      <4>2. late' # {}
        BY <1>2, <4>1
      <4> QED BY <3>1, <3>2, <4>2 DEF FlowOK
    <3>3. CASE tree[1].state # "ended"
      BY <1>2, <2>1, <3>1, <3>3 DEF FlowOK
    <3> QED BY <3>2, <3>3
  <2> QED BY <2>2, <2>3
<1>5. CASE tree[r].kind = "llm" /\ n = 1
  <2>1. tokens' = AccumulateToAncestors(r) /\ Answered' = Answered \cup {r} /\ r \notin Answered
    BY <1>0, <1>5, EndAnswers DEF Ends
  <2>2. entry[r].parent = tree[r].parent /\ tree[r].parent \in 0..N
    BY <1>0, <1>3 DEF RunOK, TreeTypes
  <2>3. \A q \in Runs : tokens'[q] = IF q \in Ancestors[tree[r].parent] THEN tokens[q] + 1 ELSE tokens[q]
    BY <2>1, <2>2 DEF AccumulateToAncestors
  <2>4. Ancestors[tree[r].parent] \subseteq Above[r]
    BY <1>0, <2>2, WalksStay, LineOfParent
  <2>5. ASSUME NEW q \in Runs PROVE CountOK(q)'
    <3>1. CASE tree[q].state = "new"
      <4>1. q \notin Above[r]
        BY <1>0, <1>3, <3>1 DEF AboveFacts
      <4>2. tokens'[q] = tokens[q]
        BY <2>3, <2>4, <4>1
      <4> QED BY <3>1, <4>2, CountStarts
    <3>2. CASE tree[q].state # "new" /\ q \notin Above[r]
      <4>1. tokens'[q] = tokens[q]
        BY <2>3, <2>4, <3>2
      <4>2. Below(q) \cap Answered' = Below(q) \cap Answered
        BY <2>1, <3>2 DEF Below
      <4>3. CASE q = r
        <5>1. tree'[r].kind = "llm" /\ tree'[r].state # "running"
          BY <1>1, <1>3, <1>5 DEF Keeps
        <5> QED BY <4>3, <5>1 DEF CountOK, Running
      <4>4. CASE q # r
        BY <1>0, <1>4, <3>2, <4>1, <4>2, <4>4, CountStays
      <4> QED BY <4>3, <4>4
    <3>3. CASE tree[q].state # "new" /\ q \in Above[r]
      <4> SUFFICES ASSUME Below(q)' \cap late' = {} PROVE CountOK(q)'
        BY DEF CountOK
      <4>1. /\ Below(q) \subseteq Below(q)' /\ late \subseteq late'
            /\ Answers(q)' = Below(q) \cap Answered'
        BY <3>3, AnswersGrow
      <4>2. r \in Below(q) /\ r \notin late'
        BY <3>3, <4>1 DEF Below
      <4>3. \A p \in Above[r] : Running(p)
        BY <1>2, <4>2
      <4>4. Ancestors[tree[r].parent] = Above[r]
        BY <1>0, <4>3, WalksFind
      <4>5. tokens'[q] = tokens[q] + 1
        BY <2>3, <3>3, <4>4
      <4>6. Running(q) /\ span[q] = NoSpan
        BY <1>0, <3>3, <4>3 DEF RunOK
      <4>7. tokens[q] = Cardinality(Answers(q))
        BY <1>0, <4>1, <4>6 DEF CountOK
      <4>8. Answers(q)' = Answers(q) \cup {r} /\ r \notin Answers(q)
        BY <2>1, <4>1, <4>2, AnswersAre
      <4>9. Cardinality(Answers(q)') = tokens'[q]
        <5>1. IsFiniteSet(Answers(q)) /\ Cardinality(Answers(q)) \in Nat
          BY AnswersAre
        <5>2. Cardinality(Answers(q) \cup {r}) = Cardinality(Answers(q)) + 1
          BY <4>8, <5>1, FS_AddElement
        <5> QED BY <4>5, <4>7, <4>8, <5>2
      <4>10. span'[q] = NoSpan
        <5>1. q # r
          BY <1>0, <3>3, NTyped DEF AboveFacts, Runs
        <5> QED BY <1>4, <4>6, <5>1
      <4> QED BY <4>9, <4>10 DEF CountOK
    <3> QED BY <3>1, <3>2, <3>3
  <2> QED BY <1>7, <2>5 DEF CountInv
<1>6. CASE ~(tree[r].kind = "llm" /\ n = 1)
  <2>1. /\ tokens' = IF how = "flushing" THEN tokens ELSE [tokens EXCEPT ![r] = 0]
        /\ Answered' = Answered
    BY <1>0, <1>6, EndAnswers DEF Ends
  <2>2. \A q \in Runs : q # r => tokens'[q] = tokens[q]
    BY <1>0, <2>1 DEF TreeTypes
  <2>3. ASSUME NEW q \in Runs PROVE CountOK(q)'
    <3>1. CASE q # r /\ tree[q].state = "new"
      BY <2>2, <3>1, CountStarts
    <3>2. CASE q # r /\ tree[q].state # "new"
      BY <1>0, <1>4, <2>1, <2>2, <3>2, CountStays
    <3>3. CASE q = r
      <4> SUFFICES ASSUME Below(r)' \cap late' = {}, span'[r] # NoSpan, tree[r].kind # "llm"
                   PROVE  span'[r].calls = IF r \in raised' THEN 0 ELSE Cardinality(Answers(r)')
        <5>1. ~Running(r)' /\ tree'[r].kind = tree[r].kind
          BY <1>1, <1>3 DEF Running, Keeps
        <5> QED BY <3>3, <5>1 DEF CountOK
      <4>1. /\ Below(r) \subseteq Below(r)' /\ late \subseteq late'
            /\ Answers(r)' = Answers(r)
        BY <1>3, <2>1, AnswersGrow, AnswersAre
      <4>2. code # 0 /\ span'[r].calls = n
        <5>1. code # 0
          BY <1>2, <1>3
        <5>2. span'[r] = SpanOf(r, n, code)
          BY <1>0, <1>2, <5>1 DEF TreeTypes
        <5> QED BY <1>1, <5>1, <5>2 DEF EndFacts
      <4>3. tokens[r] = Cardinality(Answers(r))
        BY <1>0, <1>3, <4>1 DEF CountOK, Running
      <4>4. IF r \in raised' THEN n = 0 ELSE n = tokens[r]
        BY <1>1, <1>2, <1>3, <4>2 DEF EndsBy
      <4> QED BY <4>1, <4>2, <4>3, <4>4
    <3> QED BY <3>1, <3>2, <3>3
  <2> QED BY <1>7, <2>3 DEF CountInv
<1> QED BY <1>5, <1>6

LEMMA CountsKept ==
  ASSUME TreeFacts, TreeFacts', CountInv, [Next]_vars
  PROVE  CountInv'
<1>0. /\ TreeInv /\ TreeTypes /\ (\A q \in Runs : RunOK(q)) /\ Tally /\ FlowOK
      /\ \A q \in Runs : CountOK(q)
  BY DEF TreeFacts, TreeInv, CountInv
<1>1. CASE \E r \in Runs, p \in 0..N : Starts(r, p)
  <2>1. PICK r \in Runs, p \in 0..N : Starts(r, p)
    BY <1>1
  <2>2. /\ tree[r].state = "new" /\ tokens' = tokens /\ span' = span /\ flow' = flow /\ late' = late /\ raised' = raised
        /\ \E kind, name : tree' = [tree EXCEPT ![r] =
             [kind |-> kind, name |-> name, parent |-> p, state |-> "running"]]
    BY <2>1 DEF Starts, Started, MayStart
  <2>3. (\A q \in Runs : q # r => tree'[q] = tree[q]) /\ tree'[r].state = "running"
    BY <1>0, <2>2 DEF TreeTypes
  <2>4. Answered' = Answered
    <3>1. span[r] = NoSpan
      BY <1>0, <2>2 DEF RunOK
    <3> QED BY <2>2, <2>3, <3>1 DEF Answered
  <2>5. \A q \in Runs : CountOK(q)'
    BY <1>0, <2>2, <2>4, CountStarts, CountStays
  <2>6. FlowOK'
    <3>1. tree[1].state = "ended" <=> tree'[1].state = "ended"
      BY <2>2, <2>3, NTyped
    <3> QED BY <1>0, <2>2, <2>4, <3>1 DEF FlowOK
  <2> QED BY <2>5, <2>6 DEF CountInv
<1>2. CASE \E r \in Runs : \E how, n, code, err : Ends(r, how, n, code, err)
  <2>1. PICK r \in Runs : \E how, n, code, err : Ends(r, how, n, code, err)
    BY <1>2
  <2>2. PICK how, n, code, err : Ends(r, how, n, code, err)
    BY <2>1
  <2> QED BY <2>2, EndCounts
<1>3. CASE WriteFlow
  <2>1. /\ tree' = [tree EXCEPT ![1].state = "ended"] /\ tree[1].state = "flushing"
        /\ tokens' = [tokens EXCEPT ![1] = 0] /\ span' = span /\ late' = late /\ raised' = raised
        /\ IF calls > 0 \/ 1 \in raised THEN flow' = calls ELSE flow' = flow
    BY <1>3 DEF WriteFlow
  <2>2. \A q \in Runs : /\ tree'[q].kind = tree[q].kind
                        /\ tree'[q].state = IF q = 1 THEN "ended" ELSE tree[q].state
                        /\ q # 1 => tokens'[q] = tokens[q]
    BY <1>0, <2>1 DEF TreeTypes
  <2>3. Answered' = Answered
    BY <2>1, <2>2 DEF Answered
  <2>4. ASSUME NEW q \in Runs PROVE CountOK(q)'
    <3>1. CASE tree[q].state = "new"
      <4>1. tokens'[q] = tokens[q]
        BY <2>1, <2>2, <3>1
      <4> QED BY <3>1, <4>1, CountStarts
    <3>2. CASE tree[q].state # "new"
      <4>1. /\ (tokens'[q] = tokens[q] \/ tree'[q].state # "running") /\ span'[q] = span[q]
            /\ q \in raised' <=> q \in raised
        BY <2>1, <2>2
      <4> QED BY <1>0, <2>3, <3>2, <4>1, CountStays
    <3> QED BY <3>1, <3>2
  <2>5. FlowOK'
    <3>1. flow = NoSpan /\ calls = Cardinality(Answered) /\ calls \in Nat
      BY <1>0, <2>1 DEF FlowOK, Tally, TreeTypes
    <3>2. calls > 0 <=> Answered # {}
      <4>1. IsFiniteSet(Answered)
        BY <1>0, AnsweredBound
      <4>2. Cardinality(Answered) = 0 <=> Answered = {}
        BY <4>1, FS_EmptySet
      <4> QED BY <3>1, <4>2
    <3>3. tree'[1].state = "ended"
      BY <2>2, NTyped
    <3> QED BY <2>1, <2>3, <3>1, <3>2, <3>3 DEF FlowOK
  <2> QED BY <2>4, <2>5 DEF CountInv
<1>4. CASE Still
  <2>1. Answered' = Answered
    BY <1>4 DEF Still, Answered
  <2>2. \A q \in Runs : CountOK(q)'
    BY <1>0, <1>4, <2>1, CountStarts, CountStays DEF Still
  <2>3. FlowOK'
    BY <1>0, <1>4, <2>1 DEF FlowOK, Still
  <2> QED BY <2>2, <2>3 DEF CountInv
<1> QED BY <1>1, <1>2, <1>3, <1>4, StepCases

LEMMA CountInvariant == Spec => []CountInv
<1>1. Init => CountInv
  <2> SUFFICES ASSUME Init PROVE CountInv
    OBVIOUS
  <2>1. /\ tree = [r \in Runs |-> [kind |-> "chain", name |-> "agent", parent |-> 0, state |-> "new"]]
        /\ flow = NoSpan /\ span = [r \in Runs |-> NoSpan]
    BY DEF Init
  <2>2. \A r \in Runs : CountOK(r)
    BY <2>1 DEF CountOK, Running
  <2>3. FlowOK
    BY <2>1, NTyped DEF FlowOK
  <2> QED BY <2>2, <2>3 DEF CountInv
<1>2. TreeFacts /\ TreeFacts' /\ CountInv /\ [Next]_vars => CountInv'
  BY CountsKept
<1> QED BY <1>1, <1>2, TreeAlways, PTL DEF Spec

\* Every LLM call that came back, answered or empty, is counted once in each
\* span above it, the spans of error results included, and in the
\* document of the request's calls, whatever tools and chains run at once, if
\* none ended late: _accumulate_tokens_to_ancestors and _cleanup_run.
THEOREM CallsAreCounted == Spec => []CallsAddUp
<1>1. TreeFacts /\ CountInv => CallsAddUp
  <2> SUFFICES ASSUME TreeFacts, CountInv PROVE CallsAddUp
    OBVIOUS
  <2>1. Answers(1) = Answered
    BY AnswersAre
  <2> QED BY <2>1 DEF CallsAddUp, CountInv, CountOK, FlowOK
<1> QED BY <1>1, TreeAlways, CountInvariant, PTL
-----------------------------------------------------------------------------
\* The variables of the callbacks and of the queue keep their types, and the
\* handler an entry for just the runs in flight: _cleanup_run forgets each.
THEOREM TraceTypes == Spec => []TypeOK
<1>1. Spec => []QueueTypeOK
  BY TracingImplementsQueue, QueueTypeCorrect, PTL
<1>2. TreeFacts /\ QueueTypeOK => TypeOK
  <2> SUFFICES ASSUME TreeFacts, QueueTypeOK PROVE TypeOK
    OBVIOUS
  <2>1. TreeTypes /\ (\A r \in Runs : RunOK(r)) /\ Tally
    BY DEF TreeFacts, TreeInv
  <2>2. calls \in 0..N
    BY <2>1, AnsweredBound DEF Tally
  <2>3. tokens \in [Runs -> 0..N]
    <3>1. \A r \in Runs : tokens[r] \in 0..N
      BY <2>1, <2>2, NTyped DEF TreeTypes, Tally
    <3> QED BY <2>1, <3>1 DEF TreeTypes
  <2>4. ASSUME NEW r \in Runs
        PROVE  entry[r] # NoEntry <=> tree[r].state \in {"running", "flushing"}
    <3>1. [kind |-> tree[r].kind, name |-> tree[r].name, parent |-> tree[r].parent] # NoEntry
      BY <2>1, NoEntryAssumption DEF TreeTypes, Entries
    <3>2. RunOK(r)
      BY <2>1
    <3> QED BY <3>1, <3>2 DEF RunOK
  <2> QED BY <2>1, <2>2, <2>3, <2>4 DEF TypeOK, TreeTypes, States
<1> QED BY <1>1, <1>2, TreeAlways, PTL
=============================================================================
