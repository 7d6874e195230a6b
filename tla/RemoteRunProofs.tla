--------------------------- MODULE RemoteRunProofs ---------------------------
(***************************************************************************)
(* Proofs about RemoteRun: the reply that is folded into the envelope is   *)
(* whole, it is stored when the remote has finished, and a poller sees an  *)
(* ordered replay that ends with the whole reply, for every number of      *)
(* frames and attempts, as long as the remote's client does not give up on *)
(* a request that is still worked on.                                      *)
(***************************************************************************)
EXTENDS RemoteRun, TLAPS

NoLate == "late" \notin Faults

\* What a handler does while it works on an attempt, after it has added the
\* frame, and after the terminal frame's status is in the meta.
Folds   == {"chunks", "envelope", "save", "exec", "complete"}
Added   == {"meta", "answer"} \cup Folds
Working == {"remove", "add", "meta"} \cup Folds

\* Without "late" only the attempt the client waits for is worked on.
OneHandler ==
  \A c \in Calls : call[c].at \in Working => c = Current /\ sender.at = "waiting"

\* All the frames before the current one are in the buffer, which is why the
\* remote's order is enough for the assembled reply to have no gap.
BufferPrefix ==
  /\ 1..(sender.frame - 1) \subseteq buffer
  /\ buffer \subseteq 1..sender.frame

AddedIsThere ==
  sender.at = "waiting" /\ call[Current].at \in Added => sender.frame \in buffer

\* The finalizer runs for the terminal frame and folds the whole text.
FoldsWhole ==
  \A c \in Calls :
    /\ call[c].at \in Folds => c[1] = Terminal
    /\ call[c].at = "envelope" => call[c].text = 1..Deltas
    /\ call[c].at = "save" =>
         call[c].env.reply = "filled" /\ call[c].env.text = 1..Deltas

WholeOrEmpty(e) ==
  /\ e.text \in {{}, 1..Deltas}
  /\ e.reply = "filled" => e.text = 1..Deltas

EnvelopesWhole == WholeOrEmpty(envelope) /\ WholeOrEmpty(next.env)

\* The poller has a prefix of the frames; a completed status, wherever it is
\* held, means that the remote has reached its terminal frame.
PollerPrefix == \E k \in 0..sender.frame : poll.got = 1..k

EndedIsTerminal ==
  /\ meta = "completed" => sender.frame = Terminal
  /\ poll.status = "completed" => sender.frame = Terminal
  /\ poll.at = "ended" => 1..Deltas \subseteq poll.got

Sequenced ==
  /\ OneHandler
  /\ BufferPrefix
  /\ AddedIsThere
  /\ FoldsWhole
  /\ EnvelopesWhole
  /\ PollerPrefix
  /\ EndedIsTerminal

\* A handler of the terminal frame that is past the envelope.
Stored == {"exec", "complete", "answer"}

\* For FinishedMeansStored: the remote starts after the handoff, and once a
\* handler has folded the terminal frame the reply is in the envelope.
HandoffFirst == handoff \notin {"done", "gone"} => sender.at = "ready"

FoldedIsStored ==
  next.at = "idle" =>
    /\ sender.at = "done" => envelope.reply = "filled"
    /\ sender.at = "waiting" /\ sender.frame = Terminal
       /\ call[Current].at \in Stored
         => envelope.reply = "filled"

IInv == TypeOK /\ Sequenced /\ HandoffFirst /\ FoldedIsStored

-----------------------------------------------------------------------------
(* Lemmas.                                                                 *)

\* Moving one handler on changes nothing else of it, and no other handler.
LEMMA OneCallMoves ==
  ASSUME TypeOK, NEW c \in Calls, NEW p, At(c, p)
  PROVE  /\ call'[c].at = p
         /\ call'[c].text = call[c].text
         /\ call'[c].env = call[c].env
         /\ \A d \in Calls : d # c => call'[d] = call[d]
BY DEF At, TypeOK

\* The attempt the remote is waiting for is one of the calls.
LEMMA CurrentIsCall ==
  ASSUME TypeOK
  PROVE  Current \in Calls /\ sender.frame \in 1..Terminal
BY DEF TypeOK, Current, Calls, Frames

\* Folding a text into an envelope gives an envelope.
LEMMA FoldType ==
  ASSUME NEW e \in Envelope, NEW text \in Texts
  PROVE  Fold(e, text) \in Envelope
BY DEF Fold, Envelope

\* Every variable keeps its type: the steps of the remote, the handlers, the
\* poller and the next turn only pass on what the others expect.
THEOREM RemoteTypeCorrect == Spec => []TypeOK
<1>1. Init => TypeOK
  BY RemoteAssumption
     DEF Init, TypeOK, Bare, Envelope, Texts, Frames, Terminal
<1>2. TypeOK /\ [Next]_vars => TypeOK'
  <2> SUFFICES ASSUME TypeOK, [Next]_vars PROVE TypeOK'
    OBVIOUS
  <2> USE DEF bgVars
  <2>1. CASE ForwardHandoff
    BY <2>1 DEF ForwardHandoff, TypeOK
  <2>2. CASE ClientGone
    BY <2>2 DEF ClientGone, TypeOK
  <2>3. CASE HandoffStep
    <3>1. CASE RecordHandoff
      BY <3>1 DEF RecordHandoff, TypeOK
    <3>2. CASE PersistHandoff
      BY <3>2 DEF PersistHandoff, TypeOK, Bare, Envelope, Texts
    <3>3. CASE MarkHandoff
      BY <3>3 DEF MarkHandoff, TypeOK
    <3> QED
      BY <2>3, <3>1, <3>2, <3>3 DEF HandoffStep
  <2>4. CASE Post
    <3>1. PICK p \in {"remove"} \cup ({"lost"} \cap Faults) : At(Current, p)
      BY <2>4 DEF Post
    <3> QED
      BY <2>4, <3>1, CurrentIsCall DEF Post, At, TypeOK
  <2>5. CASE Acknowledged
    BY <2>5, RemoteAssumption DEF Acknowledged, TypeOK, Frames, Terminal
  <2>6. CASE AttemptFails
    <3>1. sender.frame \in Frames /\ sender.try \in 1..Attempts
      BY DEF TypeOK
    <3>2. sender.try < Attempts => sender.try + 1 \in 1..Attempts
      BY <3>1, RemoteAssumption
    <3>3. sender' \in [frame : Frames, try : 1..Attempts,
                      at : {"ready", "waiting", "done", "raised"}]
      <4>1. CASE sender.try < Attempts
        BY <2>6, <3>1, <3>2, <4>1 DEF AttemptFails, TypeOK
      <4>2. CASE ~(sender.try < Attempts)
        BY <2>6, <3>1, <4>2 DEF AttemptFails, TypeOK
      <4> QED
        BY <4>1, <4>2
    <3> QED
      BY <2>6, <3>3 DEF AttemptFails, TypeOK
  <2>7. ASSUME NEW c \in Calls, IngestStep(c) PROVE TypeOK'
    <3> USE DEF At
    <3>0. c[1] \in Frames
      BY DEF Calls
    <3>1. CASE RemoveOld(c)
      BY <3>1 DEF RemoveOld, TypeOK
    <3>2. CASE AddFrame(c)
      BY <3>0, <3>2 DEF AddFrame, TypeOK
    <3>3. CASE SetStatus(c)
      BY <3>3 DEF SetStatus, TypeOK
    <3>4. CASE ReadChunks(c)
      <4>1. buffer \cap 1..Deltas \in Texts
        BY DEF Texts
      <4>2. DEFINE text == buffer \cap 1..Deltas
      <4>3. call' = [call EXCEPT ![c] = [call[c] EXCEPT !.at = "envelope", !.text = text]]
        BY <3>4 DEF ReadChunks, TypeOK
      <4> HIDE DEF text
      <4>4. UNCHANGED <<handoff, sender, bgVars, envelope, exec, poll, next>>
        BY <3>4 DEF ReadChunks
      <4>5. text \in Texts
        BY <4>1 DEF text
      <4>6. [call[c] EXCEPT !.at = "envelope", !.text = text]
              \in [at : {"none", "lost", "remove", "add", "meta", "chunks", "envelope",
                         "save", "exec", "complete", "answer"},
                  text : Texts, env : Envelope]
        BY <4>5 DEF TypeOK
      <4> QED
        BY <4>3, <4>4, <4>6 DEF TypeOK
    <3>5. CASE ReadEnvelope(c)
      <4>1. Fold(envelope, call[c].text) \in Envelope
        BY FoldType DEF TypeOK
      <4> QED
        BY <3>5, <4>1 DEF ReadEnvelope, TypeOK
    <3>6. CASE SaveEnvelope(c)
      BY <3>6 DEF SaveEnvelope, TypeOK
    <3>7. CASE ReadExec(c)
      BY <3>7 DEF ReadExec, TypeOK
    <3>8. CASE CompleteExec(c)
      BY <3>8 DEF CompleteExec, TypeOK
    <3> QED
      BY <2>7, <3>1, <3>2, <3>3, <3>4, <3>5, <3>6, <3>7, <3>8 DEF IngestStep
  <2>8. CASE PollStep
    <3>1. CASE PollMeta
      BY <3>1 DEF PollMeta, TypeOK
    <3>2. CASE PollChunks
      <4>1. FromCursor(poll.got) \subseteq Frames
        BY DEF FromCursor, TypeOK
      <4>2. poll.got \cup FromCursor(poll.got) \in SUBSET Frames
        BY <4>1 DEF TypeOK
      <4> HIDE DEF FromCursor
      <4>3. poll' \in [at : {"idle", "read", "ended"},
                      status : {"none", "running", "completed"}, got : SUBSET Frames]
        BY <3>2, <4>2 DEF PollChunks, TypeOK
      <4> QED
        BY <3>2, <4>3 DEF PollChunks, TypeOK
    <3> QED
      BY <2>8, <3>1, <3>2 DEF PollStep
  <2>9. CASE NextTurnStep
    <3>1. CASE NextLoads
      BY <3>1 DEF NextLoads, TypeOK, Envelope
    <3>2. CASE NextPersists
      BY <3>2 DEF NextPersists, TypeOK
    <3>3. CASE NextMarks
      BY <3>3 DEF NextMarks, TypeOK
    <3>4. CASE NextChecks
      BY <3>4 DEF NextChecks, TypeOK
    <3>5. CASE NextSaves
      BY <3>5 DEF NextSaves, TypeOK, Envelope
    <3>6. CASE NextCompletes
      BY <3>6 DEF NextCompletes, TypeOK
    <3> QED
      BY <2>9, <3>1, <3>2, <3>3, <3>4, <3>5, <3>6 DEF NextTurnStep
  <2>10. CASE UNCHANGED vars
    BY <2>10 DEF vars, TypeOK
  <2> QED
    BY <2>1, <2>2, <2>3, <2>4, <2>5, <2>6, <2>7, <2>8, <2>9, <2>10 DEF Next
<1> QED
  BY <1>1, <1>2, PTL DEF Spec

-----------------------------------------------------------------------------
(* The sequence of POSTs: steps that the conjuncts of Sequenced depend on. *)

\* The handler that takes a step is the one of the current attempt.
LEMMA StepIsCurrent ==
  ASSUME OneHandler, NEW c \in Calls, call[c].at \in Working
  PROVE  c = Current /\ c[1] = sender.frame /\ sender.at = "waiting"
BY DEF OneHandler, Current

\* While the remote, the handlers and the buffer stand still, so does what is
\* said of them.
LEMMA HandlersStandStill ==
  ASSUME Sequenced, UNCHANGED <<sender, call, buffer>>
  PROVE  OneHandler' /\ BufferPrefix' /\ AddedIsThere' /\ FoldsWhole'
BY DEF Sequenced, OneHandler, BufferPrefix, AddedIsThere, FoldsWhole, Current

LEMMA PollerStandsStill ==
  ASSUME Sequenced, UNCHANGED <<sender, meta, poll>>
  PROVE  PollerPrefix' /\ EndedIsTerminal'
BY DEF Sequenced, PollerPrefix, EndedIsTerminal

LEMMA EnvelopesStandStill ==
  ASSUME Sequenced, UNCHANGED <<envelope, next>>
  PROVE  EnvelopesWhole'
BY DEF Sequenced, EnvelopesWhole, WholeOrEmpty

\* When every frame before the current one is in the buffer, a handler of the
\* terminal frame finds the whole text.
LEMMA TerminalSeesAll ==
  ASSUME TypeOK, BufferPrefix, sender.frame = Terminal
  PROVE  buffer \cap 1..Deltas = 1..Deltas
BY RemoteAssumption DEF TypeOK, BufferPrefix, Terminal, Frames

\* Polling from the highest sequence that one has extends a prefix.
LEMMA PollExtends ==
  ASSUME TypeOK, BufferPrefix, NEW k \in 0..sender.frame, poll.got = 1..k
  PROVE  \E m \in 0..sender.frame : poll.got \cup FromCursor(poll.got) = 1..m
<1> DEFINE f == sender.frame
<1>1. f \in Nat /\ f > 0 /\ k \in Nat /\ k <= f
  BY RemoteAssumption DEF TypeOK, Frames, Terminal
<1>2. buffer = 1..f \/ buffer = 1..(f - 1)
  <2>1. 1..f = 1..(f - 1) \cup {f}
    BY <1>1
  <2> QED
    BY <2>1 DEF BufferPrefix
<1>3. ASSUME NEW m \in 0..f, buffer = 1..m
      PROVE  \E n \in 0..f : poll.got \cup FromCursor(poll.got) = 1..n
  <2>1. m \in Nat
    BY <1>1, <1>3
  <2>2. FromCursor(poll.got) = {i \in 1..m : i >= k}
    <3>1. ASSUME NEW i \in 1..m PROVE (\A g \in 1..k : i >= g) <=> i >= k
      <4>1. CASE k = 0
        BY <4>1, <1>1, <2>1
      <4>2. CASE k # 0
        <5>1. k \in 1..k
          BY <4>2, <1>1
        <5> QED
          BY <5>1, <1>1, <2>1
      <4> QED
        BY <4>1, <4>2
    <3> QED
      BY <3>1, <1>3 DEF FromCursor
  <2>3. CASE m >= k
    <3>1. 1..k \cup {i \in 1..m : i >= k} = 1..m
      BY <2>1, <2>3, <1>1
    <3> QED
      BY <3>1, <2>2, <1>3
  <2>4. CASE ~(m >= k)
    <3>1. 1..k \cup {i \in 1..m : i >= k} = 1..k
      BY <2>1, <2>4, <1>1
    <3> QED
      BY <3>1, <2>2, <1>1
  <2> QED
    BY <2>3, <2>4
<1>4. f \in 0..f /\ f - 1 \in 0..f
  BY <1>1
<1> QED
  BY <1>2, <1>3, <1>4

-----------------------------------------------------------------------------
(* The remote's own steps keep Sequenced.                                  *)

LEMMA PostKeeps ==
  ASSUME TypeOK, Sequenced, Post
  PROVE  Sequenced'
<1> USE DEF bgVars
<1>1. PICK p \in {"remove"} \cup ({"lost"} \cap Faults) : At(Current, p)
  BY DEF Post
<1>2. /\ call'[Current].at = p
      /\ \A d \in Calls : d # Current => call'[d] = call[d]
      /\ p \in {"remove", "lost"}
  BY <1>1, CurrentIsCall, OneCallMoves
<1>3. /\ sender.at = "ready" /\ sender'.at = "waiting"
      /\ sender'.frame = sender.frame /\ sender'.try = sender.try
      /\ Current' = Current
  BY DEF Post, TypeOK, Current
<1>4. OneHandler'
  <2> SUFFICES ASSUME NEW d \in Calls, call'[d].at \in Working PROVE d = Current
    BY <1>3 DEF OneHandler
  <2> QED
    BY <1>2, <1>3 DEF Sequenced, OneHandler
<1>5. BufferPrefix'
  BY <1>3 DEF Sequenced, BufferPrefix, Post
<1>6. AddedIsThere'
  BY <1>2, <1>3 DEF AddedIsThere, Added, Folds
<1>7. FoldsWhole'
  BY <1>2 DEF Sequenced, FoldsWhole, Folds
<1>8. PollerPrefix' /\ EndedIsTerminal'
  BY <1>3 DEF Sequenced, PollerPrefix, EndedIsTerminal, Post
<1>9. EnvelopesWhole'
  BY EnvelopesStandStill DEF Post
<1> QED
  BY <1>4, <1>5, <1>6, <1>7, <1>8, <1>9 DEF Sequenced

LEMMA AcknowledgedKeeps ==
  ASSUME TypeOK, Sequenced, Acknowledged
  PROVE  Sequenced'
<1> USE DEF bgVars
<1>1. \A d \in Calls : call[d].at \notin Working
  <2>1. call[Current].at \notin Working
    BY DEF Acknowledged, Working, Folds
  <2> QED
    BY <2>1 DEF Sequenced, OneHandler
<1>2. call' = call /\ buffer' = buffer
  BY DEF Acknowledged
<1>3. sender.frame \in 1..Terminal /\ sender.frame \in buffer
  BY CurrentIsCall DEF Acknowledged, Sequenced, AddedIsThere, Added
<1>4. \/ sender.frame = Terminal /\ sender'.frame = sender.frame /\ sender'.at = "done"
      \/ /\ sender.frame < Terminal
         /\ sender'.frame = sender.frame + 1 /\ sender'.at = "ready"
  BY <1>3, RemoteAssumption DEF Acknowledged, TypeOK, Terminal
<1>5. OneHandler' /\ FoldsWhole'
  BY <1>1, <1>2 DEF OneHandler, Sequenced, FoldsWhole
<1>6. BufferPrefix'
  <2>1. 1..sender.frame = 1..(sender.frame - 1) \cup {sender.frame}
    BY <1>3
  <2>2. 1..sender.frame \subseteq buffer /\ buffer \subseteq 1..sender.frame
    BY <1>3, <2>1 DEF Sequenced, BufferPrefix
  <2>3. 1..(sender.frame - 1) \subseteq 1..sender.frame
        /\ 1..sender.frame \subseteq 1..(sender.frame + 1)
        /\ sender.frame + 1 - 1 = sender.frame
    BY <1>3
  <2>4. CASE sender'.frame = sender.frame
    BY <1>2, <2>2, <2>3, <2>4 DEF BufferPrefix
  <2>5. CASE sender'.frame = sender.frame + 1
    <3>1. sender'.frame - 1 = sender.frame
      BY <1>3, <2>5
    <3>2. buffer' \subseteq 1..sender'.frame
      BY <1>2, <2>2, <2>3, <2>5
    <3>3. 1..(sender'.frame - 1) \subseteq buffer'
      BY <1>2, <2>2, <3>1
    <3> QED
      BY <3>2, <3>3 DEF BufferPrefix
  <2> QED
    BY <1>4, <2>4, <2>5
<1>7. AddedIsThere'
  BY <1>4 DEF AddedIsThere
<1>8. PollerPrefix'
  BY <1>3, <1>4, RemoteAssumption DEF Sequenced, PollerPrefix, Acknowledged
<1>9. EndedIsTerminal'
  BY <1>3, <1>4 DEF Sequenced, EndedIsTerminal, Acknowledged, Terminal
<1>10. EnvelopesWhole'
  BY EnvelopesStandStill DEF Acknowledged
<1> QED
  BY <1>5, <1>6, <1>7, <1>8, <1>9, <1>10 DEF Sequenced

\* The one step that needs NoLate: the attempt that is given up is not worked
\* on any more.
LEMMA AttemptFailsKeeps ==
  ASSUME NoLate, TypeOK, Sequenced, AttemptFails
  PROVE  Sequenced'
<1> USE DEF bgVars
<1>1. \A d \in Calls : call[d].at \notin Working
  <2>1. call[Current].at \notin Working
    BY DEF AttemptFails, Unanswered, NoLate, Working, Folds
  <2> QED
    BY <2>1 DEF Sequenced, OneHandler
<1>2. sender'.frame = sender.frame /\ sender'.at \in {"ready", "raised"}
  BY DEF AttemptFails, TypeOK
<1>3. OneHandler' /\ FoldsWhole'
  BY <1>1 DEF OneHandler, Sequenced, FoldsWhole, AttemptFails
<1>4. BufferPrefix' /\ AddedIsThere'
  BY <1>2 DEF Sequenced, BufferPrefix, AddedIsThere, AttemptFails
<1>5. PollerPrefix' /\ EndedIsTerminal'
  BY <1>2 DEF Sequenced, PollerPrefix, EndedIsTerminal, AttemptFails
<1>6. EnvelopesWhole'
  BY EnvelopesStandStill DEF AttemptFails
<1> QED
  BY <1>3, <1>4, <1>5, <1>6 DEF Sequenced

-----------------------------------------------------------------------------
(* The steps of the ingest handler keep Sequenced.                         *)

\* A handler that moves on leaves OneHandler as it is.
LEMMA OneHandlerMoves ==
  ASSUME TypeOK, OneHandler, NEW c \in Calls, call[c].at \in Working,
         \A d \in Calls : d # c => call'[d] = call[d],
         sender' = sender
  PROVE  OneHandler'
BY StepIsCurrent DEF OneHandler, Current

\* What is said of handlers that finalize only depends on the one that moves.
LEMMA FoldsWholeMoves ==
  ASSUME FoldsWhole, NEW c \in Calls,
         \A d \in Calls : d # c => call'[d] = call[d],
         call'[c].at \in Folds => c[1] = Terminal,
         call'[c].at = "envelope" => call'[c].text = 1..Deltas,
         call'[c].at = "save" =>
           call'[c].env.reply = "filled" /\ call'[c].env.text = 1..Deltas
  PROVE  FoldsWhole'
<1> SUFFICES ASSUME NEW d \in Calls
             PROVE  /\ call'[d].at \in Folds => d[1] = Terminal
                    /\ call'[d].at = "envelope" => call'[d].text = 1..Deltas
                    /\ call'[d].at = "save" =>
                         call'[d].env.reply = "filled" /\ call'[d].env.text = 1..Deltas
  BY DEF FoldsWhole
<1>1. CASE d = c
  BY <1>1
<1>2. CASE d # c
  BY <1>2 DEF FoldsWhole
<1> QED
  BY <1>1, <1>2
LEMMA IngestKeeps ==
  ASSUME TypeOK, Sequenced, NEW c \in Calls, IngestStep(c)
  PROVE  Sequenced'
<1> USE DEF bgVars
<1>1. /\ call[c].at \in Working
      /\ sender' = sender
      /\ poll' = poll /\ next' = next
  BY DEF IngestStep, RemoveOld, AddFrame, SetStatus, ReadChunks, ReadEnvelope,
         SaveEnvelope, ReadExec, CompleteExec, Working, Folds
<1>2. /\ \A d \in Calls : d # c => call'[d] = call[d]
      /\ DOMAIN call = Calls
  BY DEF TypeOK, At, IngestStep, RemoveOld, AddFrame, SetStatus, ReadChunks,
         ReadEnvelope, SaveEnvelope, ReadExec, CompleteExec
<1>3. c = Current /\ c[1] = sender.frame /\ sender.at = "waiting"
  BY <1>1, StepIsCurrent DEF Sequenced
<1>4. OneHandler'
  BY <1>1, <1>2, OneHandlerMoves DEF Sequenced
<1>5. PollerPrefix'
  BY <1>1 DEF Sequenced, PollerPrefix
<1>6. sender.frame \in 1..Terminal /\ Current' = Current
  BY <1>1, CurrentIsCall DEF Current
<1>7. ASSUME UNCHANGED buffer, call[c].at \in Added PROVE BufferPrefix' /\ AddedIsThere'
  BY <1>1, <1>3, <1>6, <1>7 DEF Sequenced, BufferPrefix, AddedIsThere
<1>8. ASSUME UNCHANGED meta PROVE EndedIsTerminal'
  BY <1>1, <1>8 DEF Sequenced, EndedIsTerminal
<1>9. ASSUME UNCHANGED envelope PROVE EnvelopesWhole'
  BY <1>1, <1>9, EnvelopesStandStill DEF Sequenced
<1>10. CASE RemoveOld(c)
  <2>1. call'[c].at = "add"
    BY <1>10, OneCallMoves DEF RemoveOld
  <2>2. BufferPrefix'
    <3>1. \A i \in 1..(sender.frame - 1) : i # sender.frame
      BY <1>6
    <3> QED
      BY <1>1, <1>3, <1>10, <3>1 DEF RemoveOld, Sequenced, BufferPrefix
  <2>3. AddedIsThere'
    BY <1>3, <1>6, <2>1 DEF AddedIsThere, Added, Folds
  <2>4. FoldsWhole'
    BY <1>2, <2>1, FoldsWholeMoves DEF Sequenced, Folds
  <2> QED
    BY <1>4, <1>5, <1>8, <1>9, <1>10, <2>2, <2>3, <2>4
       DEF RemoveOld, Sequenced
<1>11. CASE AddFrame(c)
  <2>1. call'[c].at = "meta"
    BY <1>11, OneCallMoves DEF AddFrame
  <2>2. buffer' = buffer \cup {sender.frame}
    BY <1>3, <1>11 DEF AddFrame
  <2>3. BufferPrefix' /\ AddedIsThere'
    <3>1. sender.frame \in 1..sender.frame
      BY <1>6
    <3> QED
      BY <1>1, <2>2, <3>1 DEF Sequenced, BufferPrefix, AddedIsThere
  <2>4. FoldsWhole'
    BY <1>2, <2>1, FoldsWholeMoves DEF Sequenced, Folds
  <2> QED
    BY <1>4, <1>5, <1>8, <1>9, <1>11, <2>3, <2>4
       DEF AddFrame, Sequenced
<1>12. CASE SetStatus(c)
  <2>1. call'[c].at = (IF c[1] = Terminal THEN "chunks" ELSE "answer")
    BY <1>12, OneCallMoves DEF SetStatus
  <2>2. FoldsWhole'
    BY <1>2, <2>1, FoldsWholeMoves DEF Sequenced, Folds
  <2>3. EndedIsTerminal'
    BY <1>1, <1>3, <1>12 DEF Sequenced, EndedIsTerminal, SetStatus
  <2> QED
    BY <1>4, <1>5, <1>7, <1>9, <1>12, <2>2, <2>3
       DEF SetStatus, Added, Sequenced
<1>13. CASE ReadChunks(c)
  <2>1. c[1] = Terminal
    BY <1>13 DEF Sequenced, FoldsWhole, ReadChunks, Folds
  <2>2. buffer \cap 1..Deltas = 1..Deltas
    BY <1>3, <2>1, TerminalSeesAll DEF Sequenced
  <2>3. call'[c].at = "envelope" /\ call'[c].text = 1..Deltas
    BY <1>2, <1>13, <2>2 DEF ReadChunks, TypeOK
  <2>4. FoldsWhole'
    BY <1>2, <2>1, <2>3, FoldsWholeMoves DEF Sequenced
  <2> QED
    BY <1>4, <1>5, <1>7, <1>8, <1>9, <1>13, <2>4
       DEF ReadChunks, Added, Folds, Sequenced
<1>14. CASE ReadEnvelope(c)
  <2>1. c[1] = Terminal /\ call[c].text = 1..Deltas
    BY <1>14 DEF Sequenced, FoldsWhole, ReadEnvelope, Folds
  <2> DEFINE e == Fold(envelope, call[c].text)
  <2>2. e.reply = "filled" /\ e.text = 1..Deltas
    <3>1. 1..Deltas # {}
      BY RemoteAssumption
    <3> QED
      BY <2>1, <3>1 DEF Fold, TypeOK, Envelope, Sequenced, EnvelopesWhole, WholeOrEmpty
  <2>3. call'[c].env = e /\ call'[c].at \in {"answer", "save"}
    <3> HIDE DEF e
    <3> QED
      BY <1>2, <1>14 DEF ReadEnvelope, TypeOK, e
  <2>4. FoldsWhole'
    BY <1>2, <2>1, <2>2, <2>3, FoldsWholeMoves DEF Sequenced
  <2> QED
    BY <1>4, <1>5, <1>7, <1>8, <1>9, <1>14, <2>4
       DEF ReadEnvelope, Added, Folds, Sequenced
<1>15. CASE SaveEnvelope(c)
  <2>1. call'[c].at = "exec"
    BY <1>15, OneCallMoves DEF SaveEnvelope
  <2>2. c[1] = Terminal /\ call[c].env.reply = "filled" /\ call[c].env.text = 1..Deltas
    BY <1>15 DEF Sequenced, FoldsWhole, SaveEnvelope, Folds
  <2>3. EnvelopesWhole'
    BY <1>1, <1>15, <2>2 DEF SaveEnvelope, Sequenced, EnvelopesWhole, WholeOrEmpty
  <2>4. FoldsWhole'
    BY <1>2, <2>1, <2>2, FoldsWholeMoves DEF Sequenced
  <2> QED
    BY <1>4, <1>5, <1>7, <1>8, <1>15, <2>3, <2>4
       DEF SaveEnvelope, Added, Folds, Sequenced
<1>16. CASE ReadExec(c)
  <2>1. call'[c].at \in {"complete", "answer"}
    BY <1>16, OneCallMoves DEF ReadExec
  <2>2. c[1] = Terminal
    BY <1>16 DEF Sequenced, FoldsWhole, ReadExec, Folds
  <2>3. FoldsWhole'
    BY <1>2, <2>1, <2>2, FoldsWholeMoves DEF Sequenced
  <2> QED
    BY <1>4, <1>5, <1>7, <1>8, <1>9, <1>16, <2>3
       DEF ReadExec, Added, Folds, Sequenced
<1>17. CASE CompleteExec(c)
  <2>1. call'[c].at = "answer"
    BY <1>17, OneCallMoves DEF CompleteExec
  <2>2. FoldsWhole'
    BY <1>2, <2>1, FoldsWholeMoves DEF Sequenced, Folds
  <2> QED
    BY <1>4, <1>5, <1>7, <1>8, <1>9, <1>17, <2>2
       DEF CompleteExec, Added, Folds, Sequenced
<1> QED
  BY <1>10, <1>11, <1>12, <1>13, <1>14, <1>15, <1>16, <1>17 DEF IngestStep
-----------------------------------------------------------------------------
(* Sequenced is an invariant, and with it the reply is whole.              *)

LEMMA SequencedInit == Init => Sequenced
<1> SUFFICES ASSUME Init PROVE Sequenced
  OBVIOUS
<1>1. sender.frame = 1 /\ sender.at = "ready" /\ buffer = {} /\ poll.got = {}
  BY DEF Init
<1>2. OneHandler /\ FoldsWhole
  BY DEF Init, OneHandler, FoldsWhole, Working, Folds
<1>3. BufferPrefix /\ AddedIsThere
  BY <1>1 DEF BufferPrefix, AddedIsThere
<1>4. PollerPrefix
  <2>1. 0 \in 0..1 /\ {} = 1..0
    OBVIOUS
  <2> QED
    BY <1>1, <2>1 DEF PollerPrefix
<1>5. EndedIsTerminal /\ EnvelopesWhole
  BY DEF Init, EndedIsTerminal, EnvelopesWhole, WholeOrEmpty, Bare
<1> QED
  BY <1>2, <1>3, <1>4, <1>5 DEF Sequenced

LEMMA PollKeeps ==
  ASSUME TypeOK, Sequenced, PollStep
  PROVE  Sequenced'
<1> USE DEF bgVars
<1>1. UNCHANGED <<sender, call, buffer, meta, envelope, next>>
  BY DEF PollStep, PollMeta, PollChunks
<1>2. OneHandler' /\ BufferPrefix' /\ AddedIsThere' /\ FoldsWhole' /\ EnvelopesWhole'
  BY <1>1, HandlersStandStill, EnvelopesStandStill
<1>3. CASE PollMeta
  <2>1. PollerPrefix' /\ EndedIsTerminal'
    BY <1>1, <1>3 DEF PollMeta, Sequenced, PollerPrefix, EndedIsTerminal, TypeOK
  <2> QED
    BY <1>2, <2>1 DEF Sequenced
<1>4. CASE PollChunks
  <2>1. PICK k \in 0..sender.frame : poll.got = 1..k
    BY DEF Sequenced, PollerPrefix
  <2>2. PICK m \in 0..sender.frame : poll.got \cup FromCursor(poll.got) = 1..m
    BY <2>1, PollExtends DEF Sequenced
  <2>3. /\ poll'.got = poll.got \cup FromCursor(poll.got)
        /\ poll'.status = poll.status
        /\ poll'.at = "ended" => poll.status = "completed"
    BY <1>4 DEF PollChunks, TypeOK
  <2>4. PollerPrefix'
    BY <1>1, <2>2, <2>3 DEF PollerPrefix
  <2>5. ASSUME poll.status = "completed" PROVE 1..Deltas \subseteq poll'.got
    <3>1. 1..Deltas \subseteq buffer
      BY <2>5, TerminalSeesAll DEF Sequenced, EndedIsTerminal
    <3>2. ASSUME NEW i \in 1..Deltas PROVE i \in poll.got \cup FromCursor(poll.got)
      <4>1. i \in Nat /\ i > 0 /\ k \in Nat
        BY <2>1, CurrentIsCall, RemoteAssumption DEF Terminal
      <4>2. CASE i <= k
        BY <2>1, <4>1, <4>2
      <4>3. CASE ~(i <= k)
        <5>1. \A g \in poll.got : i >= g
          BY <2>1, <4>1, <4>3
        <5> QED
          BY <3>1, <5>1 DEF FromCursor
      <4> QED
        BY <4>2, <4>3
    <3> QED
      BY <2>3, <3>2
  <2>6. EndedIsTerminal'
    BY <1>1, <2>3, <2>5 DEF Sequenced, EndedIsTerminal
  <2> QED
    BY <1>2, <2>4, <2>6 DEF Sequenced
<1> QED
  BY <1>3, <1>4 DEF PollStep

LEMMA SequencedStep ==
  ASSUME NoLate, TypeOK, Sequenced, [Next]_vars
  PROVE  Sequenced'
<1> USE DEF bgVars
<1>1. ASSUME UNCHANGED <<sender, call, buffer, meta, poll>>, EnvelopesWhole'
      PROVE  Sequenced'
  BY <1>1, HandlersStandStill, PollerStandsStill DEF Sequenced
<1>2. CASE ForwardHandoff \/ ClientGone \/ MarkHandoff
  BY <1>1, <1>2, EnvelopesStandStill DEF ForwardHandoff, ClientGone, MarkHandoff
<1>3. CASE RecordHandoff
  <2>1. EndedIsTerminal' /\ PollerPrefix'
    BY <1>3 DEF RecordHandoff, Sequenced, EndedIsTerminal, PollerPrefix
  <2> QED
    BY <1>3, <2>1, HandlersStandStill, EnvelopesStandStill DEF RecordHandoff, Sequenced
<1>4. CASE PersistHandoff
  <2>1. EnvelopesWhole'
    BY <1>4 DEF PersistHandoff, Sequenced, EnvelopesWhole, WholeOrEmpty, Bare
  <2> QED
    BY <1>1, <1>4, <2>1 DEF PersistHandoff
<1>5. CASE NextTurnStep
  <2>1. UNCHANGED <<sender, call, buffer, meta, poll>>
    BY <1>5 DEF NextTurnStep, NextLoads, NextPersists, NextMarks, NextChecks,
                NextSaves, NextCompletes
  <2>2. EnvelopesWhole'
    <3>1. CASE NextLoads
      BY <3>1 DEF NextLoads, Sequenced, EnvelopesWhole, WholeOrEmpty, TypeOK, Envelope
    <3>2. CASE NextPersists
      BY <3>2 DEF NextPersists, Sequenced, EnvelopesWhole, WholeOrEmpty, TypeOK
    <3>3. CASE NextMarks
      BY <3>3 DEF NextMarks, Sequenced, EnvelopesWhole, WholeOrEmpty, TypeOK
    <3>4. CASE NextChecks
      BY <3>4 DEF NextChecks, Sequenced, EnvelopesWhole, WholeOrEmpty, TypeOK
    <3>5. CASE NextSaves
      BY <3>5 DEF NextSaves, Sequenced, EnvelopesWhole, WholeOrEmpty, TypeOK, Envelope
    <3>6. CASE NextCompletes
      BY <3>6 DEF NextCompletes, Sequenced, EnvelopesWhole, WholeOrEmpty, TypeOK
    <3> QED
      BY <1>5, <3>1, <3>2, <3>3, <3>4, <3>5, <3>6 DEF NextTurnStep
  <2> QED
    BY <1>1, <2>1, <2>2
<1>6. CASE UNCHANGED vars
  BY <1>1, <1>6, EnvelopesStandStill DEF vars
<1> QED
  BY <1>2, <1>3, <1>4, <1>5, <1>6, PostKeeps, AcknowledgedKeeps, AttemptFailsKeeps,
     IngestKeeps, PollKeeps DEF Next, HandoffStep

\* No POST is given up while it is worked on, so every frame is in the buffer
\* before the next one is sent.
THEOREM FramesInSequence == ASSUME NoLate PROVE Spec => []Sequenced
BY SequencedInit, SequencedStep, RemoteTypeCorrect, PTL DEF Spec

\* The reply is folded into the session envelope whole, however many frames
\* it has and however often a POST of them is repeated.
THEOREM ReplyIsWhole == ASSUME NoLate PROVE Spec => []ReplyWhole
<1>1. Sequenced => ReplyWhole
  BY DEF Sequenced, EnvelopesWhole, WholeOrEmpty, ReplyWhole
<1> QED
  BY <1>1, FramesInSequence, PTL
-----------------------------------------------------------------------------
(* RemoteRun implements OrderedReplay.                                     *)

\* What a poller of /message is given is a replay of the frames in order that
\* ends only when it is whole: every step is a Poll of OrderedReplay or leaves
\* what the poller has as it is.
THEOREM RemoteImplementsReplay == ASSUME NoLate PROVE Spec => ReplayRefines
<1> USE DEF bgVars
<1>1. Init => Replay!Init
  BY DEF Init, Replay!Init
<1>2. ASSUME NoLate, TypeOK, Sequenced, TypeOK', Sequenced', [Next]_vars
      PROVE  [Replay!Poll]_<<poll.got \cap 1..Deltas, poll.at = "ended">>
  <2>1. CASE PollChunks
    <3>1. poll'.got = poll.got \cup FromCursor(poll.got)
          /\ poll.at = "read" /\ poll'.at \in {"idle", "ended"}
      BY <2>1 DEF PollChunks, TypeOK
    <3>2. PICK m \in 0..sender'.frame : poll'.got = 1..m
      BY <1>2 DEF Sequenced, PollerPrefix
    <3>3. m \in Nat /\ Deltas \in Nat
      BY <1>2, <3>2, RemoteAssumption DEF TypeOK, Frames, Terminal
    <3> DEFINE k == IF m <= Deltas THEN m ELSE Deltas
    <3>4. k \in 0..Deltas /\ poll'.got \cap 1..Deltas = 1..k
      BY <3>2, <3>3
    <3>5. poll.got \cap 1..Deltas \subseteq 1..k
      BY <3>1, <3>4
    <3>6. poll'.at = "ended" => k = Deltas
      <4>1. ASSUME poll'.at = "ended" PROVE 1..Deltas \subseteq 1..m
        BY <1>2, <3>2, <4>1 DEF Sequenced, EndedIsTerminal
      <4>2. Deltas \in 1..Deltas
        BY RemoteAssumption
      <4> QED
        BY <3>3, <4>1, <4>2
    <3>7. (poll'.at = "ended") \in {FALSE, k = Deltas}
      BY <3>6
    <3> HIDE DEF k
    <3> QED
      BY <3>1, <3>4, <3>5, <3>7 DEF Replay!Poll
  <2>2. CASE PollMeta
    BY <1>2, <2>2 DEF PollMeta, TypeOK
  <2>3. CASE UNCHANGED poll
    BY <2>3
  <2>4. PollChunks \/ PollMeta \/ UNCHANGED poll
    BY <1>2 DEF Next, vars, ForwardHandoff, ClientGone, HandoffStep, RecordHandoff,
       PersistHandoff, MarkHandoff, Post, Acknowledged, AttemptFails, IngestStep,
       RemoveOld, AddFrame, SetStatus, ReadChunks, ReadEnvelope, SaveEnvelope,
       ReadExec, CompleteExec, PollStep, NextTurnStep, NextLoads, NextPersists,
       NextMarks, NextChecks, NextSaves, NextCompletes
  <2> QED
    BY <2>1, <2>2, <2>3, <2>4
<1> QED
  BY <1>1, <1>2, FramesInSequence, RemoteTypeCorrect, PTL DEF Spec, ReplayRefines, Replay!Spec

-----------------------------------------------------------------------------
(* The reply is stored when the remote has finished.                       *)

LEMMA HandoffFirstStep ==
  ASSUME ~FastRemote, TypeOK, HandoffFirst, [Next]_vars
  PROVE  HandoffFirst'
<1> USE DEF bgVars, HandoffFirst
<1>1. CASE Post
  BY <1>1 DEF Post
<1>2. CASE Acknowledged \/ AttemptFails
  BY <1>2 DEF Acknowledged, AttemptFails, TypeOK
<1>3. CASE ForwardHandoff \/ ClientGone \/ HandoffStep
  BY <1>3 DEF ForwardHandoff, ClientGone, HandoffStep, RecordHandoff,
              PersistHandoff, MarkHandoff
<1>4. CASE UNCHANGED <<handoff, sender>>
  BY <1>4
<1>5. \/ Post \/ Acknowledged \/ AttemptFails \/ ForwardHandoff \/ ClientGone
      \/ HandoffStep \/ UNCHANGED <<handoff, sender>>
  BY DEF Next, vars, IngestStep, RemoveOld, AddFrame, SetStatus, ReadChunks,
     ReadEnvelope, SaveEnvelope, ReadExec, CompleteExec, PollStep, PollMeta,
     PollChunks, NextTurnStep, NextLoads, NextPersists, NextMarks, NextChecks,
     NextSaves, NextCompletes
<1> QED
  BY <1>1, <1>2, <1>3, <1>4, <1>5

\* A turn that has been loaded is never unloaded.
LEMMA NextStaysLoaded ==
  ASSUME TypeOK, [Next]_vars, next'.at = "idle"
  PROVE  UNCHANGED next
<1> USE DEF bgVars
<1>1. CASE NextTurnStep
  BY <1>1 DEF NextTurnStep, NextLoads, NextPersists, NextMarks, NextChecks,
              NextSaves, NextCompletes, TypeOK
<1>2. CASE ~NextTurnStep
  BY <1>2 DEF Next, vars, ForwardHandoff, ClientGone, HandoffStep, RecordHandoff,
     PersistHandoff, MarkHandoff, Post, Acknowledged, AttemptFails, IngestStep,
     RemoveOld, AddFrame, SetStatus, ReadChunks, ReadEnvelope, SaveEnvelope,
     ReadExec, CompleteExec, PollStep, PollMeta, PollChunks
<1> QED
  BY <1>1, <1>2
\* A handler of the terminal frame passes the fold on its way to the answer.
LEMMA FoldedByHandler ==
  ASSUME TypeOK, Sequenced, FoldedIsStored, NEW c \in Calls, IngestStep(c)
  PROVE  FoldedIsStored'
<1> USE DEF bgVars
<1>1. /\ call[c].at \in Working
      /\ sender' = sender /\ next' = next
  BY DEF IngestStep, RemoveOld, AddFrame, SetStatus, ReadChunks, ReadEnvelope,
         SaveEnvelope, ReadExec, CompleteExec, Working, Folds
<1>2. c = Current /\ c[1] = sender.frame /\ sender.at = "waiting" /\ Current' = c
  BY <1>1, StepIsCurrent DEF Sequenced, Current
<1> SUFFICES ASSUME next.at = "idle", sender.frame = Terminal, call'[c].at \in Stored
             PROVE  envelope'.reply = "filled"
  BY <1>1, <1>2 DEF FoldedIsStored, Stored
<1>3. CASE RemoveOld(c) \/ AddFrame(c) \/ SetStatus(c) \/ ReadChunks(c)
  <2>1. call'[c].at \notin Stored
    BY <1>2, <1>3 DEF RemoveOld, AddFrame, SetStatus, ReadChunks, At, TypeOK, Stored
  <2> QED
    BY <2>1
<1>4. CASE ReadEnvelope(c)
  <2>1. call[c].text = 1..Deltas /\ 1..Deltas # {}
    BY <1>4, RemoteAssumption DEF Sequenced, FoldsWhole, ReadEnvelope
  <2>2. Fold(envelope, call[c].text).reply = "filled"
    BY <2>1 DEF Fold, TypeOK, Envelope
  <2>3. envelope' = envelope /\ Fold(envelope, call[c].text) = envelope
    <3> HIDE DEF Fold
    <3> QED
      BY <1>4 DEF ReadEnvelope, TypeOK, Stored
  <2> QED
    BY <2>2, <2>3
<1>5. CASE SaveEnvelope(c)
  BY <1>5 DEF SaveEnvelope, Sequenced, FoldsWhole
<1>6. CASE ReadExec(c) \/ CompleteExec(c)
  BY <1>2, <1>6 DEF ReadExec, CompleteExec, FoldedIsStored, Stored
<1> QED
  BY <1>3, <1>4, <1>5, <1>6 DEF IngestStep

LEMMA FoldedIsStoredStep ==
  ASSUME ~FastRemote, TypeOK, Sequenced, HandoffFirst, FoldedIsStored, [Next]_vars
  PROVE  FoldedIsStored'
<1> USE DEF bgVars
<1>0. SUFFICES ASSUME next'.at = "idle" PROVE FoldedIsStored'
  BY DEF FoldedIsStored
<1>1. next' = next
  BY <1>0, NextStaysLoaded
<1>2. CASE Post
  <2>1. PICK p \in {"remove"} \cup ({"lost"} \cap Faults) : At(Current, p)
    BY <1>2 DEF Post
  <2>2. call'[Current].at \in {"remove", "lost"}
    BY <2>1, CurrentIsCall, OneCallMoves
  <2>3. sender'.at = "waiting" /\ Current' = Current
    BY <1>2 DEF Post, TypeOK, Current
  <2> QED
    BY <2>2, <2>3 DEF FoldedIsStored, Stored
<1>3. CASE Acknowledged
  <2>1. \/ sender.frame = Terminal /\ sender'.at = "done"
        \/ sender'.at = "ready"
    BY <1>3 DEF Acknowledged, TypeOK
  <2> QED
    BY <1>1, <1>3, <2>1 DEF Acknowledged, FoldedIsStored, Stored
<1>4. CASE AttemptFails
  BY <1>4 DEF AttemptFails, TypeOK, FoldedIsStored
<1>5. CASE PersistHandoff
  BY <1>5 DEF PersistHandoff, HandoffFirst, FoldedIsStored
<1>6. CASE UNCHANGED <<sender, call, envelope>>
  BY <1>1, <1>6 DEF FoldedIsStored, Current
<1>7. CASE \E c \in Calls : IngestStep(c)
  BY <1>7, FoldedByHandler
<1>8. CASE NextTurnStep
  BY <1>0, <1>1, <1>6, <1>8 DEF NextTurnStep, NextLoads, NextPersists, NextMarks,
     NextChecks, NextSaves, NextCompletes, TypeOK
<1>9. \/ Post \/ Acknowledged \/ AttemptFails \/ PersistHandoff \/ NextTurnStep
      \/ (\E c \in Calls : IngestStep(c)) \/ UNCHANGED <<sender, call, envelope>>
  BY DEF Next, vars, ForwardHandoff, ClientGone, HandoffStep, RecordHandoff,
     MarkHandoff, PollStep, PollMeta, PollChunks
<1> QED
  BY <1>2, <1>3, <1>4, <1>5, <1>6, <1>7, <1>8, <1>9

\* When the remote's terminal frame is acknowledged, the reply is in the
\* session envelope and stays there until the next turn: lost POSTs, lost
\* answers and repeated POSTs do not lose it, given that the remote starts
\* after the handoff is recorded.
THEOREM FinishedIsStored ==
  ASSUME NoLate, ~FastRemote PROVE Spec => []FinishedMeansStored
<1>1. Init => IInv
  <2>1. Init => HandoffFirst /\ FoldedIsStored
    BY DEF Init, HandoffFirst, FoldedIsStored
  <2>2. Init => TypeOK
    BY RemoteAssumption DEF Init, TypeOK, Bare, Envelope, Texts, Frames, Terminal
  <2> QED
    BY <2>1, <2>2, SequencedInit DEF IInv
<1>2. TypeOK' /\ IInv /\ [Next]_vars => IInv'
  BY SequencedStep, HandoffFirstStep, FoldedIsStoredStep DEF IInv
<1>3. IInv => FinishedMeansStored
  BY DEF IInv, FoldedIsStored, FinishedMeansStored
<1> QED
  BY <1>1, <1>2, <1>3, RemoteTypeCorrect, PTL DEF Spec
=============================================================================
