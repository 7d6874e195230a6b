------------------------------ MODULE RemoteRun ------------------------------
(***************************************************************************)
(* A turn whose remote task hands the run off to /message.                 *)
(*                                                                         *)
(* The remote task (the SDK's BackgroundStreamer) ends its SSE answer with *)
(* mode.background and from then on POSTs its frames, one at a time, to    *)
(* /message/ingest.  Each POST is retried, so one frame may be worked on   *)
(* by several handlers.  The ingest handler writes the frame to the        *)
(* request's chunk buffer and, for the terminal frame, folds the assembled *)
(* reply into the session envelope.  Meanwhile the invoke handler of the   *)
(* turn records the handoff, the backend polls /message, and when it is    *)
(* told that the run has ended the user sends the next turn.               *)
(*                                                                         *)
(* Every step is one Redis command with the code up to the next await.     *)
(* Frames 1..Deltas are content.delta frames, frame Deltas + 1 is terminal.*)
(* Left out: several generations of one request, failing Redis commands,   *)
(* the Mongo copy of the envelope, interrupts.                             *)
(***************************************************************************)
EXTENDS Naturals, FiniteSets

CONSTANTS
  Deltas,       \* number of content.delta frames
  Attempts,     \* attempts at a POST: max_retries + 1
  Faults,       \* what may befall a POST
  FastRemote    \* TRUE: the remote may POST before the handoff is recorded

\* "lost": the request never arrives; "answer": the response is lost;
\* "late": the client gives up on a request that is still worked on.
ASSUME RemoteAssumption ==
  /\ Deltas \in Nat /\ Deltas > 0
  /\ Attempts \in Nat /\ Attempts > 0
  /\ Faults \subseteq {"lost", "answer", "late"}
  /\ FastRemote \in BOOLEAN

VARIABLES
  handoff,    \* where _stream_to_client stands after signals.background
  sender,     \* the remote's BackgroundStreamer: frame, attempt, and state
  call,       \* the ingest handler of each attempt at each frame
  buffer,     \* sequences in the sorted set of the generation
  meta,       \* status in the background meta
  envelope,   \* the session envelope, as far as this turn and the next go
  exec,       \* the exec_status key
  poll,       \* the backend that polls /message
  next        \* the coroutine of the next turn

bgVars == <<buffer, meta>>
vars   == <<handoff, sender, call, bgVars, envelope, exec, poll, next>>

-----------------------------------------------------------------------------
Terminal == Deltas + 1
Frames   == 1..Terminal
Texts    == SUBSET (1..Deltas)
Calls    == Frames \X (1..Attempts)

\* The assistant message with the request's id: missing, the placeholder of
\* the handoff, or stamped with a terminal status; its text as the set of
\* frames it was assembled from; and what is there of the next turn.
Envelope == [reply : {"none", "held", "filled"}, text : Texts,
             next : {"none", "input", "replied"}]

Bare == [reply |-> "none", text |-> {}, next |-> "none"]

\* Faulty variants: the placeholder's text stays empty; no message is added.
FoldStampsOnly(e, text) ==
  IF e.reply = "none" /\ text = {} THEN e
  ELSE [e EXCEPT !.reply = "filled", !.text = IF e.reply = "none" THEN text ELSE @]

FoldPlaceholderOnly(e, text) ==
  IF e.reply = "none" THEN e
  ELSE [e EXCEPT !.reply = "filled", !.text = IF @ = {} THEN text ELSE @]

\* _fold_into_session_messages: a new message, or the text of an empty one.
Fold(e, text) ==
  IF e.reply = "none" /\ text = {} THEN e
  ELSE [e EXCEPT !.reply = "filled", !.text = IF @ = {} THEN text ELSE @]

\* Attempts at the frame the remote is sending.
Current == <<sender.frame, sender.try>>

At(c, p) == call' = [call EXCEPT ![c].at = p]

Init ==
  /\ handoff  = "wire"
  /\ sender   = [frame |-> 1, try |-> 1, at |-> "ready"]
  /\ call     = [c \in Calls |-> [at |-> "none", text |-> {}, env |-> Bare]]
  /\ buffer   = {}
  /\ meta     = "none"
  /\ envelope = Bare
  /\ exec     = [status |-> "running", req |-> "this"]
  /\ poll     = [at |-> "idle", status |-> "none", got |-> {}]
  /\ next     = [at |-> "idle", env |-> Bare]

-----------------------------------------------------------------------------
(* The invoke handler after the agent's stream has ended.                  *)

\* mode.background is forwarded to the client...
ForwardHandoff ==
  /\ handoff = "wire"
  /\ handoff' = "meta"
  /\ UNCHANGED <<sender, call, bgVars, envelope, exec, poll, next>>

\* ... or the client has gone: the write raises and nothing is recorded.
ClientGone ==
  /\ handoff = "wire"
  /\ handoff' = "gone"
  /\ UNCHANGED <<sender, call, bgVars, envelope, exec, poll, next>>

RecordHandoff ==
  /\ handoff = "meta"
  /\ meta' = "running"
  /\ handoff' = "persist"
  /\ UNCHANGED <<sender, call, buffer, envelope, exec, poll, next>>

\* _persist_input_and_set_running with the state that holds the placeholder.
PersistHandoff ==
  /\ handoff = "persist"
  /\ envelope' = [Bare EXCEPT !.reply = "held"]
  /\ handoff' = "mark"
  /\ UNCHANGED <<sender, call, bgVars, exec, poll, next>>

MarkHandoff ==
  /\ handoff = "mark"
  /\ exec' = [status |-> "running", req |-> "this"]
  /\ handoff' = "done"
  /\ UNCHANGED <<sender, call, bgVars, envelope, poll, next>>

-----------------------------------------------------------------------------
(* The remote: BackgroundStreamer.send_event, complete and _post.          *)

Post ==
  /\ sender.at = "ready"
  /\ FastRemote \/ handoff \in {"done", "gone"}
  /\ \E p \in {"remove"} \cup ({"lost"} \cap Faults) : At(Current, p)
  /\ sender' = [sender EXCEPT !.at = "waiting"]
  /\ UNCHANGED <<handoff, bgVars, envelope, exec, poll, next>>

\* A status below 400: the next event is sent.
Acknowledged ==
  /\ sender.at = "waiting"
  /\ call[Current].at = "answer"
  /\ sender' = IF sender.frame = Terminal THEN [sender EXCEPT !.at = "done"]
               ELSE [frame |-> sender.frame + 1, try |-> 1, at |-> "ready"]
  /\ UNCHANGED <<handoff, call, bgVars, envelope, exec, poll, next>>

\* The attempt as the client sees it: no answer came.
Unanswered(at) ==
  \/ at = "lost"
  \/ at = "answer" /\ "answer" \in Faults
  \/ at # "answer" /\ "late" \in Faults

\* Faulty variant: one attempt too many.
AttemptFailsOffByOne ==
  /\ sender.at = "waiting"
  /\ Unanswered(call[Current].at)
  /\ sender' = IF sender.try <= Attempts
               THEN [sender EXCEPT !.try = @ + 1, !.at = "ready"]
               ELSE [sender EXCEPT !.at = "raised"]
  /\ UNCHANGED <<handoff, call, bgVars, envelope, exec, poll, next>>

\* A timeout or a transport error: the next attempt, or an exception.
AttemptFails ==
  /\ sender.at = "waiting"
  /\ Unanswered(call[Current].at)
  /\ sender' = IF sender.try < Attempts
               THEN [sender EXCEPT !.try = @ + 1, !.at = "ready"]
               ELSE [sender EXCEPT !.at = "raised"]
  /\ UNCHANGED <<handoff, call, bgVars, envelope, exec, poll, next>>

-----------------------------------------------------------------------------
(* POST /message/ingest: append_bg_chunks with the one event of the call.  *)

\* Faulty variant: the range that is removed has no lower end.
RemoveUpTo(c) ==
  /\ call[c].at = "remove"
  /\ buffer' = {f \in buffer : f > c[1]}
  /\ At(c, "add")
  /\ UNCHANGED <<handoff, sender, meta, envelope, exec, poll, next>>

RemoveOld(c) ==
  /\ call[c].at = "remove"
  /\ buffer' = buffer \ {c[1]}
  /\ At(c, "add")
  /\ UNCHANGED <<handoff, sender, meta, envelope, exec, poll, next>>

AddFrame(c) ==
  /\ call[c].at = "add"
  /\ buffer' = buffer \cup {c[1]}
  /\ At(c, "meta")
  /\ UNCHANGED <<handoff, sender, meta, envelope, exec, poll, next>>

\* Faulty variant: the generation is never reported as ended.
SetStatusRunning(c) ==
  /\ call[c].at = "meta"
  /\ meta' = "running"
  /\ At(c, IF c[1] = Terminal THEN "chunks" ELSE "answer")
  /\ UNCHANGED <<handoff, sender, buffer, envelope, exec, poll, next>>

SetStatus(c) ==
  /\ call[c].at = "meta"
  /\ meta' = IF c[1] = Terminal THEN "completed" ELSE "running"
  /\ At(c, IF c[1] = Terminal THEN "chunks" ELSE "answer")
  /\ UNCHANGED <<handoff, sender, buffer, envelope, exec, poll, next>>

-----------------------------------------------------------------------------
(* _finalize_session_from_chunks, after a terminal frame.                  *)

ReadChunks(c) ==
  /\ call[c].at = "chunks"
  /\ call' = [call EXCEPT ![c].at = "envelope", ![c].text = buffer \cap 1..Deltas]
  /\ UNCHANGED <<handoff, sender, bgVars, envelope, exec, poll, next>>

\* Nothing is written when the fold changes nothing.
ReadEnvelope(c) ==
  /\ call[c].at = "envelope"
  /\ LET e == Fold(envelope, call[c].text) IN
     call' = [call EXCEPT ![c].env = e,
                          ![c].at = IF e = envelope THEN "answer" ELSE "save"]
  /\ UNCHANGED <<handoff, sender, bgVars, envelope, exec, poll, next>>

SaveEnvelope(c) ==
  /\ call[c].at = "save"
  /\ envelope' = call[c].env
  /\ At(c, "exec")
  /\ UNCHANGED <<handoff, sender, bgVars, exec, poll, next>>

\* Only the owner of exec_status is marked completed...
ReadExec(c) ==
  /\ call[c].at = "exec"
  /\ At(c, IF exec.req = "this" THEN "complete" ELSE "answer")
  /\ UNCHANGED <<handoff, sender, bgVars, envelope, exec, poll, next>>

\* ... by a second command.
CompleteExec(c) ==
  /\ call[c].at = "complete"
  /\ exec' = [status |-> "completed", req |-> "this"]
  /\ At(c, "answer")
  /\ UNCHANGED <<handoff, sender, bgVars, envelope, poll, next>>

-----------------------------------------------------------------------------
(* POST /message, for a backend that has seen mode.background, polls with  *)
(* the highest sequence it has, and stops when it reads a terminal status. *)

PollMeta ==
  /\ poll.at = "idle"
  /\ handoff \notin {"wire", "gone"}
  /\ meta # "none"
  /\ poll' = [poll EXCEPT !.at = "read", !.status = meta]
  /\ UNCHANGED <<handoff, sender, call, bgVars, envelope, exec, next>>

\* Frames with a sequence from the cursor on.
FromCursor(got) == {f \in buffer : \A g \in got : f >= g}

PollChunks ==
  /\ poll.at = "read"
  /\ poll' = [poll EXCEPT !.got = @ \cup FromCursor(@),
                          !.at = IF poll.status = "completed" THEN "ended" ELSE "idle"]
  /\ UNCHANGED <<handoff, sender, call, bgVars, envelope, exec, next>>

-----------------------------------------------------------------------------
(* The next turn of the session, sent when the run has been seen to end.   *)

NextLoads ==
  /\ next.at = "idle"
  /\ poll.at = "ended"
  /\ next' = [at |-> "persist", env |-> [envelope EXCEPT !.next = "input"]]
  /\ UNCHANGED <<handoff, sender, call, bgVars, envelope, exec, poll>>

NextPersists ==
  /\ next.at = "persist"
  /\ envelope' = next.env
  /\ next' = [next EXCEPT !.at = "mark"]
  /\ UNCHANGED <<handoff, sender, call, bgVars, exec, poll>>

NextMarks ==
  /\ next.at = "mark"
  /\ exec' = [status |-> "running", req |-> "next"]
  /\ next' = [next EXCEPT !.at = "run"]
  /\ UNCHANGED <<handoff, sender, call, bgVars, envelope, poll>>

\* Its agent has ended: _check_exec_status, then the envelope and the status.
NextChecks ==
  /\ next.at = "run"
  /\ next' = [next EXCEPT !.at =
       IF exec = [status |-> "running", req |-> "next"] THEN "save" ELSE "stopped"]
  /\ UNCHANGED <<handoff, sender, call, bgVars, envelope, exec, poll>>

NextSaves ==
  /\ next.at = "save"
  /\ envelope' = [next.env EXCEPT !.next = "replied"]
  /\ next' = [next EXCEPT !.at = "complete"]
  /\ UNCHANGED <<handoff, sender, call, bgVars, exec, poll>>

NextCompletes ==
  /\ next.at = "complete"
  /\ exec' = [status |-> "completed", req |-> "next"]
  /\ next' = [next EXCEPT !.at = "done"]
  /\ UNCHANGED <<handoff, sender, call, bgVars, envelope, poll>>

-----------------------------------------------------------------------------
HandoffStep == RecordHandoff \/ PersistHandoff \/ MarkHandoff

IngestStep(c) ==
  \/ RemoveOld(c) \/ AddFrame(c) \/ SetStatus(c)
  \/ ReadChunks(c) \/ ReadEnvelope(c) \/ SaveEnvelope(c)
  \/ ReadExec(c) \/ CompleteExec(c)

PollStep == PollMeta \/ PollChunks

NextTurnStep ==
  \/ NextLoads \/ NextPersists \/ NextMarks
  \/ NextChecks \/ NextSaves \/ NextCompletes

Next ==
  \/ ForwardHandoff \/ ClientGone \/ HandoffStep
  \/ Post \/ Acknowledged \/ AttemptFails
  \/ \E c \in Calls : IngestStep(c)
  \/ PollStep
  \/ NextTurnStep

Spec == Init /\ [][Next]_vars

\* The backend keeps polling and the server answers; the remote may stop.
FairSpec == Spec /\ WF_vars(PollMeta) /\ WF_vars(PollChunks)

-----------------------------------------------------------------------------
(* Properties.                                                             *)

TypeOK ==
  /\ handoff  \in {"wire", "meta", "persist", "mark", "done", "gone"}
  /\ sender   \in [frame : Frames, try : 1..Attempts,
                   at : {"ready", "waiting", "done", "raised"}]
  /\ call     \in [Calls -> [at : {"none", "lost", "remove", "add", "meta",
                                   "chunks", "envelope", "save", "exec",
                                   "complete", "answer"},
                             text : Texts, env : Envelope]]
  /\ buffer \subseteq Frames
  /\ meta     \in {"none", "running", "completed"}
  /\ envelope \in Envelope
  /\ exec     \in [status : {"running", "completed"}, req : {"this", "next"}]
  /\ poll     \in [at : {"idle", "read", "ended"},
                   status : {"none", "running", "completed"}, got : SUBSET Frames]
  /\ next     \in [at : {"idle", "persist", "mark", "run", "save", "complete",
                         "stopped", "done"}, env : Envelope]

Replay == INSTANCE OrderedReplay
            WITH delivered <- poll.got \cap 1..Deltas, ended <- poll.at = "ended"

\* "return accumulated background chunks": what a poller has is always a
\* prefix of the reply, and when it is told that the run has ended it has
\* the whole reply, although POSTs are lost and repeated.
ReplayRefines == Replay!Spec

\* Once the reply is stamped with its terminal status in the envelope, its
\* text is the whole text the remote has sent.
ReplyWhole == envelope.reply = "filled" => envelope.text = 1..Deltas

\* "assemble the generation's chunks into one assistant message and persist
\* it into the canonical session envelope": when the remote's terminal frame
\* has been acknowledged, the reply is stored and stays until the next turn.
FinishedMeansStored ==
  sender.at = "done" /\ next.at = "idle" => envelope.reply = "filled"

\* Once the remote's terminal frame is acknowledged, the backend that polls
\* for the run sees it end.
PollerEnds == (sender.at = "done" /\ handoff = "done") ~> poll.at = "ended"
=============================================================================
