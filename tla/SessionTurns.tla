---------------------------- MODULE SessionTurns ----------------------------
(***************************************************************************)
(* The turns of ONE stateful session, as the invoke and interrupt handlers *)
(* run them.                                                               *)
(*                                                                         *)
(* A turn is an AgentInvokeRequest.  Its coroutine loads the session       *)
(* envelope from Redis, appends the user message, writes the envelope      *)
(* back, marks itself "running" in exec_status, runs the agent and         *)
(* finalizes.  Redis executes one command at a time, so every step below   *)
(* is one Redis command together with the local code up to the next await; *)
(* between two steps any other coroutine of any pod may run.               *)
(*                                                                         *)
(* Modelled: blocking invoke ("sync"), SSE ("stream"), SSE that may move   *)
(* to the background after BACKGROUND_SWITCH_SECONDS ("auto") and          *)
(* delivery.mode = background ("background"); the interrupt endpoint; the  *)
(* interrupt poller; a pod that dies in the middle of a turn.              *)
(* Left to other modules: the Mongo copy of the envelope and failing Redis *)
(* commands, remote tasks and /message, the chunk buffer itself.           *)
(***************************************************************************)
EXTENDS Naturals, Sequences, FiniteSets

CONSTANTS
  Turns,          \* the request ids sent to the session
  NoTurn,         \* stands for "no request id"
  Interrupts,     \* the calls of the interrupt endpoint
  Modes,          \* the modes in which a turn may be sent
  Overlap,        \* TRUE: clients may send a turn while another is in flight
  PollEnabled,    \* INTERRUPT_POLL_ENABLED
  MaxRounds       \* bound: tool rounds of one agent run

AllModes == {"sync", "stream", "auto", "background"}

ASSUME TurnsAssumption ==
  /\ NoTurn \notin Turns
  /\ Modes \subseteq AllModes
  /\ Overlap \in BOOLEAN
  /\ PollEnabled \in BOOLEAN
  /\ MaxRounds \in Nat

VARIABLES
  pc,         \* where the coroutine of each turn stands
  mode,       \* how each turn was sent
  hist,       \* ctx.state / final_state["messages"] of each turn
  fired,      \* InterruptPoller._interrupted of each turn
  detached,   \* the turn has moved to the background
  outcome,    \* what the turn's client is told, or will be
  bgStatus,   \* status in the background meta of each turn
  envelope,   \* the messages of the session envelope in Redis
  exec,       \* the exec_status key in Redis
  icall,      \* the interrupt calls: their position and the id they read
  revoked,    \* history: who has taken exec_status from a pending turn
  stopped,    \* history: turns told to stop while they were pending
  saved,      \* history: turns whose user message has been persisted
  before      \* history: per turn, what was in saved when it loaded

turnVars == <<pc, mode, hist, fired, detached, outcome, bgStatus>>
ghosts   == <<revoked, stopped, saved, before>>
vars     == <<turnVars, envelope, exec, icall, ghosts>>

-----------------------------------------------------------------------------
(* Messages.  A message is its kind and the turn that produced it; "call"  *)
(* is an AIMessage whose tool_calls have no ToolMessage yet answered,      *)
(* "text" an AIMessage without tool calls that is not the final reply.     *)

Kinds   == {"user", "call", "result", "text", "reply"}
Message == [kind : Kinds, turn : Turns]
History == Seq(Message)

Msg(k, t)   == [kind |-> k, turn |-> t]
Holds(h, m) == \E i \in DOMAIN h : h[i] = m
Users(h)    == {t \in Turns : Holds(h, Msg("user", t))}
LastKind(h) == h[Len(h)].kind

\* An AIMessage with tool_calls at i that no later ToolMessage answers.
Dangling(h, i) ==
  /\ h[i].kind = "call"
  /\ \A j \in DOMAIN h : j > i => h[j] # Msg("result", h[i].turn)

\* Faulty variant: the cut also takes the message before the call.
SanitizeOffByOne(h) ==
  LET bad == {i \in DOMAIN h : Dangling(h, i)}
  IN IF bad = {} THEN h ELSE SubSeq(h, 1, (CHOOSE k \in bad : TRUE) - 2)

\* The agent's last tool-calling message loses its calls, and what follows
\* it is dropped, when one of its calls has no result.
Sanitize(h) ==
  LET last == {i \in DOMAIN h : /\ h[i].kind = "call"
                                /\ \A j \in DOMAIN h : j > i => h[j].kind # "call"}
      bad  == {i \in last : Dangling(h, i)}
  IN IF bad = {} THEN h
     ELSE LET i == CHOOSE k \in bad : TRUE
          IN Append(SubSeq(h, 1, i - 1), Msg("text", h[i].turn))

Rounds(h, t) == Cardinality({i \in DOMAIN h : h[i] = Msg("call", t)})

\* The message lists the next "values" chunk of turn t may carry: the input
\* itself (the first chunk), a model answer, or the results of its calls.
NextStates(t) ==
  LET h == hist[t] IN
  CASE LastKind(h) = "user"   -> {h, Append(h, Msg("reply", t))}
                                   \cup (IF Rounds(h, t) < MaxRounds
                                         THEN {Append(h, Msg("call", t))} ELSE {})
    [] LastKind(h) = "call"   -> {Append(h, Msg("result", t))}
    [] LastKind(h) = "result" -> {Append(h, Msg("reply", t))}
                                   \cup (IF Rounds(h, t) < MaxRounds
                                         THEN {Append(h, Msg("call", t))} ELSE {})
    [] OTHER                  -> {}

-----------------------------------------------------------------------------
(* Positions of a turn's coroutine, and the values of its fields.          *)

Positions == {"idle", "load", "persist", "mark", "bgmeta", "run", "check",
              "save", "complete", "isave", "icomplete", "append", "done"}
Outcomes  == {"none", "completed", "stopped", "interrupted", "failed",
              "raised", "crashed"}
Terminal  == {"completed", "failed", "interrupted"}

InFlight(t) == pc[t] \notin {"idle", "done"}
\* The agent runs, or has run and _check_exec_status is still to come.
Pending(t)  == pc[t] \in {"run", "check"}
Exec(s, t)  == [status |-> s, req |-> t]
Goto(t, p)  == pc' = [pc EXCEPT ![t] = p]

\* The coroutine returns, and its state goes with it.
Return(t) == Goto(t, "done") /\ hist' = [hist EXCEPT ![t] = << >>]

\* exec_status changes under every pending turn but those of S.  A stray
\* interrupt is the least of the causes.
Revoke(S, cause) ==
  [t \in Turns |->
     IF t \notin S /\ Pending(t) /\ revoked[t] \in {"no", "stray"}
     THEN cause ELSE revoked[t]]

\* The turn's last word, streamed or returned, or yet to be appended to the
\* buffer when the turn has moved to the background.
Answer(t, o) ==
  /\ outcome' = [outcome EXCEPT ![t] = o]
  /\ \/ detached[t] /\ Goto(t, "append") /\ UNCHANGED hist
     \/ ~detached[t] /\ Return(t)

Init ==
  /\ pc       = [t \in Turns |-> "idle"]
  /\ mode     = [t \in Turns |-> "none"]
  /\ hist     = [t \in Turns |-> << >>]
  /\ fired    = [t \in Turns |-> FALSE]
  /\ detached = [t \in Turns |-> FALSE]
  /\ outcome  = [t \in Turns |-> "none"]
  /\ bgStatus = [t \in Turns |-> "none"]
  /\ envelope = << >>
  /\ exec     = Exec("none", NoTurn)
  /\ icall    = [i \in Interrupts |-> [at |-> "idle", req |-> NoTurn]]
  /\ revoked  = [t \in Turns |-> "no"]
  /\ stopped  = {}
  /\ saved    = {}
  /\ before   = [t \in Turns |-> {}]

-----------------------------------------------------------------------------
(* Preparing a turn.                                                       *)

\* POST /agent/invoke arrives.  Unless clients overlap their turns, they
\* wait for the end of a turn before they send the next.
Submit(t) ==
  /\ pc[t] = "idle"
  /\ Overlap \/ \A u \in Turns : ~InFlight(u)
  /\ \E m \in Modes : mode' = [mode EXCEPT ![t] = m]
  /\ Goto(t, "load")
  /\ UNCHANGED <<hist, fired, detached, outcome, bgStatus,
                 envelope, exec, icall, ghosts>>

\* Faulty variant: the stored history is not restored.
LoadFresh(t) ==
  /\ pc[t] = "load"
  /\ hist' = [hist EXCEPT ![t] = <<Msg("user", t)>>]
  /\ before' = [before EXCEPT ![t] = saved]
  /\ Goto(t, "persist")
  /\ UNCHANGED <<mode, fired, detached, outcome, bgStatus,
                 envelope, exec, icall, revoked, stopped, saved>>

\* The envelope is read; a session without one starts from the request body.
\* Either way the turn's own user message comes last.
Load(t) ==
  /\ pc[t] = "load"
  /\ hist' = [hist EXCEPT ![t] = Append(envelope, Msg("user", t))]
  /\ before' = [before EXCEPT ![t] = saved]
  /\ Goto(t, "persist")
  /\ UNCHANGED <<mode, fired, detached, outcome, bgStatus,
                 envelope, exec, icall, revoked, stopped, saved>>

\* First half of _persist_input_and_set_running, here and at the switch to
\* the background: the whole envelope is overwritten with the turn's state.
PersistInput(t) ==
  /\ pc[t] = "persist"
  /\ envelope' = hist[t]
  /\ saved' = saved \cup {t}
  /\ Goto(t, "mark")
  /\ UNCHANGED <<mode, hist, fired, detached, outcome, bgStatus,
                 exec, icall, revoked, stopped, before>>

\* Second half: the turn takes exec_status, whoever has it.
MarkRunning(t) ==
  /\ pc[t] = "mark"
  /\ exec' = Exec("running", t)
  /\ revoked' = [Revoke({t}, "turn") EXCEPT ![t] = "no"]
  /\ Goto(t, IF mode[t] = "background" /\ ~detached[t] THEN "bgmeta" ELSE "run")
  /\ UNCHANGED <<mode, hist, fired, detached, outcome, bgStatus,
                 envelope, icall, stopped, saved, before>>

\* The live wire closes and set_bg_meta records the generation as running.
\* The drain task that follows polls for interrupts with a new event.
EnterBackground(t) ==
  /\ pc[t] = "bgmeta"
  /\ detached' = [detached EXCEPT ![t] = TRUE]
  /\ bgStatus' = [bgStatus EXCEPT ![t] = "running"]
  /\ fired' = [fired EXCEPT ![t] = FALSE]
  /\ Goto(t, "persist")
  /\ UNCHANGED <<mode, hist, outcome, envelope, exec, icall, ghosts>>

-----------------------------------------------------------------------------
(* Running the agent.                                                      *)

\* Faulty variant: the poller does not compare the request id.
PollAnyRequest(t) ==
  /\ PollEnabled /\ pc[t] = "run" /\ ~fired[t] /\ exec.status = "stopped"
  /\ fired' = [fired EXCEPT ![t] = TRUE]
  /\ UNCHANGED <<pc, mode, hist, detached, outcome, bgStatus,
                 envelope, exec, icall, ghosts>>

\* Faulty variant: only streams start a poller.
PollStreams(t) ==
  /\ PollEnabled /\ pc[t] = "run" /\ mode[t] # "sync" /\ ~fired[t]
  /\ exec = Exec("stopped", t)
  /\ fired' = [fired EXCEPT ![t] = TRUE]
  /\ UNCHANGED <<pc, mode, hist, detached, outcome, bgStatus,
                 envelope, exec, icall, ghosts>>

\* The poller finds its own request stopped.  Firing once the agent has
\* ended would change nothing, so only a running turn polls.
Poll(t) ==
  /\ PollEnabled
  /\ pc[t] = "run"
  /\ ~fired[t]
  /\ exec = Exec("stopped", t)
  /\ fired' = [fired EXCEPT ![t] = TRUE]
  /\ UNCHANGED <<pc, mode, hist, detached, outcome, bgStatus,
                 envelope, exec, icall, ghosts>>

\* The histories a blocking ainvoke may return.
Returned(t) ==
  {Append(hist[t], Msg("reply", t))} \cup
  (IF MaxRounds = 0 THEN {}
   ELSE {hist[t] \o <<Msg("call", t), Msg("result", t), Msg("reply", t)>>})

\* ainvoke() returns before the interrupt fires.
AgentReturns(t) ==
  /\ pc[t] = "run" /\ mode[t] = "sync" /\ ~fired[t]
  /\ \E h \in Returned(t) : hist' = [hist EXCEPT ![t] = h]
  /\ Goto(t, "check")
  /\ UNCHANGED <<mode, fired, detached, outcome, bgStatus,
                 envelope, exec, icall, ghosts>>

\* The interrupt fires, before or while ainvoke() returns: its result, if
\* any, is dropped and ctx.state, which ends in the user message, is kept.
InterruptWins(t) ==
  /\ pc[t] = "run" /\ mode[t] = "sync" /\ fired[t]
  /\ outcome' = [outcome EXCEPT ![t] = "interrupted"]
  /\ Goto(t, "isave")
  /\ UNCHANGED <<mode, hist, fired, detached, bgStatus,
                 envelope, exec, icall, ghosts>>

\* A "values" chunk reaches the loop of _stream_to_client or of
\* _drain_background, which then breaks, fails, switches or goes on.
ChunkInterrupted(t) ==
  /\ pc[t] = "run" /\ mode[t] # "sync" /\ fired[t]
  /\ \E h \in NextStates(t) : hist' = [hist EXCEPT ![t] = h]
  /\ outcome' = [outcome EXCEPT ![t] = "interrupted"]
  /\ Goto(t, "isave")
  /\ UNCHANGED <<mode, fired, detached, bgStatus, envelope, exec, icall, ghosts>>

\* The model's answer carries stream_status = "failed".
ChunkFailed(t) ==
  /\ pc[t] = "run" /\ mode[t] # "sync" /\ ~fired[t]
  /\ LastKind(hist[t]) \in {"user", "result"}
  /\ hist' = [hist EXCEPT ![t] = Append(@, Msg("text", t))]
  /\ outcome' = [outcome EXCEPT ![t] = "failed"]
  /\ Goto(t, "isave")
  /\ UNCHANGED <<mode, fired, detached, bgStatus, envelope, exec, icall, ghosts>>

\* More than BACKGROUND_SWITCH_SECONDS have passed since the stream opened.
ChunkSwitches(t) ==
  /\ pc[t] = "run" /\ mode[t] = "auto" /\ ~detached[t] /\ ~fired[t]
  /\ \E h \in NextStates(t) : hist' = [hist EXCEPT ![t] = h]
  /\ Goto(t, "bgmeta")
  /\ UNCHANGED <<mode, fired, detached, outcome, bgStatus,
                 envelope, exec, icall, ghosts>>

ChunkContinues(t) ==
  /\ pc[t] = "run" /\ mode[t] # "sync" /\ ~fired[t]
  /\ \E h \in NextStates(t) : h # hist[t] /\ hist' = [hist EXCEPT ![t] = h]
  /\ UNCHANGED <<pc, mode, fired, detached, outcome, bgStatus,
                 envelope, exec, icall, ghosts>>

\* astream() is exhausted after the reply.
StreamEnds(t) ==
  /\ pc[t] = "run" /\ mode[t] # "sync" /\ LastKind(hist[t]) = "reply"
  /\ Goto(t, "check")
  /\ UNCHANGED <<mode, hist, fired, detached, outcome, bgStatus,
                 envelope, exec, icall, ghosts>>

\* Faulty variant: a background run that raises leaves no terminal frame.
AgentRaisesSilently(t) ==
  /\ pc[t] = "run"
  /\ outcome' = [outcome EXCEPT ![t] = "raised"]
  /\ Return(t)
  /\ UNCHANGED <<mode, fired, detached, bgStatus,
                 envelope, exec, icall, ghosts>>

\* The agent raises.  A live stream whose interrupt has fired is finalized as
\* interrupted, unless what was raised is re-raised: a RuntimeError that is no
\* remote's, GraphRecursionError among them.  Otherwise the client gets an
\* error, or the buffer a stream.failed, and nothing is finalized.
AgentRaises(t) ==
  /\ pc[t] = "run"
  /\ \/ /\ mode[t] # "sync" /\ ~detached[t] /\ fired[t]
        /\ outcome' = [outcome EXCEPT ![t] = "interrupted"]
        /\ Goto(t, "isave")
        /\ UNCHANGED hist
     \/ Answer(t, "raised")
  /\ UNCHANGED <<mode, fired, detached, bgStatus,
                 envelope, exec, icall, ghosts>>

-----------------------------------------------------------------------------
(* Finalizing.                                                             *)

\* Faulty variants: one half of the comparison is missing.
MayFinalizeAnyRunning(t) == exec.status \in {"none", "running"}
MayFinalizeAnyStatus(t)  == exec.status = "none" \/ exec.req = t

\* _check_exec_status: a turn that no longer owns exec_status is suppressed.
MayFinalize(t) == exec.status = "none" \/ exec = Exec("running", t)

\* Faulty variant: the terminal status is published before the envelope.
CheckStatusReports(t) ==
  /\ pc[t] = "check"
  /\ IF MayFinalize(t)
     THEN /\ Goto(t, "save")
          /\ bgStatus' = [bgStatus EXCEPT ![t] =
                            IF detached[t] THEN "completed" ELSE @]
          /\ UNCHANGED <<outcome, hist>>
     ELSE Answer(t, "stopped") /\ UNCHANGED bgStatus
  /\ UNCHANGED <<mode, fired, detached, envelope, exec, icall, ghosts>>

CheckStatus(t) ==
  /\ pc[t] = "check"
  /\ IF MayFinalize(t)
     THEN Goto(t, "save") /\ UNCHANGED <<outcome, hist>>
     ELSE Answer(t, "stopped")
  /\ UNCHANGED <<mode, fired, detached, bgStatus,
                 envelope, exec, icall, ghosts>>

\* Faulty variant: only background turns persist their reply.
SaveReplyOfDetached(t) ==
  /\ pc[t] = "save"
  /\ envelope' = IF detached[t] THEN hist[t] ELSE envelope
  /\ Goto(t, "complete")
  /\ UNCHANGED <<mode, hist, fired, detached, outcome, bgStatus,
                 exec, icall, ghosts>>

SaveReply(t) ==
  /\ pc[t] = "save"
  /\ envelope' = hist[t]
  /\ Goto(t, "complete")
  /\ UNCHANGED <<mode, hist, fired, detached, outcome, bgStatus,
                 exec, icall, ghosts>>

MarkCompleted(t) ==
  /\ pc[t] = "complete"
  /\ exec' = Exec("completed", t)
  /\ revoked' = Revoke({t}, "turn")
  /\ Answer(t, "completed")
  /\ UNCHANGED <<mode, fired, detached, bgStatus,
                 envelope, icall, stopped, saved, before>>

\* Faulty variant: the partial state is stored as it is.
SavePartialRaw(t) ==
  /\ pc[t] = "isave"
  /\ envelope' = hist[t]
  /\ Goto(t, "icomplete")
  /\ UNCHANGED <<mode, hist, fired, detached, outcome, bgStatus,
                 exec, icall, ghosts>>

\* _finalize_interrupted_execution: the partial state always overwrites the
\* envelope, and exec_status always becomes "completed".
SavePartial(t) ==
  /\ pc[t] = "isave"
  /\ hist' = [hist EXCEPT ![t] = Sanitize(@)]
  /\ envelope' = Sanitize(hist[t])
  /\ Goto(t, "icomplete")
  /\ UNCHANGED <<mode, fired, detached, outcome, bgStatus, exec, icall, ghosts>>

\* Faulty variant: exec_status is left as it is.
MarkInterruptedForgets(t) ==
  /\ pc[t] = "icomplete"
  /\ Answer(t, outcome[t])
  /\ UNCHANGED <<mode, fired, detached, bgStatus, envelope, exec, icall, ghosts>>

MarkInterrupted(t) ==
  /\ pc[t] = "icomplete"
  /\ exec' = Exec("completed", t)
  /\ revoked' = Revoke({t}, "turn")
  /\ Answer(t, outcome[t])
  /\ UNCHANGED <<mode, fired, detached, bgStatus,
                 envelope, icall, stopped, saved, before>>

\* Faulty variant: a suppressed turn's meta keeps a status of its own.
AppendTerminalVerbatim(t) ==
  /\ pc[t] = "append"
  /\ bgStatus' = [bgStatus EXCEPT ![t] = outcome[t]]
  /\ Return(t)
  /\ UNCHANGED <<mode, fired, detached, outcome,
                 envelope, exec, icall, ghosts>>

\* The terminal frame of a background turn; its meta takes the status.
AppendTerminal(t) ==
  /\ pc[t] = "append"
  /\ bgStatus' = [bgStatus EXCEPT ![t] =
       IF outcome[t] \in Terminal THEN outcome[t] ELSE "failed"]
  /\ Return(t)
  /\ UNCHANGED <<mode, fired, detached, outcome,
                 envelope, exec, icall, ghosts>>

\* The pod that runs the turn dies.
Crash(t) ==
  /\ InFlight(t)
  /\ Return(t)
  /\ outcome' = [outcome EXCEPT ![t] = "crashed"]
  /\ UNCHANGED <<mode, fired, detached, bgStatus,
                 envelope, exec, icall, ghosts>>

-----------------------------------------------------------------------------
(* POST /conversation/interrupt: a read, a decision, and a write.          *)

InterruptRead(i) ==
  /\ icall[i].at = "idle"
  /\ icall' = [icall EXCEPT ![i] =
       IF exec.status = "running" THEN [at |-> "write", req |-> exec.req]
       ELSE [at |-> "done", req |-> NoTurn]]
  /\ UNCHANGED <<turnVars, envelope, exec, ghosts>>

InterruptWrite(i) ==
  /\ icall[i].at = "write"
  /\ exec' = Exec("stopped", icall[i].req)
  /\ revoked' = [t \in Turns |-> IF t = icall[i].req /\ Pending(t) THEN "stop"
                                 ELSE Revoke({icall[i].req}, "stray")[t]]
  /\ stopped' = stopped \cup {t \in Turns : t = icall[i].req /\ Pending(t)}
  /\ icall' = [icall EXCEPT ![i].at = "done"]
  /\ UNCHANGED <<turnVars, envelope, saved, before>>

-----------------------------------------------------------------------------
(* The steps the server takes by itself; whether and when the agent goes   *)
(* on is up to models and tools.                                           *)
ServerStep(t) ==
  \/ Load(t) \/ PersistInput(t) \/ MarkRunning(t) \/ EnterBackground(t)
  \/ Poll(t) \/ InterruptWins(t) \/ StreamEnds(t)
  \/ CheckStatus(t) \/ SaveReply(t) \/ MarkCompleted(t)
  \/ SavePartial(t) \/ MarkInterrupted(t) \/ AppendTerminal(t)

AgentStep(t) ==
  \/ AgentReturns(t) \/ AgentRaises(t)
  \/ ChunkInterrupted(t) \/ ChunkFailed(t) \/ ChunkSwitches(t) \/ ChunkContinues(t)

Next ==
  \/ \E t \in Turns : Submit(t) \/ ServerStep(t) \/ AgentStep(t) \/ Crash(t)
  \/ \E i \in Interrupts : InterruptRead(i) \/ InterruptWrite(i)

Spec == Init /\ [][Next]_vars

\* The event loop runs every ready coroutine; agents may hang.
FairSpec == Spec /\ \A t \in Turns : WF_vars(ServerStep(t))

\* Agents neither hang nor answer for ever (assumed by a property only).
AgentsAnswer == \A t \in Turns : WF_vars(AgentStep(t))

-----------------------------------------------------------------------------
(* Properties.                                                             *)

\* The turns an interrupt call has read as running.
Aimed == {icall[i].req : i \in Interrupts}

Committed(t) == pc[t] \in {"save", "complete"} \/ outcome[t] = "completed"

\* Every variable has its type.
TypeOK ==
  /\ pc       \in [Turns -> Positions]
  /\ mode     \in [Turns -> Modes \cup {"none"}]
  /\ hist     \in [Turns -> History]
  /\ fired    \in [Turns -> BOOLEAN]
  /\ detached \in [Turns -> BOOLEAN]
  /\ outcome  \in [Turns -> Outcomes]
  /\ bgStatus \in [Turns -> Terminal \cup {"none", "running"}]
  /\ envelope \in History
  /\ exec     \in [status : {"none", "running", "completed", "stopped"},
                   req : Turns \cup {NoTurn}]
  /\ icall    \in [Interrupts -> [at : {"idle", "write", "done"},
                                  req : Turns \cup {NoTurn}]]
  /\ revoked  \in [Turns -> {"no", "turn", "stop", "stray"}]
  /\ stopped \subseteq Turns
  /\ saved \subseteq Turns
  /\ before   \in [Turns -> SUBSET Turns]

\* A turn from which a newer turn, another turn's finalization or an
\* interrupt has taken exec_status since it last marked itself running never
\* passes _check_exec_status, however the handlers interleave: its late
\* reply cannot overwrite what superseded it.
RevokedNeverCommits == \A t \in Turns : revoked[t] # "no" => ~Committed(t)

\* Once the interrupt endpoint has written "stopped" for a turn whose agent
\* is still running, the turn does not end as completed.  Only a stream that
\* marks itself running again at the switch to the background may.
InterruptHonoured == \A t \in stopped : mode[t] = "auto" \/ ~Committed(t)

\* The poller of a turn fires only when an interrupt call had found that
\* very turn running: stopping one turn never cancels the agent of another.
InterruptAimed == \A t \in Turns : fired[t] => t \in Aimed

\* exec_status says "running" only for a turn that is in flight, or one
\* whose agent raised or whose pod died before it could finalize.
RunningNamesLiveTurn ==
  exec.status = "running" =>
    \/ InFlight(exec.req)
    \/ outcome[exec.req] \in {"raised", "crashed"}

\* No turn's message appears twice in the envelope, nothing of a turn comes
\* before its user message, and a tool call without its result is in it
\* only because its turn switched to the background between the two.
EnvelopeWellFormed ==
  /\ \A i, j \in DOMAIN envelope :
       envelope[i] = envelope[j] /\ envelope[i].kind \in {"user", "reply"} => i = j
  /\ \A i \in DOMAIN envelope :
       /\ \E j \in 1..i : envelope[j] = Msg("user", envelope[i].turn)
       /\ Dangling(envelope, i) => detached[envelope[i].turn]

\* The reply of a turn reported as completed is in the session envelope from
\* then on, and so in the history of every later turn (when clients send
\* one turn at a time).
AcknowledgedKept ==
  \A t \in Turns : pc[t] = "done" /\ outcome[t] = "completed"
                     => Holds(envelope, Msg("reply", t))

\* A poller of /message that reads "completed" finds the reply in the
\* envelope: the envelope is written before the terminal frame (when clients
\* send one turn at a time).
TerminalAfterPersist ==
  \A t \in Turns : bgStatus[t] = "completed"
                     => Holds(envelope, Msg("reply", t))

\* "a subsequent request always sees this user message even if the current
\* execution is stopped before finalization": a turn that loads the session
\* after another has persisted its input runs on a history with that input.
SubsequentSeesInput ==
  \A t \in Turns : Len(hist[t]) > 0 => before[t] \subseteq Users(hist[t])

\* No step of any handler removes a user message from the envelope (when
\* clients send one turn at a time).
InputsNeverRemoved == [][Users(envelope) \subseteq Users(envelope')]_vars

\* A blocking turn that is stopped ends although its agent hangs, unless
\* something else overwrites exec_status first.
StopEndsBlockingTurn ==
  \A t \in Turns :
    (pc[t] = "run" /\ mode[t] = "sync" /\ exec = Exec("stopped", t))
      ~> (pc[t] = "done" \/ exec # Exec("stopped", t))

\* If agents answer, whoever polls /message for a turn that went to the
\* background sees it end, however its agent ends and whoever has taken
\* exec_status meanwhile, unless its pod dies.
PollerSeesEnd ==
  AgentsAnswer =>
    \A t \in Turns :
      (bgStatus[t] = "running") ~> (bgStatus[t] \in Terminal \/ outcome[t] = "crashed")
=============================================================================
