----------------------------- MODULE ReplyStream -----------------------------
(***************************************************************************)
(* A turn from the bytes of its models to the answer to its client: a      *)
(* sequence of model calls, to the LLM router or to a remote agent, whose  *)
(* server-sent events are cut out of the network's chunks, turned into     *)
(* frames and gathered into the messages of the turn.                      *)
(*                                                                         *)
(* Delivery "stream" writes the frames to the client and forwards those of *)
(* a remote as they are; delivery "background" numbers all of them itself  *)
(* and appends them to the buffer that /message serves; delivery "json"    *)
(* does not stream: each call has one answer, and so has the turn.  One    *)
(* network chunk is one step: the loop awaits nothing else that the turn   *)
(* shares, and looks at the interrupt event when a chunk arrives.          *)
(*                                                                         *)
(* A call is made by a task or by a sub-agent of a deep agent, whose       *)
(* messages stay out of the turn's state.  An event is named by its call   *)
(* and its position in the stream of the call; its line is cut in two      *)
(* halves, and two newlines follow it.                                     *)
(***************************************************************************)
EXTENDS ListOps

CONSTANTS
  Calls,          \* the most model calls of a turn (recursion_limit)
  LocalStreams,   \* what the LLM router may send: sequences of event kinds
  RemoteStreams,  \* what a remote agent may send
  Handoffs,       \* the deliveries for which a remote hands its run off
  LoneNewlines,   \* may a chunk consist of the second newline of an event?
  MaxRetries      \* attempts at a call that does not stream (max_retries)

LocalKinds  == {"text", "tool", "usage", "error"}
RemoteKinds == {"start", "text", "block", "other", "completed", "failed", "background"}

ASSUME ReplyStreamAssumption ==
  /\ Calls \in Nat \ {0}
  /\ LocalStreams \subseteq Seq(LocalKinds) /\ RemoteStreams \subseteq Seq(RemoteKinds)
  /\ Handoffs \subseteq {"stream", "background"} /\ LoneNewlines \in BOOLEAN
  /\ MaxRetries \in Nat \ {0}
  /\ \A s \in RemoteStreams : s = <<>> \/ s[1] = "start"  \* TypedStreamSequencer of the remote

VARIABLES
  at,         \* where the turn is
  delivery,
  calls,      \* the model calls so far: to whom, and what it sends
  read,       \* bytes of the current call that have arrived
  buffer,     \* the line that has not ended
  got,        \* events of the current call that became chunks
  tries,      \* attempts at the current call that were answered by an error
  status,     \* StreamSignals.status
  messages,   \* the message that each call has come to
  transfer,   \* a deep agent's call whose transfer its loop has gone on after, or 0
  dropped,    \* the calls whose messages the deep agent has removed
  wire,       \* the frames written
  next,       \* TypedStreamSequencer._seq
  stop,       \* the interrupt: "no", "asked" (exec_status), "seen" (the event)
  history     \* the messages of the turn, as finalized

vars == <<at, delivery, calls, read, buffer, got, tries, status, messages, transfer, dropped,
          wire, next, stop, history>>
deep == <<transfer, dropped>>

-----------------------------------------------------------------------------
(* Bytes and lines.                                                        *)

call   == Len(calls)
remote == calls[call].to = "remote"
script == calls[call].sends

NL == <<0, 0>>
Byte(k) == LET part == ((k - 1) % 4) + 1 IN IF part > 2 THEN NL ELSE <<(k - 1) \div 4 + 1, part>>

\* str.splitlines: the text after the last newline is a line only if there is some.
Scan(acc, b) == IF b = NL THEN [lines |-> Append(acc.lines, acc.rest), rest |-> <<>>]
                ELSE [acc EXCEPT !.rest = Append(@, b)]

Lines(text) ==
  LET scanned[k \in 0..Len(text)] ==
        IF k = 0 THEN [lines |-> <<>>, rest |-> <<>>] ELSE Scan(scanned[k - 1], text[k])
      all == scanned[Len(text)]
  IN IF all.rest = <<>> THEN all.lines ELSE Append(all.lines, all.rest)

\* The event a line stands for; what is not "data: " with JSON is none.
Parsed(line) == {i \in DOMAIN script : line = <<<<i, 1>>, <<i, 2>>>>}

-----------------------------------------------------------------------------
(* From an event to the client.  A reading is what one chunk has come to.  *)

Frame(type, seq, n) == [type |-> type, seq |-> seq, call |-> call, n |-> n]

\* _take_sequence
Number(rd, type, n) ==
  [rd EXCEPT !.wire = Append(@, Frame(type, rd.next, n)), !.next = @ + 1]

\* Faulty variant: the remote's numbers are not looked at.
PassUncounted(rd, n) == [rd EXCEPT !.wire = Append(@, Frame("passthrough", n - 1, n))]

\* consume_passthrough_sse: the frame goes out with the number the remote gave it.
Pass(rd, n) ==
  [rd EXCEPT !.wire = Append(@, Frame("passthrough", n - 1, n)),
             !.next = IF n > @ THEN n ELSE @]

\* _process_message_chunk: chunks without text or blocks make no frame.
Deliver(rd, n) ==
  IF remote /\ delivery = "stream" THEN Pass(rd, n)
  ELSE IF script[n] \in {"text", "block"} THEN Number(rd, "content.delta", n)
  ELSE rd

Yield(rd, n) == [rd EXCEPT !.got = Append(@, n)]
Return(rd, s) == [rd EXCEPT !.status = s]

\* SprinklrChatModel._astream
LocalEvent(rd, n) ==
  CASE script[n] = "error" -> Return(rd, "failed")
    [] script[n] = "usage" -> Yield(rd, n)
    [] OTHER               -> Deliver(Yield(rd, n), n)

\* RemoteChatModel._astream
RemoteEvent(rd, n) ==
  CASE script[n] = "start"      -> rd
    [] script[n] = "completed"  -> Yield(rd, n)
    [] script[n] = "failed"     -> Return(rd, "failed")
    [] script[n] = "background" -> Return(Yield(rd, n), "background")
    [] OTHER                    -> Deliver(Yield(rd, n), n)

\* The rest of the lines is not looked at once the generator has returned.
OneLine(rd, line) ==
  IF rd.status # "none" \/ Parsed(line) = {} THEN rd
  ELSE LET n == CHOOSE i \in Parsed(line) : TRUE
       IN IF remote THEN RemoteEvent(rd, n) ELSE LocalEvent(rd, n)

EachLine(start, lines) ==
  LET rd[k \in 0..Len(lines)] == IF k = 0 THEN start ELSE OneLine(rd[k - 1], lines[k])
  IN rd[Len(lines)]

-----------------------------------------------------------------------------
Init ==
  /\ at = "opening" /\ delivery \in {"stream", "background", "json"}
  /\ calls = <<>> /\ read = 0 /\ buffer = <<>> /\ got = <<>> /\ tries = 0 /\ status = "none"
  /\ messages = <<>> /\ transfer = 0 /\ dropped = {}
  /\ wire = <<>> /\ next = 0 /\ stop = "no" /\ history = <<>>

\* A stream opens with stream.start, and mode.background in the background.
Open ==
  /\ at = "opening"
  /\ at' = "agent"
  /\ LET types == CASE delivery = "stream"     -> <<"stream.start">>
                    [] delivery = "background" -> <<"stream.start", "mode.background">>
                    [] OTHER                   -> <<>>
     IN /\ wire' = [i \in DOMAIN types |-> [type |-> types[i], seq |-> i - 1, call |-> 0, n |-> 0]]
        /\ next' = Len(types)
  /\ UNCHANGED <<deep, delivery, calls, read, buffer, got, tries, status, messages, stop, history>>

\* /conversation/interrupt writes "stopped", and later the poller reads it.
Interrupt ==
  /\ at # "closed"
  /\ \/ stop = "no" /\ stop' = "asked"
     \/ stop = "asked" /\ stop' = "seen"
  /\ UNCHANGED <<deep, at, delivery, calls, read, buffer, got, tries, status, messages, wire, next, history>>

\* _agenerate_with_cache resets the signals and calls the model.
Call(to, streams) ==
  /\ at = "agent" /\ call < Calls
  /\ \E s \in streams :
       /\ "background" \in Range(s) => delivery \in Handoffs
       /\ calls' = Append(calls, [to |-> to, sends |-> s])
  /\ at' = IF delivery = "json" THEN "waiting" ELSE "reading"
  /\ read' = 0 /\ buffer' = <<>> /\ got' = <<>> /\ tries' = 0 /\ status' = "none"
  /\ UNCHANGED <<deep, delivery, messages, wire, next, stop, history>>

CallLocal  == Call("local", LocalStreams)

\* Between a tool call of a deep agent and its next call a sub-agent may call.
BySubAgent(c) == c # 0 /\ calls[c].to = "sub"
CallSub ==
  /\ at = "agent" /\ call # 0
  /\ BySubAgent(call) \/ Last(messages).tool
  /\ Call("sub", LocalStreams)

CallRemote == transfer = 0 /\ ~BySubAgent(call) /\ Call("remote", RemoteStreams)

\* A chunk arrives: everything up to byte n.
Read(n) ==
  /\ at = "reading" /\ status = "none"
  /\ n \in (read + 1)..(4 * Len(script))
  /\ LoneNewlines \/ ~(n = read + 1 /\ n % 4 = 0)
  /\ read' = n
  /\ IF stop = "seen"
     THEN /\ status' = "interrupted"
          /\ UNCHANGED <<buffer, got, wire, next>>
     ELSE LET lines == Lines(buffer \o [j \in 1..(n - read) |-> Byte(read + j)])
              rd == EachLine([got |-> got, wire |-> wire, next |-> next, status |-> "none"],
                             Front(lines))
          IN /\ buffer' = Last(lines)
             /\ got' = rd.got /\ wire' = rd.wire /\ next' = rd.next /\ status' = rd.status
  /\ UNCHANGED <<deep, at, delivery, calls, tries, messages, stop, history>>

\* The connection fails: before the stream or in the middle of it.  Faulty
\* variant: the exception ends the stream and is not reported.
DropsSilently ==
  /\ at = "reading" /\ status = "none" /\ read < 4 * Len(script)
  /\ read' = 4 * Len(script)
  /\ UNCHANGED <<deep, at, delivery, calls, buffer, got, tries, status, messages, wire, next, stop, history>>

Drops ==
  /\ at = "reading" /\ status = "none" /\ read < 4 * Len(script)
  /\ status' = "failed"
  /\ UNCHANGED <<deep, at, delivery, calls, read, buffer, got, tries, messages, wire, next, stop, history>>

\* The generator has returned, or the stream is at its end.
Generated == at = "reading" /\ (status # "none" \/ read = 4 * Len(script))

\* The events of a call that carry text.
TextEvents(c) == {n \in DOMAIN calls[c].sends : calls[c].sends[n] = "text"}

\* Faulty variant: every block counts as text.
TextOfBlocks(chunks) == [i \in DOMAIN chunks |-> <<call, chunks[i]>>]

\* The text of the merged chunks.
TextOf(chunks) ==
  LET texts == Picked(chunks, TextEvents(call))
  IN [i \in DOMAIN texts |-> <<call, texts[i]>>]

\* The chunks are merged to a message; when the stream has been cut short its
\* tool calls are stripped.  LangChain raises when there is no chunk, which
\* only SprinklrChatModel expects.
Merge ==
  /\ Generated
  /\ IF got = <<>> /\ (remote \/ status = "none")
     THEN at' = "raised" /\ UNCHANGED messages
     ELSE /\ at' = "values"
          /\ messages' = Append(messages,
               [text |-> TextOf(got), status |-> status,
                tool |-> status = "none" /\ \E i \in DOMAIN got : script[got[i]] = "tool"])
  /\ UNCHANGED <<deep, delivery, calls, read, buffer, got, tries, status, wire, next, stop, history>>

-----------------------------------------------------------------------------
(* Calls that do not stream.                                               *)

All    == [n \in DOMAIN script |-> n]
Errs   == {"error", "failed"} \cap Range(script) # {}
Answer(chunks, s) ==
  /\ at' = "values" /\ status' = s
  /\ messages' = Append(messages, [text |-> TextOf(chunks), status |-> s,
                    tool |-> s = "none" /\ \E i \in DOMAIN chunks : script[chunks[i]] = "tool"])

Answered ==
  /\ at = "waiting" /\ ~Errs
  /\ Answer(All, "none")
  /\ UNCHANGED <<deep, delivery, calls, read, buffer, got, tries, wire, next, stop, history>>

\* SprinklrChatModel._agenerate asks again, and again may get any answer.
Retry ==
  /\ at = "waiting" /\ Errs /\ ~remote /\ tries + 1 < MaxRetries
  /\ tries' = tries + 1
  /\ \E s \in LocalStreams : calls' = [calls EXCEPT ![call].sends = s]
  /\ UNCHANGED <<deep, at, delivery, read, buffer, got, status, messages, wire, next, stop, history>>

\* The answer is the error: after the last attempt an empty message that
\* carries it, of a remote its message with the error in the envelope.
AnsweredError ==
  /\ at = "waiting" /\ Errs /\ (remote \/ tries + 1 = MaxRetries)
  /\ Answer(IF remote THEN All ELSE <<>>, "failed")
  /\ UNCHANGED <<deep, delivery, calls, read, buffer, got, tries, wire, next, stop, history>>

\* The HTTP request fails.
Unanswered ==
  /\ at = "waiting"
  /\ at' = "raised"
  /\ UNCHANGED <<deep, delivery, calls, read, buffer, got, tries, status, messages, wire, next, stop, history>>

-----------------------------------------------------------------------------
(* The handler and the agent.                                              *)

Terminal(type) == Frame(type, next, 0)

Close(type) ==
  /\ at' = "closed"
  /\ wire' = Append(wire, Terminal(type)) /\ next' = next + 1
  /\ UNCHANGED <<deep, delivery, calls, read, buffer, got, tries, status, messages, stop>>

\* What the state has of the turn: not the messages of sub-agents, nor those
\* that a deep agent has removed.  A sub-agent's own state has just its own, and
\* is what the stream of values shows while it runs.
Staying == {c \in DOMAIN calls : c \notin dropped /\ calls[c].to # "sub"}
Inside  == {c \in DOMAIN calls : \A d \in c..call : calls[d].to = "sub"}
Own(S)  == Picked([i \in DOMAIN messages |-> i], S)
MessagesOf(S) == LET own == Own(S) IN [i \in DOMAIN own |-> messages[own[i]]]
State   == MessagesOf(Staying)
Value   == IF BySubAgent(call) THEN MessagesOf(Inside) ELSE State

\* The handler gets the state with the new message and breaks off, or the
\* agent goes on: after a tool call it does, otherwise it may.
Interrupted ==
  /\ at = "values" /\ stop = "seen" /\ delivery # "json"
  /\ Close("stream.interrupted") /\ history' = Value

Failed ==
  /\ at = "values" /\ stop # "seen" /\ delivery # "json" /\ Last(messages).status = "failed"
  /\ Close("stream.failed") /\ history' = Value

\* _invoke_with_interrupt cancels the agent wherever it is; its messages are lost.
Cancel ==
  /\ delivery = "json" /\ stop = "seen" /\ at \in {"agent", "waiting", "values", "ended"}
  /\ Close("STOPPED") /\ UNCHANGED history

Passes == at = "values" /\ stop # "seen" /\ (delivery = "json" \/ Last(messages).status # "failed")
Onward == at' = IF call < Calls THEN "agent" ELSE "raised"

\* A tool call of a deep agent may be a transfer, after which the loop goes on.
\* A remote's handoff does not stop the agent: workflow edges go on.
GoesOn ==
  /\ Passes
  /\ \/ Onward /\ BySubAgent(call) /\ UNCHANGED transfer
     \/ Onward /\ ~BySubAgent(call) /\ Last(messages).tool /\ transfer' \in {0, call}
     \/ /\ ~BySubAgent(call) /\ ~Last(messages).tool /\ transfer = 0
        /\ Onward \/ at' = "ended"
        /\ UNCHANGED transfer
  /\ UNCHANGED <<dropped, delivery, calls, read, buffer, got, tries, status, messages, wire, next,
                 stop, history>>

\* _detect_transfer and _truncate_after_transfer, when the loop has ended after
\* all: what came after the transfer is removed, and its destination is next.
Discard ==
  /\ Passes
  /\ transfer # 0 /\ ~BySubAgent(call) /\ ~Last(messages).tool
  /\ dropped' = dropped \cup {c \in DOMAIN calls : c > transfer} /\ transfer' = 0
  /\ Onward
  /\ UNCHANGED <<delivery, calls, read, buffer, got, tries, status, messages, wire, next, stop, history>>

\* Whatever the agent raises ends the turn; in the background nothing is saved.
\* A RuntimeError, GraphRecursionError among them, leaves a live stream without
\* a terminal frame.
Raised ==
  /\ at = "raised"
  /\ \/ /\ IF stop = "seen" /\ delivery = "stream"
           THEN Close("stream.interrupted") /\ history' = Value
           ELSE Close("stream.failed") /\ UNCHANGED history
     \/ /\ delivery = "stream" /\ at' = "closed"
        /\ UNCHANGED <<deep, delivery, calls, read, buffer, got, tries, status, messages, wire,
                       next, stop, history>>

\* The remote has asked to be polled: only the live stream looks.
HandOff ==
  /\ at = "ended" /\ delivery = "stream" /\ status = "background"
  /\ Close("mode.background") /\ history' = State

\* fold_assistant_text_into_state: the text of the whole turn goes into its
\* last message if that has none.
TextFrames == Picked(wire, {f \in Range(wire) : f.n # 0 /\ f.n \in TextEvents(f.call)})
Streamed == [i \in DOMAIN TextFrames |-> <<TextFrames[i].call, TextFrames[i].n>>]

Folded ==
  IF delivery = "background" /\ Last(State).text = <<>>
  THEN [State EXCEPT ![Len(State)].text = Streamed] ELSE State

\* _build_terminal_frame: a turn that has been stopped meanwhile is suppressed.
Finalize ==
  /\ at = "ended" /\ delivery # "json" /\ ~(delivery = "stream" /\ status = "background")
  /\ IF stop = "no"
     THEN Close("stream.completed") /\ history' = Folded
     ELSE Close("stream.failed") /\ UNCHANGED history

\* collapse_errors_and_usage
AnyError == \E i \in DOMAIN State : State[i].status = "failed"

\* state_to_response: the texts of the turn's messages, FAILED with an error.
Respond ==
  /\ at = "ended" /\ delivery = "json" /\ stop # "seen"
  /\ IF stop = "no"
     THEN Close(IF AnyError THEN "FAILED" ELSE "COMPLETED") /\ history' = State
     ELSE Close("STOPPED") /\ UNCHANGED history

Next ==
  \/ Open \/ Interrupt \/ CallLocal \/ CallSub \/ CallRemote
  \/ \E n \in 1..(IF calls = <<>> THEN 0 ELSE 4 * Len(script)) : Read(n)
  \/ Drops \/ Merge \/ Answered \/ Retry \/ AnsweredError \/ Unanswered
  \/ Interrupted \/ Failed \/ Cancel \/ GoesOn \/ Discard \/ Raised \/ HandOff \/ Finalize \/ Respond

Spec == Init /\ [][Next]_vars
-----------------------------------------------------------------------------
(* Properties.                                                             *)

\* The texts a call sends, and those of the whole turn.
TextsOf(c) ==
  LET texts == Picked([n \in DOMAIN calls[c].sends |-> n], TextEvents(c))
  IN [i \in DOMAIN texts |-> <<c, texts[i]>>]

Sent == FlattenSeq([c \in DOMAIN calls |-> TextsOf(c)])

\* Of those, the ones of the calls whose messages stay in the state.
SentToState == LET own == Own(Staying) IN FlattenSeq([i \in DOMAIN own |-> TextsOf(own[i])])

TextIn(ms) == FlattenSeq([i \in DOMAIN ms |-> ms[i].text])

Completed == wire # <<>> /\ Last(wire).type \in {"stream.completed", "COMPLETED"}

\* Every variable has its type; the text of a message is text of a model.
TypeOK ==
  /\ at \in {"opening", "agent", "reading", "waiting", "values", "raised", "ended", "closed"}
  /\ \A c \in DOMAIN calls :
       \/ calls[c].to \in {"local", "sub"} /\ calls[c].sends \in LocalStreams
       \/ calls[c].to = "remote" /\ calls[c].sends \in RemoteStreams
  /\ call <= Calls /\ tries \in 0..(MaxRetries - 1) /\ read \in Nat /\ next \in Nat
  /\ status \in {"none", "failed", "interrupted", "background"}
  /\ stop \in {"no", "asked", "seen"}
  /\ \A i \in DOMAIN got : got[i] \in DOMAIN script
  /\ transfer \in 0..call /\ dropped \subseteq DOMAIN calls
  /\ Range(TextIn(messages)) \cup Range(TextIn(history)) \subseteq Range(Sent)
  /\ \A i \in DOMAIN wire : wire[i].seq < next \/ wire[i].type = "passthrough"

\* A turn that is reported as completed has lost nothing on the way: what its
\* models sent is what the client got, in order and once, and what its tasks'
\* models sent is what the history keeps, but for what a deep agent has removed.
\* So a part of a reply is never passed off as the whole, where its streams are
\* interrupted or broken off.  Of three turns this is false, and they are left
\* out: one that a remote has handed off and the handler completes all the same
\* (interrupt.py:39), one whose chunks may be lone newlines (LoneNewlines), and
\* for the history one that the background folds (background_stream.py:48: the
\* text may then be there twice).
CompletedReplyWhole ==
  Completed /\ (\A i \in DOMAIN messages : messages[i].status # "background") =>
    /\ \A i \in DOMAIN messages : i \in Staying \/ delivery # "json" => messages[i].status = "none"
    /\ delivery # "json" => Streamed = Sent
    /\ \/ delivery = "background" /\ Last(State).text = <<>>
       \/ TextIn(history) = SentToState

\* A frame that the handler numbers comes after every frame before it; so
\* does a forwarded one, unless the turn has had another call before: in the
\* background the cursor of /message may rely on it.
SequencesIncrease ==
  \A j \in DOMAIN wire : \A i \in 1..(j - 1) :
    \/ wire[i].seq < wire[j].seq
    \/ wire[j].type = "passthrough" /\ wire[j].call > 1 /\ wire[i].call < wire[j].call
=============================================================================
