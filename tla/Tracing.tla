------------------------------- MODULE Tracing -------------------------------
(***************************************************************************)
(* ElasticsearchCallbackHandler: the trace of one request.  LangChain      *)
(* calls the handler at the start and the end of every run (chain, tool,   *)
(* LLM call); the handler keeps an entry for each run in flight, and makes *)
(* a document of each span when it ends, with the nearest ancestor that is *)
(* a span too and the LLM calls made below.  The documents go to the queue *)
(* of TelemetryQueue, next to the I/O document of the HTTP request.        *)
(*                                                                         *)
(* The callbacks run on the server's event loop, one at a time; a run may  *)
(* end after the run it was started from: when one of several tools raises *)
(* (a transfer is raised as ParentCommand), the others go on.              *)
(* Runs are numbered in the order in which they start; run 1 is the agent. *)
(***************************************************************************)
EXTENDS TelemetryQueue, FiniteSets

CONSTANTS
  N,           \* how many runs there may be
  NoEntry, NoSpan

Runs    == 1..N
LlmFlow == 0       \* the document of the request's LLM calls
IoDoc   == N + 1   \* the document of its Mongo and Redis commands

ASSUME TracingAssumption == N \in Nat \ {0} /\ 0..N + 1 \subseteq Documents

Kinds == {"chain", "tool", "llm"}

\* Names of chains: "internal" stands for ENTRY, tools and chatbot; a task
\* within a task is a wrapper.
ChainNames == {"agent", "task", "internal", "unknown"}

Names   == ChainNames \cup {"tool", "llm"}
Entries == [kind : Kinds, name : Names, parent : 0..N]
\* A code other than 200, whichever it is, counts as 500.
Spans   == [parent : 0..N, depth : 0..N, calls : 0..N, code : {200, 500}]

ASSUME NoEntryAssumption == NoEntry \notin Entries /\ NoSpan \notin Spans \cup Nat

VARIABLES
  tree,        \* LangChain's runs: kind, name and parent (0: none), and state
  entry,       \* _run_names, _run_types, _parent_map
  tokens,      \* _span_tokens: LLM calls below a run
  calls,       \* _llm_call_count
  span,        \* history: the document made of a run
  flow,        \* history: the calls in the document of the LLM calls
  late,        \* history: runs that ended after an ancestor
  raised,      \* history: runs that ended by an error callback
  io           \* the request's I/O document has been made

traceVars == <<tree, entry, tokens, calls, span, flow, late, raised, io>>
vars == <<traceVars, queueVars>>

Running(r) == tree[r].state = "running"

\* The runs above a run, from which it was started.
Above[r \in 0..N] ==
  IF r = 0 \/ tree[r].parent = 0 THEN {} ELSE {tree[r].parent} \cup Above[tree[r].parent]
-----------------------------------------------------------------------------
(* The walks up the entries of the runs in flight.                         *)

\* run_names.get(r, "")
NameOf(r) == IF r = 0 \/ entry[r] = NoEntry THEN "" ELSE entry[r].name

ParentOf(r) == IF entry[r] = NoEntry THEN 0 ELSE entry[r].parent

\* Faulty variant: a chain is not compared with the chain it is wrapped in.
MeaningfulAny(r) ==
  /\ entry[r] # NoEntry
  /\ entry[r].kind = "tool" \/ entry[r].name \notin {"internal", "unknown"}

\* A tool, or a chain that is neither internal nor a wrapper.
Meaningful(r) ==
  /\ entry[r] # NoEntry
  /\ \/ entry[r].kind = "tool"
     \/ entry[r].name \notin {"internal", "unknown"} /\ entry[r].name # NameOf(entry[r].parent)

\* _get_parent_span_id
NearestSpan[q \in 0..N] == IF q = 0 \/ Meaningful(q) THEN q ELSE NearestSpan[ParentOf(q)]

\* _get_meaningful_depth
MeaningfulDepth[q \in 0..N] ==
  IF q = 0 THEN 0 ELSE MeaningfulDepth[ParentOf(q)] + (IF Meaningful(q) THEN 1 ELSE 0)

\* Faulty variant: the call is counted for the run it was made in.
AccumulateToParent(r) == [tokens EXCEPT ![entry[r].parent] = @ + 1]

\* _accumulate_tokens_to_ancestors, up to the first that has no entry.
Ancestors[q \in 0..N] == IF q = 0 THEN {} ELSE {q} \cup Ancestors[ParentOf(q)]

AccumulateToAncestors(r) ==
  [q \in Runs |-> IF q \in Ancestors[entry[r].parent] THEN tokens[q] + 1 ELSE tokens[q]]
-----------------------------------------------------------------------------
Init ==
  /\ QueueInit
  /\ tree = [r \in Runs |-> [kind |-> "chain", name |-> "agent", parent |-> 0, state |-> "new"]]
  /\ entry = [r \in Runs |-> NoEntry]
  /\ tokens = [r \in Runs |-> 0]
  /\ calls = 0 /\ flow = NoSpan /\ late = {} /\ raised = {} /\ io = FALSE
  /\ span = [r \in Runs |-> NoSpan]

\* The event loop runs one callback at a time, and none after it has ended.
Idle == ~shutdown /\ tree[1].state # "flushing"

Started(r, kind, name, p) ==
  /\ tree' = [tree EXCEPT ![r] = [kind |-> kind, name |-> name, parent |-> p, state |-> "running"]]
  /\ entry' = [entry EXCEPT ![r] = [kind |-> kind, name |-> name, parent |-> p]]
  /\ UNCHANGED <<tokens, span, flow, late, raised, io, queueVars>>

\* Runs start in order, each from a run in flight that may have children.
MayStart(r, p) ==
  /\ Idle /\ tree[r].state = "new"
  /\ \A q \in 1..r - 1 : tree[q].state # "new"
  /\ IF r = 1 THEN p = 0 ELSE p \in Runs /\ Running(p) /\ tree[p].kind # "llm"

OnChainStart(r, name, p) ==
  /\ MayStart(r, p) /\ (r = 1 <=> name = "agent")
  /\ Started(r, "chain", name, p)
  /\ calls' = IF p = 0 THEN 0 ELSE calls

OnToolStart(r, p) == p # 0 /\ MayStart(r, p) /\ Started(r, "tool", "tool", p) /\ UNCHANGED calls

OnLlmStart(r, p)  == p # 0 /\ MayStart(r, p) /\ Started(r, "llm", "llm", p) /\ UNCHANGED calls

\* _cleanup_run forgets the run.
Ended(r, how) ==
  /\ tree' = [tree EXCEPT ![r].state = how]
  /\ late' = IF \A p \in Above[r] : Running(p) THEN late ELSE late \cup {r}
  /\ UNCHANGED io

Cleanup(r) == entry' = [entry EXCEPT ![r] = NoEntry]

NoDocument == UNCHANGED <<span, queueVars>>

\* _create_span_doc and _buffer_doc, with the parent that LangChain names.
WriteSpan(r, n, code) ==
  /\ span' = [span EXCEPT ![r] = [parent |-> NearestSpan[tree[r].parent],
                depth |-> MeaningfulDepth[tree[r].parent], calls |-> n, code |-> code]]
  /\ Enqueue(r)

\* Internal nodes, wrappers and unnamed chains are no spans.
Skipped(r) ==
  \/ entry[r].name = "internal"
  \/ entry[r].name = NameOf(tree[r].parent)
  \/ entry[r].name = "unknown" /\ tree[r].parent # 0

\* on_chain_error asks for the depth among spans.
SkippedOnError(r) ==
  \/ entry[r].name \in {"internal"} \cup {NameOf(tree[r].parent)}
  \/ entry[r].name = "unknown" /\ MeaningfulDepth[tree[r].parent] > 0

\* A run returns when the runs it started have.
Returns(r, kind) ==
  /\ Idle /\ Running(r) /\ tree[r].kind = kind
  /\ \A q \in Runs : Running(q) => tree[q].parent # r
  /\ UNCHANGED raised

Fails(r, kind) == Idle /\ Running(r) /\ tree[r].kind = kind

\* By an error, or by what looks like one to LangChain.
Raises(r, kind)    == Fails(r, kind) /\ raised' = raised \cup {r}
Transfers(r, kind) == Fails(r, kind) /\ UNCHANGED raised

\* At the agent's end the document of the LLM calls follows its span.
ChainEnded(r) ==
  /\ IF tree[r].parent = 0 THEN Ended(r, "flushing") /\ UNCHANGED <<entry, tokens>>
     ELSE Ended(r, "ended") /\ Cleanup(r) /\ tokens' = [tokens EXCEPT ![r] = 0]
  /\ UNCHANGED <<calls, flow>>

OnChainEnd(r) ==
  /\ Returns(r, "chain")
  /\ IF Skipped(r) THEN NoDocument ELSE WriteSpan(r, tokens[r], 200)
  /\ ChainEnded(r)

OnChainError(r) ==
  /\ Raises(r, "chain")
  /\ IF SkippedOnError(r) THEN NoDocument ELSE WriteSpan(r, 0, 500)
  /\ ChainEnded(r)

Forget(r, how) ==
  /\ Ended(r, how) /\ Cleanup(r) /\ tokens' = [tokens EXCEPT ![r] = 0]
  /\ UNCHANGED <<calls, flow>>

\* ParentCommand ends a chain like a return, but for the LLM calls' document.
OnChainTransfer(r) ==
  /\ Transfers(r, "chain")
  /\ IF Skipped(r) THEN NoDocument ELSE WriteSpan(r, tokens[r], 200)
  /\ Forget(r, "transferred")

\* _write_llm_call_flow, always after an error.
WriteFlow ==
  /\ ~shutdown /\ tree[1].state = "flushing"
  /\ IF calls > 0 \/ 1 \in raised
     THEN flow' = calls /\ Enqueue(LlmFlow)
     ELSE UNCHANGED <<flow, queueVars>>
  /\ tree' = [tree EXCEPT ![1].state = "ended"]
  /\ Cleanup(1) /\ tokens' = [tokens EXCEPT ![1] = 0]
  /\ UNCHANGED <<calls, span, late, raised, io>>

\* An answer without generations is counted like any other, with the code of
\* an error.
OnLlmEnd(r) ==
  /\ Returns(r, "llm")
  /\ \E code \in {200, 500} : WriteSpan(r, 1, code)
  /\ calls' = calls + 1
  /\ tokens' = AccumulateToAncestors(r)
  /\ Ended(r, "ended") /\ Cleanup(r) /\ UNCHANGED flow

OnLlmError(r) ==
  /\ Raises(r, "llm")
  /\ WriteSpan(r, 0, 500) /\ Forget(r, "ended")

\* So are the calls of a tool that returns an error result.
OnToolEnd(r) ==
  /\ Returns(r, "tool")
  /\ \E code \in {200, 500} : WriteSpan(r, tokens[r], code)
  /\ Forget(r, "ended")

OnToolError(r) ==
  /\ Raises(r, "tool")
  /\ WriteSpan(r, 0, 500) /\ Forget(r, "ended")

\* ParentCommand leaves no span of a tool, nor of a call whose error names it.
OnToolTransfer(r) ==
  /\ Transfers(r, "tool")
  /\ NoDocument /\ Forget(r, "transferred")

OnLlmTransfer(r) ==
  /\ Transfers(r, "llm")
  /\ NoDocument /\ Forget(r, "transferred")

\* on_finish: flush_handler_io_doc, once per request.
FlushIo ==
  /\ Idle /\ ~io
  /\ io' = TRUE /\ Enqueue(IoDoc)
  /\ UNCHANGED <<tree, entry, tokens, calls, span, flow, late, raised>>

Callback ==
  \/ \E r \in Runs : \E p \in 0..N :
       \/ \E name \in ChainNames : OnChainStart(r, name, p)
       \/ OnToolStart(r, p) \/ OnLlmStart(r, p)
  \/ \E r \in Runs :
       \/ OnChainEnd(r) \/ OnChainError(r) \/ OnChainTransfer(r)
       \/ OnLlmEnd(r) \/ OnLlmError(r) \/ OnLlmTransfer(r)
       \/ OnToolEnd(r) \/ OnToolError(r) \/ OnToolTransfer(r)
  \/ WriteFlow \/ FlushIo

Writer == (Write \/ Stop \/ ProcessEnds) /\ UNCHANGED traceVars

Next == Callback \/ Writer

Spec == Init /\ [][Next]_vars

\* The writer's thread runs.
FairSpec == Spec /\ WF_vars(Write /\ UNCHANGED traceVars)
-----------------------------------------------------------------------------
(* Properties.                                                             *)

TypeOK ==
  /\ QueueTypeOK
  /\ tree \in [Runs -> [kind : Kinds, name : Names, parent : 0..N,
                        state : {"new", "running", "flushing", "ended", "transferred"}]]
  /\ \A r \in Runs : entry[r] # NoEntry <=> tree[r].state \in {"running", "flushing"}
  /\ tokens \in [Runs -> 0..N] /\ calls \in 0..N /\ flow \in 0..N \cup {NoSpan}
  /\ span \in [Runs -> Spans \cup {NoSpan}]
  /\ late \subseteq Runs /\ raised \subseteq Runs /\ io \in BOOLEAN

\* The span that another names as its parent is above it, and it has been
\* written or will be, unless it is a tool that transferred.  A span that ends
\* before the runs above it names the nearest of them that is a span, one
\* level up; only the agent's names none.
SpansLinked ==
  \A r \in Runs : span[r] # NoSpan =>
    LET p == span[r].parent IN
    /\ p # 0 => /\ p \in Above[r]
                /\ \/ span[p] # NoSpan \/ Running(p)
                   \/ tree[p].kind = "tool" /\ tree[p].state = "transferred"
    /\ r \notin late /\ r # 1 =>
         /\ p # 0
         /\ \A q \in Above[r] \ (late \cup Above[p]) : span[q] # NoSpan => q = p
         /\ span[p] # NoSpan /\ p \notin late => span[r].depth = span[p].depth + 1

Below(r)   == {q \in Runs : r \in Above[q]}
Answers(r) == {q \in Below(r) : tree[q].kind = "llm" /\ span[q] # NoSpan /\ q \notin raised}

\* What a span and the document of the LLM calls say of the calls below is
\* the number of those that came back, if nothing below ended late, whatever
\* code the calls and the span have; only the span of a chain or tool that
\* raised says nothing of them.  The document is made.
CallsAddUp ==
  /\ \A r \in Runs :
       span[r] # NoSpan /\ tree[r].kind # "llm" /\ Below(r) \cap late = {} =>
         span[r].calls = IF r \in raised THEN 0 ELSE Cardinality(Answers(r))
  /\ tree[1].state = "ended" /\ late = {} =>
       flow = IF Answers(1) # {} \/ 1 \in raised THEN Cardinality(Answers(1)) ELSE NoSpan

\* When the handlers pause, what they have put on the queue is submitted,
\* unless the server stops with more than a batch waiting or does not wait.
QueueDrained ==
  []<>(accepted = submitted \/ backlog > BatchSize \/ writer = "killed")
=============================================================================
