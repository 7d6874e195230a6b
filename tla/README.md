# Verification of Agent Builder

TLA+ models of the agent-builder server (`handlers/`, `storage/`, `llm_client/`, `base/`,
`prebuilt_tasks/`, `utils/`) and of the repair agent (`repair_agent/`), TLC configurations that check them, and TLAPS proofs. `PROJECT.json` lists the
components, the runs, the mutants, the lines each definition models, the findings,
the hazards and the theorems.

## 1. The system

Agent Builder is a Tornado server, run as several pods, that executes LangGraph agents
for chat sessions. Pods share no memory: what outlives a request is in Redis and Mongo.
All code between two `await`s of one coroutine is atomic; between two of them any
coroutine of any pod may run. Redis executes one command at a time.

| component | state | operations | interacts with |
|---|---|---|---|
| invoke handler (`handlers/invoke.py`, `handlers/core/agent_execution.py`) | coroutine of a turn: graph state, interrupt event, background flag | load or bootstrap a session, persist the input, run blocking / SSE / background, switch to the background, finalize, finalize interrupted | Redis, Mongo, agent, remote task, poller |
| interrupt (`handlers/conversation.py`, `handlers/core/interrupt_poller.py`) | none; an `asyncio.Event` per turn | read and overwrite `exec_status`; poll it | Redis, invoke handler |
| Redis client (`storage/redis_client.py`) | session envelope, `exec_status`, background meta, chunk buffer (sorted set by sequence), `last_active_task`, document cache; all with a TTL | one or a few commands each; errors are swallowed | everything |
| `/message`, `/message/ingest` (`handlers/message.py`) | none | poll meta and chunks; append frames; fold the reply into the envelope | Redis, SDK, backend |
| SDK (`llm_client/utils/sdk_async_client.py`) | sequence counter, generation, background flag | stream inline, switch, POST with retries | `/message/ingest` |
| Mongo (`storage/mongo_client.py`, `storage/utils/mongo_topology.py`) | agents, metadata, tasks, sessions | cached reads, inserts, updates that invalidate the cache, detached session saves | Redis cache |
| sync (`handlers/sync.py`, `handlers/utils/platform_fetch.py`) | none | find or fetch and insert an agent | Mongo, platform |
| routing (`base/agent.py`, `base/tools.py`, `prebuilt_tasks/`) | `last_active_task` path and depth | transfer to a task, to the parent, hand off to a remote | agent state |
| telemetry (`utils/es_logging_handler.py`) | bounded queue, writer thread | enqueue, batch write, stop | Elasticsearch |
| repair agent (`repair_agent/`) | repair items, groups, files, git branches | analyse, repair, group, patch, validate, commit, pull request | LLM, git, GitHub |
| LLM clients, MCP client, mocks, CRUD handlers, validation, app shell | none or a cache entry | conversions and I/O | - |

What makes them correct, and what is hard:

- **Turns of a session.** Three commands (load, write envelope, write `exec_status`) open a
  turn and three close it; an interrupt, a newer turn, a pod crash may fall between any two.
  A superseded or stopped turn must not commit; inputs and acknowledged replies must stay in
  the history; partial states must stay usable by the next turn.
- **Background runs.** Whoever polls must see an end, all frames in order, and find the reply
  in the envelope when told that the run has completed.
- **Remote runs.** Frames arrive from another process, are retried, and race with the handoff
  and with the next turn.
- **Stores.** Detached Mongo saves may be reordered, cached documents may be stale, failing
  commands look like missing documents. What the cache serves must have been taken by Mongo
  and must agree with it once writers have gone; a session must be the same from either store.
- **Replies.** A stream may be cut anywhere by the network, an error or an interrupt, and goes
  through two clients, a sequencer and the fold. A part must never be reported as the whole, and
  what the client has seen and what the history keeps must not drift apart.
- **Routing.** Path and depth must name the task that runs after any number of transfers,
  hand-backs and remote tasks, and a turn must not go around between routers for ever.
- **Repair pipeline.** Patches of one file shift each other's lines and are taken back one by
  one; a run that dies leaves a dirty clone, which no later commit may pick up.
- **Telemetry.** Two threads share a bounded queue; spans must link to spans that are written,
  token counts must add up, and the shutdown must flush.

## 2. Modules and how they compose

| module | models | uses or implements |
|---|---|---|
| `SessionTurns` | turns, interrupts, background switch, crashes | - |
| `RemoteRun` | handoff to a remote, SDK, ingest, poll, next turn | implements `OrderedReplay` |
| `DocStore` | Mongo documents, Redis cache, saved sessions, sync | - |
| `ReplyStream` | model streams, frames, messages of a turn | - |
| `Routing` | path and depth, transfers, parent routers | - |
| `TelemetryQueue`, `Tracing` | writer thread; callbacks that feed it | `Tracing` extends and implements `TelemetryQueue` |
| `FilePatches`, `RepairPipeline` | line arithmetic of patches; nodes, clone, pull requests | `RepairPipeline` extends `FilePatches` |
| `ListOps` | filtering and sorting of lists | `ReplyStream` and `FilePatches` extend it |

The `MC` modules give TLC names and small structures. The `Proofs` modules hold the theorems, `TracingProofs` those of both telemetry modules and
`RepairPipelineProofs` those of `FilePatches` too; `ListLemmas` has the lemmas about lists and
recursion that two of them need. The composition is by what one module takes as a free choice of another: an agent's answer in
`SessionTurns` is what `ReplyStream` and `Routing` detail, the envelope's persistence in Redis
is one command there and what `DocStore` details, a remote's frames in `ReplyStream` are those
that `RemoteRun` delivers.

## 3. Modules

### SessionTurns

One stateful session. `Turns` are requests to `/agent/invoke`; each has a program counter `pc`
whose positions are the awaits of its coroutine:

| position | the command that comes next | action |
|---|---|---|
| `load` | `get_extended_session_data` | `Load` |
| `persist`, `mark` | the two commands of `_persist_input_and_set_running` | `PersistInput`, `MarkRunning` |
| `bgmeta` | `set_bg_meta` before the detached drain | `EnterBackground` |
| `run` | the agent: `ainvoke`, or the chunks of `astream` | `AgentReturns`, `InterruptWins`, `Chunk...`, `StreamEnds`, `AgentRaises`, `Poll` |
| `check`, `save`, `complete` | the three commands of `_finalize_execution` | `CheckStatus`, `SaveReply`, `MarkCompleted` |
| `isave`, `icomplete` | the two of `_finalize_interrupted_execution` | `SavePartial`, `MarkInterrupted` |
| `append` | the terminal frame of a drained run and its meta | `AppendTerminal` |

`envelope` and `exec` are the two Redis keys, `bgStatus` the status in each turn's background
meta, `fired` the poller's event, `icall` the interrupt endpoint's read value. A message is
its kind and its turn: `user`, `call` (an AI message with tool calls), `result`, `text`, `reply`.
`Sanitize` is `_sanitize_interrupted_state`, `MayFinalize` is `_check_exec_status`. An agent that
raises while its live stream is being interrupted is finalized as interrupted or not at all,
according to what it raises: a `RuntimeError` that is no remote's is raised again (`AgentRaises`). `Crash` ends
a coroutine between any two commands. The modes are blocking, `stream`, `auto` (a stream that
lives long enough to switch to the background) and `background` (detached from the start).

`revoked`, `stopped`, `saved` and `before` are history variables: nothing reads them but the
properties, and the proofs.

A stream in mode `stream` is one that never reaches BACKGROUND_SWITCH_SECONDS. `Overlap` says
whether clients may send a turn while another is in flight. With overlapping turns the later
write of the envelope wins, which the code accepts; the properties about the history are
therefore stated for clients that wait (`Overlap = FALSE`), those about `exec_status` for all.

Abstracted: the text of messages, everything in the envelope but the messages, agent
construction, MCP tools, mocks. Stateless requests write no envelope. The turn's last
chunk and its terminal frame reach the client together with the command before them; writes
to the client do not fail.

### RemoteRun and OrderedReplay

One turn whose remote task emits `mode.background`. `handoff` is the invoke handler from there
on (`set_bg_meta`, `_persist_input_and_set_running`), `sender` the SDK's `BackgroundStreamer`,
`call` the ingest handler of each attempt at each frame (`zremrangebyscore`, `zadd`, meta, and
for the terminal frame the fold of the reply and `exec_status`, each a step), `buffer` and
`meta` the chunk buffer, `poll` a backend that polls `/message` (meta, then chunks from the
highest sequence it has) and `next` the next turn of the session, sent when the poller was told
that the run has ended. The reply is the set of frames it was assembled from. The backend is
not part of the repository: how it polls is an assumption taken from the request's fields
(`seq`, `generationId`) and the comments of the poll handler.

`Faults` is what may befall a POST: `lost`, `answer` (executed, the answer lost), `late` (given
up while still executed). `FastRemote` allows the remote to push before the handoff is recorded,
which the SDK's own example does (it starts the work before it returns the handshake).

`OrderedReplay` is what `/message` promises: what a poller holds is a prefix of the reply, and
it is told of the end only when it holds all of it. `RemoteRun` implements it with
`delivered <- poll.got \cap 1..Deltas` and `ended <- poll.at = "ended"`.

### DocStore

The `Reqs` are requests, each with one operation of `Ops`: `get` and `list` (the read handlers),
`sync` and `resolve` (`/platform/sync/agent`, and the invoke handler's own sync), `legacy` (the same by `_id`), `create`,
`change`, `update`, `delete`, `register` (the CRUD handlers and `mongo_client`'s methods),
`save`, `load`, `clone` (sessions). `Flow` says where an operation starts and where it goes when
its lookup has found a document or not; the positions are the commands:

| position | command | action |
|---|---|---|
| `lookup` | `cache_get`, `get_extended_session_data` | `CacheGet` |
| `find`, `byId` | `_find_one` by key, by `_id` | `FindByKey`, `FindById` |
| `fill` | `_sync_cache` after a command of Mongo | `Fill` |
| `fetch` | the platform's answer | `Fetch` |
| `insert`, `write`, `remove` | `_insert_one`, `_update_one`, `_delete_one` | `Insert`, `Write`, `Remove` |
| `drop` | the deletion of the entry | `Drop` |
| `envelope` | `set_extended_session_data`; the rest is a task of its own | `Envelope` |
| `check` | the lookup of another document: the metadata of an agent's type, the agent that metadata names | `Check` |
| `list`, `each` | a query for all, and one entry at a time (that of a checked document too) | `ListAll`, `CacheEach` |

Each command may fail (`MaxFaults` times): a Redis error and a read error of Mongo are swallowed,
any other one ends the request. Every entry may expire. A document is its `_id`, its key and two
fields that hold the request that wrote them, enough to tell a whole document from a mix of two.
The envelope of a session has a third, `tools`, for `mcp_descriptors_by_task`: `save_session` does
not copy it, so a document of Mongo never has it.
`written` is a history variable: the requests whose insert was made or whose update matched a
document. `update_one` may match none, when the document has been deleted since it was read; the
code does not notice, and caches its fields (`Write`).
`disturbed` is a history variable: keys on which a writer overlapped with another request, or a
command failed. On those the code does lose or duplicate data, and the two exact agreements
(`CacheAgrees`, `SessionCopiesAgree`) exempt them; `CachedWasWritten` and `UpdatesSurvive` exempt
no key, but speak of documents that Mongo still has.

### ReplyStream

A turn of up to `Calls` model calls. A stream is a sequence of event kinds; each event is a line of
two bytes and two newlines, and `Read` delivers any number of bytes, so that lines are cut
everywhere. `LocalEvent` and `RemoteEvent` are the loops of `SprinklrChatModel` and
`RemoteChatModel`, `Number` and `Pass` the sequencer, `Merge` LangChain's merging of chunks with
the stripping of cut tool calls, `Answered`, `Retry`, `AnsweredError`, `Unanswered` the calls that do
not stream, and the rest the handler's end of a turn. An event is identified by call and position,
so that loss, repetition and reordering of text are visible.

What the client gets and what the turn keeps differ, and the model has why:

- **Sub-agents.** A deep agent's `task` tool runs agents of their own (`CallSub`); their text is
  streamed (`subgraphs=True`), their messages stay out of the turn's state. While one runs, the
  state the handler sees is the sub-agent's own (`Value`), so an interrupt or a failure there keeps
  that one.
- **Transfers.** A deep agent's loop may go on after its transfer tool (`transfer`); when it ends,
  `Discard` takes the later messages out of the state, though they have been streamed.
- **Handoffs.** A remote may hand its run off to a live or to a background turn. The agent does not
  stop for it (`GoesOn`): a workflow edge may lead to another call, which resets the signal.
- **The fold.** A background turn whose last message is empty gets the text of the whole turn.

`CompletedReplyWhole` compares the client with all the models sent (`Sent`), the history with what the
tasks' models sent and was not taken out (`SentToState`). Of three kinds of turn that is false, and
they are exempt: a turn that has been handed off (the handler completes it when the signal is reset,
or when the delivery is not live), the history of a turn that was folded (the text of earlier
messages is then there twice), and a turn whose network chunks may be one newline
(`LoneNewlines = FALSE` in the run; both clients lose events then). What comments and docstrings
promise of these turns, and that only the destination of a transfer answers, is in section 6.

### Routing

`lat` is `last_active_task` in the state of the turn, `stored` that of the session, `at` what
runs: the `ENTRY` of an agent, a task, a parent router, the end of a node. `Entry` is
`_entry_condition` with the depth it adds for a nested agent, `TransferTo` the `transfer_tool` of a
task, `DeepTransfer` that of a deep agent, `RemoteHandoff` and `RemoteFinishes` the remote release,
`ToParent` and `ManualTransfer` the two special targets, `ParentRouter` `parent_router_node`. Which
targets a task has (`Grant` and the three `Targets`) follows the routers' connections, the swarm
type, the broadcast to the tasks of wrapped agents, and how each kind of task merges repeated
grants. `EdgesJoinTasks` and `TransfersStayInside` say which agents the properties are about
(section 5); the instance satisfies both, and TLC evaluates them as an assumption. `EdgesAssumption`
limits the model itself: a node with a workflow edge has no transfers, since the graph would follow
the edge beside `Command.PARENT` and run both. A client may name where to start (`Given`): a path to
a node, with any depth along it; paths to unknown nodes are left out.
`TransferArrives` says that until a transfer has arrived no agent ends, the turn does not, and no
entry gets a name that is no node of its agent. `goal` and `answered` are history variables. `SwitchAgent`, used by `RoutingSwitch` only,
takes nodes away between two turns.

### TelemetryQueue and Tracing

`TelemetryQueue` has the handlers' `Enqueue`, which drops when the queue is full, the writer's
loop (`Drain`, `Bulk`), the last batch after shutdown (`FinalDrain`), the stop and the end of the
process when the join times out. `Tracing` is LangChain's callbacks on top: a tree of runs that
start and end in any order the framework allows, the handler's dictionaries (`entry`, `tokens`,
`calls`), and the document each callback enqueues, by an action of `TelemetryQueue`. The walks of the
handler up its dictionary (`NearestSpan`, `MeaningfulDepth`, `Ancestors`) are recursive functions over
`Above`, the chain of entries above one. `tree` is
LangChain's own record; `span`, `flow`, `late` and `raised` are history variables. A call that returns without generations and
a tool that returns an error result end with code 500 like those that raise (`OnLlmEnd`,
`OnToolEnd`), but their calls are counted; so `CallsAddUp` counts what came back, and reads `raised`
rather than the code. An error that names `ParentCommand` leaves no document
(`OnToolTransfer`, `OnLlmTransfer`, `OnChainTransfer`).

### FilePatches and RepairPipeline

`FilePatches` is `FileTool` on sequences of lines, with Python's `splitlines` and slices: `Replaced`
(`replace_lines`, top to bottom with an offset), `Removed` (`remove_lines`, bottom to top), and
`Meant`, the reference definition in which every patch replaces its own lines. `RepairPipeline`
has one action per node's loop body and tool call: `CheckoutCommit`, `Analyse`, `Repair`,
`Grouping`, `CheckoutBranch`, `PatchFile`, `Validate`, `Undo`, `Add`, `Commit`, `Push`,
`OpenPullRequest`. `Raise` is an exception of any call or the death of the process; the clone and
the remote stay as they are and `Start` begins a new run. What is assumed: one repository, in whose
clone the process is started (`FileTool` and the test command use relative paths), and one commit.

### MCSessionTurns, MCReplyStream, MCRouting, MCRepair, MCTracing

Names, streams, the agent's structure, the tests and files for TLC, symmetry sets, and the
constraint of `Telemetry`.

## 4. Runs

| run | instance | shows |
|---|---|---|
| `SessionSequential` | 3 turns, 1 interrupt, modes sync, stream, background, 1 tool round, one turn at a time, symmetry | no input, no acknowledged reply is lost; "completed" comes after the envelope |
| `SessionOverlap` | 2 turns that overlap, 1 interrupt, all modes, symmetry | `exec_status` stops superseded and interrupted turns; interrupts hit their target; the envelope stays well formed |
| `SessionLive` | 2 turns in sequence, sync, auto, background, `FairSpec`, no symmetry | stopped blocking turns end; background runs are seen to end |
| `RemoteReplay` | 3 frames and the terminal one, 2 attempts, lost POSTs and answers, `FairSpec` | refinement of `OrderedReplay`, whole reply, stored reply, pollers end |
| `Storage` | 2 requests of any operation, 1 agent that is a template, 2 metadata names, 2 sessions, 1 failing command | what the cache serves, what updates and saves leave |
| `Stream` | 3 calls, 4 local and 5 remote streams, 2 attempts, all deliveries, handoffs to live and background turns | completed replies are whole, in history and on the wire; numbers increase |
| `Routing` | 10 tasks, 4 agents on three levels, a remote task, deep agents, an edge, `FairSpec` | path and depth follow the task, transfers arrive, turns resume, routing ends |
| `Telemetry` | 4 runs of callbacks, queue of 2, batches of 1, `FairSpec` | spans link, calls add up, the queue drains and flushes |
| `Repair` | 2 tests in 2 files, 1 service, 2 runs, 3 replacements | patches land, can be taken back; commits are of one file |
| `SessionSwitchSanitize`, `RemoteFastHandoff`, `RoutingSwitch` | small instances, one property each | disagreements between code and comments (section 6) |

Bounds. Three turns are what a loss needs: one turn leaves a state behind, a second damages it,
a third sees the damage; the races over `exec_status` are between two turns and an interrupt,
and the theorems of section 5 cover any number. One tool round gives every kind of message and
both outcomes of the sanitizer. Two attempts give a duplicate of every frame. Two requests of
`DocStore` give every race between a reader and a writer or two writers, and the initial states
vary what is stored and cached beforehand, as an earlier request would. Three levels of agents are
what a hand-back over two levels needs; turns are not bounded. Three calls allow an answer before,
between and after a tool call or a remote; every cut of every stream is explored. Four runs are an
agent, a task, a tool and a call below. `Telemetry`'s `CONSTRAINT Apart` lets the writer run only
beside traces of up to two runs (the callbacks never read the queue, and its order is proved for
any trace), and lets at most one span of a longer one have the code of an error. `Repair` compares all sets of patches of files of up to five lines (`MaxLines`), and
the batch and the runs are bounded by two: leftovers of one run meet the groups of another.

All actions of all specifications occur in passing runs, but `SwitchAgent`. Deadlock is not
checked because sessions, requests, traces and runs end.

Left out of a passing run on purpose: `auto` from `SessionSequential`, `late` and `FastRemote`
from `RemoteReplay`, chunks of one newline from `Stream`, retired tasks from `Routing` and inner tasks
that have only the targets of an outer level (`TransferArrives` fails with them): the properties do
not hold there, and a violation run or a hazard in `PROJECT.json` says so; the theorems that need
the same exclusions have them as hypotheses.

Fairness. `FairSpec` of `SessionTurns` is weak fairness of each turn's own server steps: the
event loop runs a ready coroutine, and the interrupt poller is a loop with a sleep. Nothing is
assumed of agents: `StopEndsBlockingTurn` holds though they hang, and `PollerSeesEnd` states
its premise (`AgentsAnswer`) itself. `FairSpec` of `RemoteRun` is weak fairness of the two
steps of a poll, since the backend polls in a loop until the end; handlers and remote may
stop at any time. `Tracing`: the daemon thread runs (`Write`); nothing makes callbacks come
or the server stop. `Routing`: the graph's own steps (`Route`) run on; models, remotes and clients
need not answer.

Every property has a mutant: an operator marked "Faulty variant" that a plausible bug would turn
a mapped definition into, and with which TLC finds the property violated.

## 5. Proofs

Each proof module extends the module it is about. All theorems hold for every value of the
constants that satisfies the module's named assumption; what some of them assume beyond that is
said below and in their statements.

**Sessions, any clients** (`SessionTurnsProofs`). For every set of turns and interrupts, every
subset of the modes, with and without polling and overlap, and for every number of tool rounds:
`TypeCorrect`, `NoCommitAfterRevocation`, `NoCommitAfterStop`, `PollersHitTheirTarget` and
`RunningIsLive`. None of the invariants is inductive. The strengthenings are `RevokedInv`
(a pending turn with `revoked = "no"` is exactly one that still owns `exec_status`, and after
the check no revocation is recorded), `StoppedInv` (a stopped turn stays revoked unless it
switches), `AimedInv` (a stopped `exec_status` names a turn an interrupt call had read), and
`RunningInv`, with `CompletedIsLast` for turns that have ended. The proofs have one step per
action.

**Sessions, clients that wait** (same module). `RepliesKept`, `CompletedMeansStored`,
`LaterTurnsSeeInput` and `InputsStay` have two hypotheses: clients send one turn at a time
(`~Overlap`), and no turn switches in the middle of a run (`"auto" \notin Modes`);
`SessionSwitchSanitize` shows that the third is false without the second. The argument: a turn's
history is the envelope it loaded followed by its own messages (`TurnLast`), the only unanswered
tool call is the last message (`OnlyLast`), so the sanitizer cuts nothing but that call; hence
every write of the envelope covers what it replaces (`Grows`, `Covers`). `SequentialInv` joins
`OneAtATime`, `EnvelopeInv`, `HistoryInv` and `RepliesInv`.

**The envelope, any clients** (same module). `EnvelopeStaysWellFormed` does without those two
hypotheses: turns overlap and switch as they like. The argument is another one, since the
envelope a turn writes need not extend the one it replaces. In every history a turn may write,
and in the envelope, the messages of each turn are together and behind its user message
(`Shape`), which appears once because nobody knows of a turn that has not loaded. A turn appends
only behind its own messages (`Own`), so an unanswered call is the last message or belongs to a
turn that switched in the middle of it (`Open`); what is written as it is does not end in a call
(`OpenCloses`, with `Closed`), and when the sanitizer cuts a history it cannot part another turn's
call from its result, because the two are together on the same side of the cut (`SanitizeOwn`).
`WellFormedInv` says so of the envelope and of every turn, by its position (`TurnShape`).

**Remote runs** (`RemoteRunProofs`). For every number of frames and attempts, `RemoteRun`
implements `OrderedReplay` (`RemoteImplementsReplay`), the folded reply is whole (`ReplyIsWhole`)
and it is stored when the remote has finished (`FinishedIsStored`). The hypothesis is `NoLate`:
the client never gives up on a POST the server is still working on; without it a late attempt
at an old frame may take the frame out of the buffer just when the finalizer reads it. The last
theorem also has `~FastRemote`. The inductive invariant is `Sequenced`: only the handler of
the current attempt works (`OneHandler`), so all frames before the current one are in the buffer
whatever was lost or repeated (`BufferPrefix`, `AddedIsThere`); the finalizer, which runs for the
terminal frame only, therefore reads the whole text (`FoldsWhole`, `EnvelopesWhole`), and a
poller that reads from its highest sequence on holds a prefix, all of it once it has read
"completed" (`PollerPrefix`, `EndedIsTerminal`). `HandoffFirst` and `FoldedIsStored` add that
nothing overwrites the reply between the fold and the next turn.

**What the cache serves** (`DocStoreProofs`). `DocStoreTypes` and `CacheServesAccepted`, for any
set of requests, documents and sessions and any number of failing commands. What the cache serves
of a document that Mongo has was taken by Mongo. (Of a deleted document this is false,
see section 6.) This is not inductive: what is about to be cached is what a request holds,
and what it holds comes from the cache, from Mongo or from its own write. `DocInv` therefore joins
the types with `FlowOK` (a request is only at positions of its operation, and holds a document
exactly where the code has one), `ValuesOK` (every field in Mongo, in the cache of agents and
metadata, and in the hands of a request was taken, where Mongo has the document) and `InsertedOK` (a document
called after a request is one that its insert made).

**Copies of a document** (same module, on top of `DocInv`). `UpdatesAreKept`, `CacheIsStored`
and `SessionsAgree`. `PathInv` follows a request from command to command: which keys a document
may have (`FitsOK`), and that an `_id` a request writes to or removes is that of the document it
found (`PathOK`); this alone gives `UpdatesSurvive`, since an update sets its own field of one
document that nobody replaces. The two agreements are about keys that no failed command and no
overlapping writer has disturbed. There, what a request read earlier is what Mongo still has
(`Views`), at every position where the code uses it later; an entry is the document, or the
request that has just written it is on its way to replace it (`KeyOK`). Without `Views` the fill
of a request that read before another one's write could not be excluded, and without `KeyOK` the
write itself falsifies the agreement until its fill. `SessionsAgree` is about the two fields that
`save_session` copies; the third is never in Mongo.

**Routing** (`RoutingProofs`). For any nesting of agents, kinds of tasks, edges, grants and any
number of turns: `RoutingTypes`, `PathsLead`, `TransfersArrive`, `TurnsResume`, also when nodes
disappear between turns (`SwitchSpec`); `RoutingHolds` restates them for `Spec`. Two hypotheses
name what the code accepts without checking and what breaks the properties. `EdgesJoinTasks`: a
workflow edge leads to a task, and does not start at a remote one (with `EdgesAssumption`, which says
that it starts at a task); `base/agent.py` and
`mongo_topology.py` also take edges to and from wrapped agents, whose end then leaves path and
depth at another level. `TransfersStayInside` (for the last two): an agent that shares its targets
is not given a wrapped agent's tasks or an edge's target, and models name no task that does not
exist; a transfer to a node that the agent does not have ends the turn. The inductive invariants:
`PathInv` says for each kind of position where path and depth are (`AtTask`, `AtEntry`,
`AtRouter`, `AtEnd`), e.g. that an entry is reached with a path that passes the agent, with a path
that ends at it, or from one level below, and that a task only builds on levels which it has
(`Builds`); `PathLeadsToTask` alone says nothing of the entries and routers between two tasks.
`GoalInv` says that what runs is on the way to a pending transfer's target, and that an entry on this
way is reached with a path that ends at its agent, so that it starts the router, which no version
of an agent lacks, and `ResumeInv`
carries the answering task from the end of one turn through the store into the next.

**Telemetry** (`TracingProofs`). Between handlers and writer nothing is lost, repeated or
overtaken (`NothingOvertaken`: what was accepted is what was submitted, then the batch, then the
queue), and from it `GracefulStopFlushes`. `Tracing` implements `TelemetryQueue`
(`TracingImplementsQueue`): each callback is an enqueue of one document or a stutter, so the flush
holds of traces as well. `TraceTypes`, `SpansNameSpans` and `CallsAreCounted` are about any trees
of runs, late and failing ones included. `TreeInv` is the shape of LangChain's tree and of the
handler's entries, which exist for just the runs in flight. `LinkInv` says of each document
that its parent is the nearest span above *as of now*, not of when it was written: what makes this
inductive is that a run the walks count does not end without a document (`MeaningfulLeaves`),
so a run passed over stays none. `CountInv` says that a run's
counter is the number of calls below it that came back, with whatever code, as long as none below ended late, and that the
document of calls is the sum. The handler's walks are recursive functions along parents; their
equations are proved (`WalksOK`, `AboveFacts`) by least counterexamples.

**Replies** (`ReplyStreamProofs`). `StreamTypes`, `StreamOrder` and `StreamWhole`, for any streams, any
number of calls and retries, and any chunks, interrupts and broken connections. The last two have
as hypothesis what the run leaves out: no chunk is only the second newline of an event
(`~LoneNewlines`). What a chunk does is a
fold over its bytes and one over its lines, written as recursive functions (`Lines`, `EachLine`,
`Picked`), as `FlattenSeq` is; their existence and equations come from one lemma about recursion
over an initial segment of the naturals (`Recursion`), and facts about them from `Induct`. `Basics` is
the types and the course of a turn. `Orders` adds `Cut`: the buffer holds just the part of a line
that has arrived, so a chunk makes just the lines of the events it completes (`LinesRead`), each
is read once, and its frame is numbered after those before it. `Wholeness` adds that the events
read so far have been gathered, and streamed after the texts of the earlier calls (`Gathered`),
and that a stream cut short is known by the status of its message (`Reporting`); so where no
message has a status, all that was sent is in the messages, and on the wire, sub-agents and removed
messages included (`WholeMessages`,
`WholeStream`), which is what `_build_terminal_frame` and `state_to_response` rely on.

**Repair** (`RepairPipelineProofs`). `TypeCorrect` and `CommitsOwnFile`, for any tests, files,
patches and number of runs. The argument is that of the code: the reset at the start cleans what a
dead run has left, and each group ends with all its changes committed. `RepairInv` is `ItemsOK`,
`GroupsOK`, `PositionOK` (where the run is, and that there are no more groups than items), `CloneOK`
(types of the clone) and `CleanOK` (tree and index differ from the commit in the group's own file at
most, and in none when a group begins, `GroupsStartClean`); `RestOK` has the other variables. What
the types need is not obvious for the patches: those of all groups are made in the file of one, so
they may lie outside it, and the offset may be negative. It is never below what the patches above
may have removed (`ReplaceTyped`), since patches are apart and made from top to bottom.

**Patches of a file** (same module). `ReplacedFit` and `RemovedFit` are about `replace_lines` and
`remove_lines` for files of any length and any number of patches that do not overlap;
`PatchesInPlace` and `UndoIsExact` state them of whatever file a run is about to patch. `MaxLines`
stays in the two properties because they quantify over all patches of a file, and the theorems
hold for every `MaxLines`. `Upper(lines, P, k)` is what the first `k` lines become, so the meant
file is `Upper` of all. One patch more exchanges its lines and leaves what is above and below
(`OneMore`), which is what the slices of one turn do *if* the offset is what the patches above add
(`SplicedIs`, `ReplaceIs`): this is the loop's invariant, kept because every line below a patch
moves by what the patch adds (`LengthAdded`). For taking back, a patch's recorded place depends
only on the patches above it, and these are taken back later, so each original goes where it was
(`PutBackIs`, `FromBelowIs`). Two hypotheses name what the code does not handle, as
`UndoRestores` does: an original that ends in an empty line is a line short, and of two patches
that begin in the same place (an empty one and the next) the wrong one may come first. The
loops are recursive functions, whose values come from `Recursion` and `Induct` of `ListLemmas`, and
the order is a sorted list (`SortedIs`).

The assumption on the constants says of the files at the commit and of the replacements that they
are sequences of lines, and of a test's span that it lies in its file, which is where the lines of
the original are read.

**Only model-checked.** Liveness under fairness, which is beyond the prover: `StopEndsBlockingTurn`,
`PollerSeesEnd` and the other properties of the `FairSpec`s. Every invariant and action property of a
passing run is a theorem.

## 6. Findings

1. `SessionSwitchSanitize`: the sanitizer may cut a later turn's user message out of the history
   after a stream switched to the background inside a tool call and died.
2. `RemoteFastHandoff`: the handoff overwrites a reply that was folded before it.
3. `RoutingSwitch`: a session that goes on with another version of its agent keeps a path to a task
   that no longer exists, and `ENTRY` does not fall back to the router.

These disagreements with a comment or docstring are in the models, but have no run of their own; the
properties exempt them by name:

- `save_session` copies every field of the envelope but `mcp_descriptors_by_task`
  (`mongo_client.py:458`), so that a session restored after the TTL builds its tasks without MCP
  tools, though `agent_execution.py:180` calls the document a copy of the envelope
  (`SessionCopiesAgree` names the fields).
- `_update_one` ("Write *fields* to the document", `mongo_topology.py:504`) may match no document; it
  caches the fields and succeeds all the same. Without the condition that Mongo has the document TLC
  finds `CachedWasWritten` violated by an update and a delete of one agent.
- The fold repeats the text of earlier messages of a background turn, though it promises "no
  duplication" (`background_stream.py:25-30`, `Folded`).
- A turn that a remote hands off is completed when a workflow edge leads to another call, which resets
  the signal (`interrupt.py:39`), though `invoke.py:333` says not to.
- A network chunk of one newline makes both clients lose events (`remote_chat_model.py:166`), though
  `_astream` yields "one ChatGenerationChunk per SSE data: line": with `LoneNewlines = TRUE` TLC finds
  `CompletedReplyWhole` violated.
- What a deep agent says after its transfer "must be discarded so only the destination task answers
  the user" (`deep_agent.py:224`); it is discarded from the history, but the client has had it
  (`Discard`).

Observed while modelling and recorded as hazards, with the reason why no property covers them: the
suppression of a turn by a late write of the interrupt endpoint, the stop that is lost at the
switch, "completed" before the fold, the ownership check of the ingest handler, patches of one
group made in another group's file, the target branch of pull requests.

## 7. Not modelled, and why

Parts: MCP and voicebot clients, mocks, the remote sandbox (conversion and I/O, no state that
outlives a call), validation and formatting of requests and responses, diagrams, the application
shell. Within modelled parts: the stateless path of the invoke handler, clients that disconnect,
expiry and failing reads of `exec_status`, several generations of a background run, batches of the
SDK, agents built per request, a task that transfers and has a
workflow edge as well, paths to unknown nodes named by clients, the Mongo topologies, the contents of telemetry documents, prompts
and answers of the models. A reply that overlaps with another turn of the session is modelled, but
no property about the history is claimed for it: the code lets the newer turn win. Hazards that no
property covers are listed in `PROJECT.json` with the reason.
