------------------------------- MODULE Routing -------------------------------
(***************************************************************************)
(* The swarm: how a turn finds the task that answers.                      *)
(*                                                                         *)
(* An agent is a graph whose nodes are tasks and, wrapped as tasks, other  *)
(* agents.  last_active_task = (path, depth) names the task that a turn    *)
(* starts at: one name per level of nesting, of which depth is the level   *)
(* of the task that runs.  ENTRY reads it, the transfer tools rewrite it,  *)
(* and it is stored with the session for the next turn.                    *)
(*                                                                         *)
(* One session, one turn at a time.  What a model or a remote answers is a *)
(* free choice.  A task without a transfer tool may have a workflow edge   *)
(* to the next task (EdgesAssumption).                                     *)
(***************************************************************************)
EXTENDS Naturals, Integers, Sequences, FiniteSets

CONSTANTS
  Tasks, Agents, Top,   \* Top is the agent that is invoked
  Home,                 \* the agent that a task or a wrapped agent is a node of
  Chain,                \* the names from Top's level down to a node
  Router,               \* the router task of each agent
  Deep, Remote,         \* the DeepAgentsTasks and the RemoteReleases
  Connected,            \* the agents with swarm_type "all_connected"
  RouterBack,           \* those with "router_back_connection"
  Edges,                \* workflow_edges
  Disabled,             \* nodes with enabled = False
  Retired,              \* nodes that another version of the agent lacks
  Invented,             \* ids that the model of a deep agent may make up
  NoTask

Nodes == Tasks \cup (Agents \ {Top})

ASSUME RoutingAssumption ==
  /\ Top \in Agents /\ Tasks \cap Agents = {} /\ NoTask \notin Tasks \cup Agents
  /\ Home \in [Nodes -> Agents]
  /\ Router \in [Agents -> Tasks] /\ \A a \in Agents : Home[Router[a]] = a
  /\ \A a \in Agents : Router[a] \notin Disabled \cup Retired  \* Agent() adds it
  /\ Chain \in [Nodes \cup {Top} -> Seq(Nodes)] /\ Chain[Top] = <<>>
  /\ \A n \in Nodes : Chain[n] = Append(Chain[Home[n]], n)
  /\ Deep \cup Remote \subseteq Tasks /\ Deep \cap Remote = {}
  /\ Connected \cup RouterBack \subseteq Agents /\ Connected \cap RouterBack = {}
  /\ Edges \subseteq Nodes \X Nodes
  /\ Disabled \cup Retired \subseteq Nodes

\* A node with a workflow edge transfers nowhere.  Where one does, the graph
\* follows the edge beside the transfer and runs both, which is not modelled.
ASSUME EdgesAssumption ==
  \A e \in Edges :
    e[1] \in Tasks /\ \A i \in DOMAIN Chain[e[1]] :
      LET n == Chain[e[1]][i]
      IN Home[n] \notin Connected \cup RouterBack /\ n # Router[Home[n]]

VARIABLES
  gone,      \* nodes that the agent of the session's current turn lacks
  stored,    \* last_active_task of the session
  lat,       \* last_active_task in the state of the turn
  at,        \* what runs
  goal,      \* history: where the last transfer was to lead
  answered   \* history: the task that answered the previous turn, and may go on

vars == <<gone, stored, lat, at, goal, answered>>

Kinds == {"idle", "entry", "task", "router", "ends", "lost"}

Pos(kind, node) == [kind |-> kind, node |-> node]
Idle == Pos("idle", NoTask)
-----------------------------------------------------------------------------
(* The agent as it is built from its document.                             *)

Enabled(a) == {n \in Nodes : Home[n] = a} \ (Disabled \cup gone)

\* _build_graph refuses an edge whose ends are not both tasks of the agent.
Builds == \A e \in Edges : \E a \in Agents : {e[1], e[2]} \subseteq Enabled(a)

Siblings(n) == Enabled(Home[n]) \ {n}

\* The router has the others as targets; _enable_full_connectivity and
\* _enable_router_connectivity give targets to the other nodes.
RouterGrant(n) == IF n = Router[Home[n]] THEN Siblings(n) ELSE {}

FullGrant(n) == IF Home[n] \in Connected THEN Siblings(n) ELSE {}

BackGrant(n) ==
  IF Home[n] \in RouterBack /\ n # Router[Home[n]] THEN {Router[Home[n]]} ELSE {}

Grant(n) == RouterGrant(n) \cup FullGrant(n) \cup BackGrant(n)

\* What is given to a wrapped agent reaches each of its tasks, after what they
\* were given by their own agent: levels of the chain, from the inside.
Levels(n) == {i \in DOMAIN Chain[n] : Grant(Chain[n][i]) # {}}

\* A task keeps the first transfer_tool...
TaskTargets(n) ==
  IF Levels(n) = {} THEN {}
  ELSE Grant(Chain[n][CHOOSE i \in Levels(n) : \A j \in Levels(n) : j <= i])

\* ... a deep agent merges their targets, and a remote release keeps the last.
DeepTargets(n) == UNION {Grant(Chain[n][i]) : i \in Levels(n)}

RemoteTargets(n) ==
  IF Levels(n) = {} THEN {}
  ELSE Grant(Chain[n][CHOOSE i \in Levels(n) : \A j \in Levels(n) : i <= j])

\* An agent's graph starts with the ENTRY of the agent...
Goes(n) == IF n \in Agents THEN Pos("entry", n) ELSE Pos("task", n)

\* ... and a goto that names no node of it ends it.
Goto(a, n) == IF n \in Enabled(a) THEN Goes(n) ELSE Pos("ends", a)
-----------------------------------------------------------------------------
Init ==
  /\ gone = {} /\ stored = [path |-> <<>>, depth |-> 0] /\ lat = stored
  /\ at = Idle /\ goal = NoTask /\ answered = NoTask

\* _resolve_last_active_task: the client may name the node to start at.  A dict
\* is taken as it is, so its depth may be wrong; clients whose path names nodes
\* that are not one in the other, or unknown ones, are not modelled.
Given ==
  UNION {[path : {Chain[n]}, depth : 0..Len(Chain[n])] : n \in Nodes \ (Disabled \cup gone)}

\* The turn starts from the client's last_active_task or else the session's.
BeginTurn ==
  /\ at = Idle /\ Builds
  /\ \/ lat' = stored /\ UNCHANGED answered
     \/ lat' \in Given /\ answered' = NoTask
  /\ at' = Pos("entry", Top) /\ goal' = NoTask
  /\ UNCHANGED <<gone, stored>>

\* Faulty variant: the depth of the last turn is kept.
EntryKeepsDepth(a) ==
  /\ at = Pos("entry", a)
  /\ LET d    == IF lat.path = <<>> THEN 0 ELSE lat.depth + 1
         path == IF Len(lat.path) < d + 1 THEN Append(lat.path, Router[a]) ELSE lat.path
     IN /\ lat' = [path |-> path, depth |-> d]
        /\ at' = IF d + 1 \in DOMAIN path /\ path[d + 1] \in Enabled(a)
                 THEN Goes(path[d + 1]) ELSE Pos("lost", a)
  /\ UNCHANGED <<gone, stored, goal, answered>>

\* Faulty variant: the router's name was never set.
EntryUnnamed(a) ==
  /\ at = Pos("entry", a)
  /\ LET d    == IF a = Top \/ lat.path = <<>> THEN 0 ELSE lat.depth + 1
         path == IF Len(lat.path) < d + 1 THEN Append(lat.path, NoTask) ELSE lat.path
     IN /\ lat' = [path |-> path, depth |-> d]
        /\ at' = IF d + 1 \in DOMAIN path /\ path[d + 1] \in Enabled(a)
                 THEN Goes(path[d + 1]) ELSE Pos("lost", a)
  /\ UNCHANGED <<gone, stored, goal, answered>>

\* _entry_condition; a name that is not a node of the graph is an error.
Entry(a) ==
  /\ at = Pos("entry", a)
  /\ LET d    == IF a = Top \/ lat.path = <<>> THEN 0 ELSE lat.depth + 1
         path == IF Len(lat.path) < d + 1 THEN Append(lat.path, Router[a]) ELSE lat.path
     IN /\ lat' = [path |-> path, depth |-> d]
        /\ at' = IF d + 1 \in DOMAIN path /\ path[d + 1] \in Enabled(a)
                 THEN Goes(path[d + 1]) ELSE Pos("lost", a)
  /\ UNCHANGED <<gone, stored, goal, answered>>

\* The task answers.
Answer(n) ==
  /\ at = Pos("task", n)
  /\ at' = Pos("ends", n)
  /\ answered' = IF \E e \in Edges : n \in {e[1], e[2]} THEN NoTask ELSE n
  /\ goal' = NoTask /\ UNCHANGED <<gone, stored, lat>>

\* Transfers write the target into the path...
Replace(n, m) ==
  /\ at = Pos("task", n) /\ lat.depth + 1 \in DOMAIN lat.path
  /\ lat' = [lat EXCEPT !.path[lat.depth + 1] = m]
  /\ at' = Goto(Home[n], m)
  /\ goal' = m /\ UNCHANGED <<gone, stored, answered>>

\* ... transfer_tool, which asserts that the target is allowed...
TransferTo(n, m) == n \notin Deep \cup Remote /\ m \in TaskTargets(n) /\ Replace(n, m)

\* ... and deep_agent_transfer, whose answer _detect_transfer does not read.
DeepTransfer(n, m) ==
  n \in Deep /\ m \in (DeepTargets(n) \cup Invented) \ {n} /\ DeepTargets(n) # {} /\ Replace(n, m)

HasTransfer(n) ==
  IF n \in Deep THEN DeepTargets(n) # {} ELSE n \notin Remote /\ TaskTargets(n) # {}

\* The agent whose router a hand-back from agent a is to reach.
Outer(a) == IF a = Top THEN Top ELSE Home[a]

\* Faulty variant: only the task is taken off the path.
ToParentDropsOne(n) ==
  /\ at = Pos("task", n) /\ HasTransfer(n)
  /\ lat' = [lat EXCEPT !.path = SubSeq(@, 1, Len(@) - 1)]
  /\ at' = Pos("router", Home[n])
  /\ goal' = Router[Outer(Home[n])] /\ UNCHANGED <<gone, stored, answered>>

\* <PARENT>: path[:-2].
ToParent(n) ==
  /\ at = Pos("task", n) /\ HasTransfer(n)
  /\ lat' = [lat EXCEPT !.path = SubSeq(@, 1, Len(@) - 2)]
  /\ at' = Pos("router", Home[n])
  /\ goal' = Router[Outer(Home[n])] /\ UNCHANGED <<gone, stored, answered>>

\* <MANUAL_TRANSFER> leaves the path as it is.
ManualTransfer(n) ==
  /\ at = Pos("task", n) /\ HasTransfer(n)
  /\ at' = Pos("router", Home[n])
  /\ goal' = n /\ UNCHANGED <<gone, stored, lat, answered>>

\* A remote release without a valid lastActiveTask has finished.
RemoteFinishes(n) ==
  /\ at = Pos("task", n) /\ n \in Remote
  /\ lat' = [path |-> SubSeq(lat.path, 1, Len(lat.path) - 1), depth |-> lat.depth - 1]
  /\ at' = Pos("ends", n)
  /\ goal' = NoTask /\ answered' = NoTask /\ UNCHANGED <<gone, stored>>

\* One with another last task, at the same depth and allowed, hands off to it.
RemoteHandoff(n, m) ==
  /\ at = Pos("task", n) /\ n \in Remote /\ m \in RemoteTargets(n) /\ lat.path # <<>>
  /\ lat' = [lat EXCEPT !.path[Len(lat.path)] = m]
  /\ at' = Goto(Home[n], m)
  /\ goal' = m /\ UNCHANGED <<gone, stored, answered>>

\* Faulty variant: a restart leads to the parent router.
ParentRouterLoops(a) ==
  /\ at = Pos("router", a)
  /\ \/ /\ lat.path = <<>> /\ lat.depth = 0
        /\ UNCHANGED <<at, lat>>
     \/ /\ ~(lat.path = <<>> /\ lat.depth = 0) /\ Len(lat.path) < lat.depth + 1
        /\ lat' = [lat EXCEPT !.depth = @ - 1]
        /\ at' = IF a = Top THEN Pos("lost", a) ELSE Pos("router", Home[a])
     \/ /\ Len(lat.path) >= lat.depth + 1 /\ lat.path # <<>>
        /\ at' = Goto(a, lat.path[Len(lat.path)]) /\ UNCHANGED lat
  /\ UNCHANGED <<gone, stored, goal, answered>>

\* parent_router_node: restart, go up, or go to the end of the path.
ParentRouter(a) ==
  /\ at = Pos("router", a)
  /\ \/ /\ lat.path = <<>> /\ lat.depth = 0
        /\ at' = Pos("entry", a) /\ UNCHANGED lat
     \/ /\ ~(lat.path = <<>> /\ lat.depth = 0) /\ Len(lat.path) < lat.depth + 1
        /\ lat' = [lat EXCEPT !.depth = @ - 1]
        /\ at' = IF a = Top THEN Pos("lost", a) ELSE Pos("router", Home[a])
     \/ /\ Len(lat.path) >= lat.depth + 1 /\ lat.path # <<>>
        /\ at' = Goto(a, lat.path[Len(lat.path)]) /\ UNCHANGED lat
  /\ UNCHANGED <<gone, stored, goal, answered>>

\* A node has ended: on along a workflow edge, or else its agent has ended.
FollowEdge(n) ==
  /\ at = Pos("ends", n)
  /\ \E e \in Edges : e[1] = n /\ at' = Goes(e[2])
  /\ UNCHANGED <<gone, stored, lat, goal, answered>>

AgentEnds(n) ==
  /\ at = Pos("ends", n) /\ n # Top
  /\ \A e \in Edges : e[1] # n
  /\ at' = Pos("ends", Home[n])
  /\ UNCHANGED <<gone, stored, lat, goal, answered>>

\* Faulty variant: what the turn started from is stored again.
TurnEndsUnsaved ==
  /\ at = Pos("ends", Top)
  /\ at' = Idle
  /\ UNCHANGED <<gone, stored, lat, goal, answered>>

\* _finalize_execution
TurnEnds ==
  /\ at = Pos("ends", Top)
  /\ stored' = lat /\ at' = Idle
  /\ UNCHANGED <<gone, lat, goal, answered>>

\* A model, a tool or the graph raises: the session keeps what it had.
TurnFails ==
  /\ at.kind \in {"task", "lost"}
  /\ at' = Idle /\ goal' = NoTask /\ answered' = NoTask
  /\ UNCHANGED <<gone, stored, lat>>

\* The next turn of the session is for another version of the agent, or for
\* another agent: _reconstruct_from_session keeps the state.
SwitchAgent ==
  /\ at = Idle /\ Retired # {}
  /\ gone' = IF gone = {} THEN Retired ELSE {}
  /\ answered' = NoTask
  /\ UNCHANGED <<stored, lat, at, goal>>

Act(n) ==
  \/ Answer(n) \/ ToParent(n) \/ ManualTransfer(n) \/ RemoteFinishes(n)
  \/ \E m \in Nodes \cup Invented : TransferTo(n, m) \/ DeepTransfer(n, m) \/ RemoteHandoff(n, m)

Route ==
  \/ \E a \in Agents : Entry(a) \/ ParentRouter(a)
  \/ \E n \in Nodes : FollowEdge(n) \/ AgentEnds(n)
  \/ TurnEnds

Next == BeginTurn \/ TurnFails \/ Route \/ \E n \in Tasks : Act(n)

Spec == Init /\ [][Next]_vars

\* The graph runs on; the models and the clients need not.
FairSpec == Spec /\ WF_vars(Route)

\* The session goes on with another version of the agent.
SwitchSpec == Init /\ [][Next \/ SwitchAgent]_vars
-----------------------------------------------------------------------------
(* Agents that the claims below need.  The code builds others.             *)

\* Workflow edges lead to tasks, and from tasks that leave the path as it is: a
\* remote release that finishes shortens it.
EdgesJoinTasks == \A e \in Edges : e[1] \notin Remote /\ e[2] \in Tasks

\* No agent's tasks transfer beyond their agent: what is given to a wrapped
\* agent reaches tasks inside that have no such node.
TransfersStayInside ==
  /\ Invented = {}
  /\ \A a \in Agents \ {Top} : Home[a] \notin Connected \cup RouterBack
  /\ \A e \in Edges : Home[e[2]] \notin Connected \cup RouterBack /\ e[2] # Router[Home[e[2]]]
-----------------------------------------------------------------------------
(* Properties.                                                             *)

TypeOK ==
  /\ gone \subseteq Nodes
  /\ stored.path \in Seq(Nodes \cup Invented) /\ stored.depth \in Int
  /\ lat.path \in Seq(Nodes \cup Invented) /\ lat.depth \in Int
  /\ at \in [kind : Kinds, node : Nodes \cup {Top, NoTask}]
  /\ goal \in Nodes \cup Invented \cup {NoTask} /\ answered \in Tasks \cup {NoTask}

\* The nodes that a workflow edge leads to, directly or not.
Sequel(n) == \E e \in Edges : e[2] \in {Chain[n][i] : i \in DOMAIN Chain[n]}

\* While a task runs the path leads to it, level by level, and depth is its
\* level: every transfer then writes its own level's entry of the path.
PathLeadsToTask ==
  at.kind = "task" /\ ~Sequel(at.node) =>
    lat.path = Chain[at.node] /\ lat.depth = Len(lat.path) - 1

\* A transfer that was reported to the model leads to the task it names, a
\* hand-back to the router of the agent around: on the way no agent ends, the
\* turn does not, and no entry gets a name that is not a node (agent.py:420).
TransferArrives ==
  goal # NoTask =>
    /\ at.kind = "task" => \E i \in DOMAIN Chain[at.node] : Chain[at.node][i] = goal
    /\ at.kind \notin {"ends", "idle", "lost"}

\* What a turn leaves is a task that the next one knows.
EntryKnowsTask == at.kind # "lost"

\* A turn resumes the task that answered the turn before.
ResumesTask ==
  at.kind = "task" /\ goal = NoTask /\ answered # NoTask => at.node = answered

\* Between two tasks the graph takes finitely many steps: entries and parent
\* routers do not send a turn around for ever.
RoutingEnds == at.kind \in {"entry", "router", "ends"} ~> at.kind \in {"task", "idle", "lost"}
=============================================================================
