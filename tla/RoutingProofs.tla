---------------------------- MODULE RoutingProofs ----------------------------
(***************************************************************************)
(* For any nesting of agents and any number of turns: the types, that      *)
(* transfers, hand-backs and parent routers keep path and depth on the     *)
(* task that runs, that transfers arrive and that turns resume.            *)
(***************************************************************************)
EXTENDS Routing, TLAPS, SequenceTheorems, WellFoundedInduction

Ids == Nodes \cup Invented

Last == [path : Seq(Ids), depth : Int]

RouteTypes ==
  /\ gone \in {{}, Retired} /\ stored \in Last /\ lat \in Last
  /\ at \in [kind : Kinds, node : Nodes \cup {Top, NoTask}]
  /\ goal \in Ids \cup {NoTask} /\ answered \in Tasks \cup {NoTask}

\* The path to node x of agent a, which x may be no node of.
To(a, x) == Append(Chain[a], x)

Within(a, path) == \E x \in Ids : path = To(a, x)

LeadsIn(path) == path = <<>> \/ \E a \in Agents : Within(a, path)

Level(a) == Len(Chain[a])

\* A path that leads through agent a, or to it.
Passes(a, path) == \A i \in 1..Level(a) : i \in 1..Len(path) /\ path[i] = Chain[a][i]

-----------------------------------------------------------------------------
(* Chains.                                                                 *)

LEMMA LeastNat ==
  ASSUME NEW T \in SUBSET Nat, T # {}
  PROVE  \E n \in T : \A m \in T : n <= m
<1> DEFINE R == OpToRel(<, Nat)
<1>1. IsWellFoundedOn(R, Nat)
  BY NatLessThanWellFounded
<1>2. \A m, n \in Nat : m < n => <<m, n>> \in R
  BY DEF R, OpToRel
<1> HIDE DEF R
<1>3. PICK n \in T : \A m \in T : ~ (<<m, n>> \in R)
  BY <1>1, WFMin
<1>4. \A m \in T : ~(m < n)
  BY <1>2, <1>3
<1> QED BY <1>3, <1>4

LEMMA NodesTyped ==
  /\ Router \in [Agents -> Tasks] /\ \A a \in Agents : Home[Router[a]] = a
  /\ \A n \in Nodes : Home[n] \in Agents
  /\ Agents \subseteq Nodes \cup {Top} /\ Tasks \subseteq Nodes
  /\ Top \notin Nodes
BY RoutingAssumption DEF Nodes

LEMMA ChainTyped ==
  /\ \A n \in Nodes \cup {Top} : Chain[n] \in Seq(Nodes) /\ Level(n) \in Nat
  /\ \A n \in Nodes : Chain[n] = To(Home[n], n)
  /\ Level(Top) = 0
<1>1. \A n \in Nodes \cup {Top} : Chain[n] \in Seq(Nodes)
  BY RoutingAssumption
<1> QED BY <1>1, EmptySeq, LenProperties, RoutingAssumption DEF Level, To

\* What is appended to a chain comes after it.
LEMMA ToNode ==
  ASSUME NEW a \in Agents, NEW x \in Ids
  PROVE  /\ To(a, x) \in Seq(Ids) /\ Len(To(a, x)) = Level(a) + 1
         /\ To(a, x)[Level(a) + 1] = x
         /\ \A i \in 1..Level(a) : To(a, x)[i] = Chain[a][i]
         /\ Within(a, To(a, x)) /\ LeadsIn(To(a, x))
<1>1. Chain[a] \in Seq(Nodes) /\ Level(a) \in Nat
  BY ChainTyped, NodesTyped
<1>2. Chain[a] \in Seq(Ids)
  BY <1>1, SeqMonotonic DEF Ids
<1> QED BY <1>1, <1>2, AppendProperties DEF Level, Within, LeadsIn, To

LEMMA ChainEnds ==
  ASSUME NEW n \in Nodes
  PROVE  /\ Level(n) = Level(Home[n]) + 1 /\ Chain[n][Level(n)] = n
         /\ \A i \in 1..Level(Home[n]) : Chain[n][i] = Chain[Home[n]][i]
         /\ Within(Home[n], Chain[n])
<1>1. Chain[n] = To(Home[n], n) /\ Home[n] \in Agents /\ n \in Ids
  BY ChainTyped, NodesTyped DEF Ids
<1>2. Level(n) = Level(Home[n]) + 1
  BY <1>1, ToNode DEF Level
<1> QED BY <1>1, <1>2, ToNode

LEMMA TopChain ==
  ASSUME NEW a \in Agents, Level(a) = 0 \/ Chain[a] = <<>>
  PROVE  a = Top
BY ChainEnds, ChainTyped, NodesTyped, EmptySeq DEF Level

\* Agents are nodes of agents only.
OddAgents == {b \in Agents : \E i \in 1..Level(b) : Chain[b][i] \notin Agents \ {Top}}

LEMMA AgentsAround ==
  \A b \in Agents : \A i \in 1..Level(b) : Chain[b][i] \in Agents \ {Top}
<1> SUFFICES ASSUME OddAgents # {} PROVE FALSE
  BY DEF OddAgents
<1> DEFINE T == {Level(b) : b \in OddAgents}
<1>1. T \in SUBSET Nat /\ T # {}
  <2>1. \A b \in OddAgents : Level(b) \in Nat
    BY ChainTyped, NodesTyped DEF OddAgents
  <2> QED BY <2>1
<1>2. PICK m \in T : \A k \in T : m <= k
  BY <1>1, LeastNat
<1>3. PICK b \in OddAgents : \A c \in OddAgents : Level(b) <= Level(c)
  BY <1>2
<1> HIDE DEF T
<1>4. PICK i \in 1..Level(b) : Chain[b][i] \notin Agents \ {Top}
  BY <1>3 DEF OddAgents
<1>5. b \in Agents /\ b \in Nodes \cup {Top} /\ Level(b) \in Nat
  BY <1>3, ChainTyped, NodesTyped DEF OddAgents
<1>6. b # Top
  BY <1>4, ChainTyped
<1>7. b \in Nodes /\ Home[b] \in Agents /\ Level(Home[b]) \in Nat
  BY <1>5, <1>6, ChainTyped, NodesTyped
<1>8. /\ Level(b) = Level(Home[b]) + 1 /\ Chain[b][Level(b)] = b
      /\ \A j \in 1..Level(Home[b]) : Chain[b][j] = Chain[Home[b]][j]
  BY <1>7, ChainEnds
<1>9. i \in 1..Level(Home[b])
  BY <1>4, <1>5, <1>6, <1>7, <1>8
<1>10. Home[b] \in OddAgents
  BY <1>4, <1>7, <1>8, <1>9 DEF OddAgents
<1> QED BY <1>3, <1>7, <1>8, <1>10

\* Chains differ.
LEMMA ChainInjective ==
  ASSUME NEW m \in Nodes \cup {Top}, NEW n \in Nodes \cup {Top}, Chain[m] = Chain[n]
  PROVE  m = n
<1>1. Level(m) = Level(n)
  BY DEF Level
<1>2. \A k \in Nodes : Level(k) # 0
  <2> TAKE k \in Nodes
  <2>1. Level(k) = Level(Home[k]) + 1 /\ Level(Home[k]) \in Nat
    BY ChainEnds, ChainTyped, NodesTyped
  <2> QED BY <2>1
<1>3. CASE Level(m) = 0
  BY <1>1, <1>2, <1>3
<1>4. CASE Level(m) # 0
  <2>1. m \in Nodes /\ n \in Nodes
    BY <1>1, <1>4, ChainTyped
  <2>2. Chain[m][Level(m)] = m /\ Chain[n][Level(n)] = n
    BY <2>1, ChainEnds
  <2> QED BY <1>1, <2>2
<1> QED BY <1>3, <1>4

-----------------------------------------------------------------------------
(* What the turn does with a path.                                         *)

LEMMA WithinFacts ==
  ASSUME NEW a \in Agents, NEW path, Within(a, path)
  PROVE  /\ path \in Seq(Ids) /\ Len(path) = Level(a) + 1 /\ path # <<>>
         /\ path[Level(a) + 1] \in Ids /\ path = To(a, path[Level(a) + 1])
         /\ Passes(a, path) /\ LeadsIn(path)
         /\ Level(a) \in Nat /\ DOMAIN path = 1..Level(a) + 1
<1>1. PICK x \in Ids : path = To(a, x)
  BY DEF Within
<1>2. Level(a) \in Nat
  BY ChainTyped, NodesTyped
<1>3. path \in Seq(Ids) /\ Len(path) = Level(a) + 1 /\ path[Level(a) + 1] = x
  BY <1>1, ToNode
<1>4. Passes(a, path)
  BY <1>1, <1>2, <1>3, ToNode DEF Passes
<1> QED BY <1>1, <1>2, <1>3, <1>4, LenProperties, EmptySeq DEF LeadsIn

LEMMA Overwrite ==
  ASSUME NEW a \in Agents, NEW path, Within(a, path), NEW m \in Ids
  PROVE  [path EXCEPT ![Level(a) + 1] = m] = To(a, m)
<1> DEFINE new == [path EXCEPT ![Level(a) + 1] = m]
<1>1. /\ path \in Seq(Ids) /\ Len(path) = Level(a) + 1 /\ Level(a) \in Nat
      /\ \A i \in 1..Level(a) : path[i] = Chain[a][i]
  BY WithinFacts DEF Passes
<1>2. /\ new \in Seq(Ids) /\ Len(new) = Level(a) + 1
      /\ \A j \in 1..Level(a) + 1 : new[j] = IF j = Level(a) + 1 THEN m ELSE path[j]
  BY <1>1, ExceptSeq
<1> HIDE DEF new
<1>3. \A j \in 1..Level(a) + 1 : new[j] = To(a, m)[j]
  BY <1>1, <1>2, ToNode
<1>4. To(a, m) \in Seq(Ids) /\ Len(To(a, m)) = Level(a) + 1
  BY ToNode
<1>5. new = To(a, m)
  BY <1>2, <1>3, <1>4, SeqEqual
<1> QED BY <1>5 DEF new

LEMMA Prefix ==
  ASSUME NEW a \in Agents, NEW path \in Seq(Ids), Passes(a, path)
  PROVE  SubSeq(path, 1, Level(a)) = Chain[a]
<1> DEFINE new == SubSeq(path, 1, Level(a))
<1>1. Level(a) \in Nat /\ Chain[a] \in Seq(Nodes) /\ Len(Chain[a]) = Level(a)
  BY ChainTyped, NodesTyped DEF Level
<1>2. \A i \in 1..Level(a) : path[i] = Chain[a][i] /\ Chain[a][i] \in Nodes
  BY <1>1, ElementOfSeq DEF Passes
<1>3. /\ new \in Seq(Nodes) /\ Len(new) = Level(a)
      /\ \A i \in 1..Level(a) : new[i] = path[i]
  <2>1. 1 \in Int /\ Level(a) \in Int /\ \A i \in 1..Level(a) : path[i] \in Nodes
    BY <1>1, <1>2
  <2>2. /\ new \in Seq(Nodes)
        /\ Len(new) = IF 1 <= Level(a) THEN Level(a) - 1 + 1 ELSE 0
        /\ \A i \in 1..Level(a) - 1 + 1 : new[i] = path[1 + i - 1]
    BY <2>1, SubSeqProperties
  <2>3. \A i \in 1..Level(a) : new[i] = path[i]
    BY <1>1, <2>2
  <2> QED BY <1>1, <2>2, <2>3
<1> HIDE DEF new
<1>4. new = Chain[a]
  BY <1>1, <1>2, <1>3, SeqEqual
<1> QED BY <1>4 DEF new

LEMMA DropOne ==
  ASSUME NEW a \in Agents, NEW path, Within(a, path)
  PROVE  SubSeq(path, 1, Len(path) - 1) = Chain[a]
<1>1. path \in Seq(Ids) /\ Len(path) = Level(a) + 1 /\ Level(a) \in Nat /\ Passes(a, path)
  BY WithinFacts
<1>2. Len(path) - 1 = Level(a)
  BY <1>1
<1> QED BY <1>1, <1>2, Prefix

LEMMA PassesHome ==
  ASSUME NEW a \in Agents, a # Top, NEW path, Passes(a, path)
  PROVE  /\ a \in Nodes /\ Home[a] \in Agents /\ Passes(Home[a], path)
         /\ Level(a) = Level(Home[a]) + 1 /\ Level(Home[a]) \in Nat
<1>1. a \in Nodes /\ Home[a] \in Agents
  BY NodesTyped
<1>2. Level(Home[a]) \in Nat /\ Level(a) = Level(Home[a]) + 1
  BY <1>1, ChainTyped, NodesTyped, ChainEnds
<1>3. \A i \in 1..Level(Home[a]) : Chain[a][i] = Chain[Home[a]][i] /\ i \in 1..Level(a)
  BY <1>1, <1>2, ChainEnds
<1> QED BY <1>1, <1>2, <1>3 DEF Passes

LEMMA DropTwo ==
  ASSUME NEW a \in Agents, NEW path, Within(a, path)
  PROVE  SubSeq(path, 1, Len(path) - 2) = IF a = Top THEN Chain[Top] ELSE Chain[Home[a]]
<1>1. path \in Seq(Ids) /\ Len(path) = Level(a) + 1 /\ Level(a) \in Nat /\ Passes(a, path)
  BY WithinFacts
<1>2. CASE a = Top
  <2>1. 1 \in Int /\ Len(path) - 2 \in Int /\ Len(path) - 2 < 1
    BY <1>1, <1>2, ChainTyped
  <2>2. SubSeq(path, 1, Len(path) - 2) = <<>>
    BY <2>1, SubSeqEmpty
  <2> QED BY <1>2, <2>2, RoutingAssumption
<1>3. CASE a # Top
  <2>1. Home[a] \in Agents /\ Passes(Home[a], path) /\ Len(path) - 2 = Level(Home[a])
    BY <1>1, <1>3, PassesHome
  <2> QED BY <1>1, <1>3, <2>1, Prefix
<1> QED BY <1>2, <1>3

\* A path that leads through an agent and is no longer than its chain is it.
LEMMA PassesAll ==
  ASSUME NEW a \in Agents, NEW path \in Seq(Ids), Passes(a, path), Len(path) < Level(a) + 1
  PROVE  path = Chain[a]
<1>1. Level(a) \in Nat /\ Len(path) \in Nat
  BY ChainTyped, NodesTyped, LenProperties
<1>2. Level(a) <= Len(path)
  BY <1>1 DEF Passes
<1>3. Len(path) = Level(a)
  BY <1>1, <1>2
<1> QED BY <1>3, Prefix, SubSeqFull

LEMMA PassesOn ==
  ASSUME NEW n \in Agents \ {Top}, NEW path \in Seq(Ids), Passes(Home[n], path),
         Level(Home[n]) + 1 \in 1..Len(path), path[Level(Home[n]) + 1] = n
  PROVE  Passes(n, path)
<1>1. n \in Nodes /\ Home[n] \in Agents /\ Level(Home[n]) \in Nat
  BY ChainTyped, NodesTyped
<1>2. Level(n) = Level(Home[n]) + 1 /\ Chain[n][Level(n)] = n
  BY <1>1, ChainEnds
<1>3. \A i \in 1..Level(Home[n]) : Chain[n][i] = Chain[Home[n]][i]
  BY <1>1, ChainEnds
<1> QED BY <1>1, <1>2, <1>3 DEF Passes

\* A path does not go on behind a task.
LEMMA TaskIsLast ==
  ASSUME NEW a \in Agents, NEW path, LeadsIn(path), Passes(a, path),
         Level(a) + 1 \in 1..Len(path), path[Level(a) + 1] \in Tasks
  PROVE  Within(a, path)
<1>1. Level(a) \in Nat
  BY ChainTyped, NodesTyped
<1>2. path # <<>>
  BY <1>1, EmptySeq
<1>3. PICK b \in Agents : Within(b, path)
  BY <1>2 DEF LeadsIn
<1>4. /\ path \in Seq(Ids) /\ Len(path) = Level(b) + 1 /\ Level(b) \in Nat
      /\ Passes(b, path) /\ path[Level(b) + 1] \in Ids /\ path = To(b, path[Level(b) + 1])
  BY <1>3, WithinFacts
<1>5. ~(Level(a) + 1 \in 1..Level(b))
  BY AgentsAround, RoutingAssumption, <1>4 DEF Passes
<1>6. Level(a) = Level(b)
  BY <1>1, <1>4, <1>5
<1>7. Chain[a] = Chain[b]
  BY <1>4, <1>6, Prefix
<1>8. a = b
  BY <1>7, ChainInjective, NodesTyped
<1> QED BY <1>3, <1>8

LEMMA ChainLeadsIn ==
  ASSUME NEW n \in Nodes \cup {Top}
  PROVE  LeadsIn(Chain[n])
<1>1. CASE n = Top
  BY <1>1, RoutingAssumption DEF LeadsIn
<1>2. CASE n \in Nodes
  BY <1>2, ChainEnds, NodesTyped DEF LeadsIn
<1> QED BY <1>1, <1>2

-----------------------------------------------------------------------------
(* Types.                                                                  *)

LEMMA LastTyped ==
  ASSUME NEW l \in Last
  PROVE  /\ l.path \in Seq(Ids) /\ l.depth \in Int /\ Len(l.path) \in Nat
         /\ DOMAIN l.path = 1..Len(l.path)
         /\ \A n \in Nat : SubSeq(l.path, 1, Len(l.path) - n) \in Seq(Ids)
         /\ \A p \in Seq(Ids) : [l EXCEPT !.path = p] \in Last
         /\ \A i \in DOMAIN l.path, m \in Ids : [l EXCEPT !.path[i] = m] \in Last
         /\ \A m \in Ids : Append(l.path, m) \in Seq(Ids)
<1>1. l.path \in Seq(Ids) /\ l.depth \in Int
  BY DEF Last
<1>2. Len(l.path) \in Nat /\ DOMAIN l.path = 1..Len(l.path)
  BY <1>1, LenProperties
<1>3. ASSUME NEW n \in Nat
      PROVE  SubSeq(l.path, 1, Len(l.path) - n) \in Seq(Ids)
  <2>1. \A i \in 1..Len(l.path) - n : l.path[i] \in Ids
    BY <1>1, <1>2, <1>3, ElementOfSeq
  <2>2. 1 \in Int /\ Len(l.path) - n \in Int
    BY <1>2
  <2> QED BY <2>1, <2>2, SubSeqProperties
<1>4. ASSUME NEW i \in DOMAIN l.path, NEW m \in Ids
      PROVE  [l EXCEPT !.path[i] = m] \in Last
  <2>1. [l.path EXCEPT ![i] = m] \in Seq(Ids)
    BY <1>1, <1>2, ExceptSeq
  <2> QED BY <2>1 DEF Last
<1>5. \A m \in Ids : Append(l.path, m) \in Seq(Ids)
  BY <1>1, AppendProperties
<1>6. \A p \in Seq(Ids) : [l EXCEPT !.path = p] \in Last
  BY DEF Last
<1> QED BY <1>1, <1>2, <1>3, <1>4, <1>5, <1>6

LEMMA PosTyped ==
  /\ \A k \in Kinds, n \in Nodes \cup {Top, NoTask} : Pos(k, n) \in [kind : Kinds, node : Nodes \cup {Top, NoTask}]
  /\ \A n \in Nodes : Goes(n) \in [kind : Kinds, node : Nodes \cup {Top, NoTask}]
  /\ \A a \in Agents, m \in Ids : Goto(a, m) \in [kind : Kinds, node : Nodes \cup {Top, NoTask}]
  /\ \A a : Enabled(a) \subseteq Nodes
BY NodesTyped DEF Pos, Kinds, Goes, Goto, Enabled

LEMMA TypesInit == Init => RouteTypes
<1>1. <<>> \in Seq(Ids)
  BY EmptySeq
<1> QED BY <1>1 DEF Init, RouteTypes, Last, Idle, Pos, Kinds

LEMMA TypesTask ==
  ASSUME RouteTypes, NEW n \in Tasks, Act(n)
  PROVE  RouteTypes'
<1> USE DEF RouteTypes
<1>1. n \in Nodes /\ Home[n] \in Agents /\ Nodes \subseteq Ids
  BY NodesTyped DEF Ids
<1>2. CASE Answer(n)
  BY <1>1, <1>2, PosTyped DEF Answer, Kinds
<1>3. \A i \in Nat : [lat EXCEPT !.path = SubSeq(lat.path, 1, Len(lat.path) - i)] \in Last
  BY LastTyped
<1>4. Router[Outer(Home[n])] \in Ids
  BY <1>1, NodesTyped DEF Outer
<1>5. CASE ToParent(n)
  <2>1. lat' \in Last
    BY <1>3, <1>5 DEF ToParent
  <2> QED BY <1>1, <1>4, <1>5, <2>1, PosTyped, NodesTyped DEF ToParent, Kinds
<1>6. CASE ManualTransfer(n)
  BY <1>1, <1>6, PosTyped, NodesTyped DEF ManualTransfer, Kinds
<1>7. CASE RemoteFinishes(n)
  <2>1. SubSeq(lat.path, 1, Len(lat.path) - 1) \in Seq(Ids) /\ lat.depth - 1 \in Int
    BY LastTyped
  <2>2. lat' \in Last
    BY <1>7, <2>1 DEF RemoteFinishes, Last
  <2> QED BY <1>1, <1>7, <2>2, PosTyped DEF RemoteFinishes, Kinds
<1>8. ASSUME NEW m \in Ids, Replace(n, m) \/ RemoteHandoff(n, m)
      PROVE  RouteTypes'
  <2>1. Goto(Home[n], m) \in [kind : Kinds, node : Nodes \cup {Top, NoTask}]
    BY <1>1, PosTyped
  <2>2. lat' \in Last
    <3>1. lat.path # <<>> => Len(lat.path) \in DOMAIN lat.path
      BY LastTyped, EmptySeq
    <3> QED BY <1>8, <3>1, LastTyped DEF Replace, RemoteHandoff
  <2> QED BY <1>8, <2>1, <2>2 DEF Replace, RemoteHandoff
<1>9. CASE \E m \in Ids : TransferTo(n, m) \/ DeepTransfer(n, m) \/ RemoteHandoff(n, m)
  BY <1>8, <1>9 DEF TransferTo, DeepTransfer
<1> QED BY <1>2, <1>5, <1>6, <1>7, <1>9 DEF Act, Ids

LEMMA TypesRoute ==
  ASSUME RouteTypes, Route
  PROVE  RouteTypes'
<1> USE DEF RouteTypes
<1>1. ASSUME NEW a \in Agents, Entry(a)
      PROVE  RouteTypes'
  <2> DEFINE d    == IF a = Top \/ lat.path = <<>> THEN 0 ELSE lat.depth + 1
             path == IF Len(lat.path) < d + 1 THEN Append(lat.path, Router[a]) ELSE lat.path
  <2>1. Router[a] \in Ids /\ a \in Nodes \cup {Top}
    BY NodesTyped DEF Ids
  <2>2. d \in Int /\ path \in Seq(Ids)
    BY <2>1, LastTyped
  <2>3. lat' = [path |-> path, depth |-> d]
    BY <1>1 DEF Entry
  <2>4. \/ \E m \in Enabled(a) : at' = Goes(m)
        \/ at' = Pos("lost", a)
    BY <1>1 DEF Entry
  <2>5. at' \in [kind : Kinds, node : Nodes \cup {Top, NoTask}]
    BY <2>1, <2>4, PosTyped DEF Kinds
  <2>6. lat' \in Last
    BY <2>2, <2>3 DEF Last
  <2> QED BY <1>1, <2>5, <2>6 DEF Entry
<1>2. ASSUME NEW a \in Agents, ParentRouter(a)
      PROVE  RouteTypes'
  <2>1. /\ a \in Nodes \cup {Top}
        /\ a # Top => Home[a] \in Nodes \cup {Top}
    BY NodesTyped
  <2>2. \/ at' = Pos("entry", a) /\ lat' = lat
        \/ at' = Pos("lost", a) /\ lat' = [lat EXCEPT !.depth = @ - 1]
        \/ a # Top /\ at' = Pos("router", Home[a]) /\ lat' = [lat EXCEPT !.depth = @ - 1]
        \/ lat.path # <<>> /\ at' = Goto(a, lat.path[Len(lat.path)]) /\ lat' = lat
    BY <1>2 DEF ParentRouter
  <2>3. lat' \in Last
    BY <2>2 DEF Last
  <2>4. lat.path # <<>> => lat.path[Len(lat.path)] \in Ids
    BY LastTyped, EmptySeq, ElementOfSeq
  <2>5. at' \in [kind : Kinds, node : Nodes \cup {Top, NoTask}]
    BY <2>1, <2>2, <2>4, PosTyped DEF Kinds
  <2> QED BY <1>2, <2>3, <2>5 DEF ParentRouter
<1>3. ASSUME NEW n \in Nodes, FollowEdge(n)
      PROVE  RouteTypes'
  <2>1. \A e \in Edges : e[2] \in Nodes
    BY RoutingAssumption
  <2> QED BY <1>3, <2>1, PosTyped DEF FollowEdge
<1>4. ASSUME NEW n \in Nodes, AgentEnds(n)
      PROVE  RouteTypes'
  BY <1>4, PosTyped, NodesTyped DEF AgentEnds, Kinds
<1>5. CASE TurnEnds
  BY <1>5, PosTyped DEF TurnEnds, Idle, Kinds
<1> QED BY <1>1, <1>2, <1>3, <1>4, <1>5 DEF Route

LEMMA TypesStep ==
  ASSUME RouteTypes, [Next \/ SwitchAgent]_vars
  PROVE  RouteTypes'
<1> USE DEF RouteTypes
<1>1. CASE BeginTurn
  <2>1. ASSUME NEW n \in Nodes
        PROVE  [path : {Chain[n]}, depth : 0..Len(Chain[n])] \subseteq Last
    <3>1. Chain[n] \in Seq(Ids)
      BY ChainTyped, SeqMonotonic DEF Ids
    <3>2. 0..Len(Chain[n]) \subseteq Int
      BY <3>1, LenProperties
    <3> QED BY <3>1, <3>2 DEF Last
  <2>2. Given \subseteq Last
    BY <2>1 DEF Given
  <2>3. lat' \in Last
    BY <1>1, <2>2 DEF BeginTurn
  <2> QED BY <1>1, <2>3, PosTyped DEF BeginTurn, Kinds
<1>2. CASE TurnFails
  BY <1>2, PosTyped DEF TurnFails, Idle, Kinds
<1>3. CASE SwitchAgent
  BY <1>3, RoutingAssumption DEF SwitchAgent
<1>4. CASE UNCHANGED vars
  BY <1>4 DEF vars
<1> QED BY <1>1, <1>2, <1>3, <1>4, TypesTask, TypesRoute DEF Next

-----------------------------------------------------------------------------
(* The path.  While a task runs, depth is its level and the path ends      *)
(* there; it is the task's own but after a workflow edge.  What an entry   *)
(* gets leads through its agent; what a parent router gets ends at most    *)
(* one level above.  An edge is not followed from a path that ends         *)
(* elsewhere.                                                              *)

AtTask(n) ==
  /\ Within(Home[n], lat.path) /\ lat.depth = Level(Home[n])
  /\ lat.path = Chain[n] \/ \E e \in Edges : e[2] = n

AtEntry(a) ==
  /\ LeadsIn(lat.path) /\ Passes(a, lat.path)
  /\ a # Top => lat.depth = Level(Home[a])

AtRouter(a) ==
  /\ lat.depth = Level(a)
  /\ \/ Within(a, lat.path)
     \/ lat.path = Chain[a]
     \/ a # Top /\ lat.path = Chain[Home[a]]

AtEnd(n) ==
  /\ LeadsIn(lat.path)
  /\ n \in Tasks \ Remote => Within(Home[n], lat.path) /\ lat.depth = Level(Home[n])

PathInv ==
  /\ LeadsIn(stored.path)
  /\ at # Idle => Builds
  /\ at.kind = "task" => at.node \in Tasks /\ AtTask(at.node)
  /\ at.kind = "entry" => at.node \in Agents /\ AtEntry(at.node)
  /\ at.kind = "router" => at.node \in Agents /\ AtRouter(at.node)
  /\ at.kind = "ends" => at.node \in Nodes \cup {Top} /\ AtEnd(at.node)

LEMMA PosKinds ==
  /\ \A k, n : Pos(k, n).kind = k /\ Pos(k, n).node = n
  /\ \A n : n \in Agents => Goes(n).kind = "entry" /\ Goes(n).node = n
  /\ \A n : n \in Tasks => Goes(n).kind = "task" /\ Goes(n).node = n
  /\ Idle.kind = "idle"
BY RoutingAssumption DEF Pos, Goes, Idle

LEMMA EnabledHome == \A a, n : n \in Enabled(a) => n \in Nodes /\ Home[n] = a
BY DEF Enabled

\* The turn goes to a node whose path it has written.
LEMMA ArrivesAt ==
  ASSUME NEW a \in Agents, NEW m \in Ids, lat'.path = To(a, m), lat'.depth = Level(a),
         LeadsIn(stored'.path), Builds', at' = Goto(a, m)
  PROVE  PathInv'
<1>1. LeadsIn(To(a, m)) /\ Within(a, To(a, m))
  BY ToNode
<1>2. CASE m \notin Enabled(a)
  <2>1. at' = Pos("ends", a) /\ at'.kind = "ends" /\ at'.node = a
    BY <1>2, PosKinds DEF Goto
  <2>2. a \in Nodes \cup {Top} /\ a \notin Tasks
    BY NodesTyped, RoutingAssumption
  <2> QED BY <1>1, <2>1, <2>2 DEF PathInv, AtEnd
<1>3. CASE m \in Enabled(a)
  <2>1. m \in Nodes /\ Home[m] = a /\ Chain[m] = To(a, m) /\ at' = Goes(m)
    BY <1>3, EnabledHome, ChainTyped DEF Goto
  <2>2. CASE m \in Tasks
    <3>1. at'.kind = "task" /\ at'.node = m
      BY <2>1, <2>2, PosKinds
    <3>2. AtTask(m)'
      BY <1>1, <2>1 DEF AtTask
    <3> QED BY <2>2, <3>1, <3>2 DEF PathInv
  <2>3. CASE m \in Agents
    <3>1. at'.kind = "entry" /\ at'.node = m
      BY <2>1, <2>3, PosKinds
    <3>2. Passes(a, To(a, m)) /\ To(a, m) \in Seq(Ids) /\ Len(To(a, m)) = Level(a) + 1
          /\ To(a, m)[Level(a) + 1] = m /\ Level(a) \in Nat
      BY <1>1, WithinFacts, ToNode
    <3>3. m \in Agents \ {Top} /\ Level(a) + 1 \in 1..Len(To(a, m))
      BY <2>1, <2>3, <3>2, NodesTyped
    <3>4. Passes(m, To(a, m))
      BY <2>1, <3>2, <3>3, PassesOn
    <3>5. AtEntry(m)'
      BY <1>1, <2>1, <3>4 DEF AtEntry
    <3> QED BY <2>3, <3>1, <3>5 DEF PathInv
  <2> QED BY <2>1, <2>2, <2>3 DEF Nodes
<1> QED BY <1>2, <1>3

LEMMA PathTask ==
  ASSUME RouteTypes, PathInv, NEW n \in Tasks, Act(n)
  PROVE  PathInv'
<1>1. n \in Nodes /\ Home[n] \in Agents /\ n \notin Agents
  BY NodesTyped, RoutingAssumption
<1>2. at = Pos("task", n) /\ stored' = stored /\ gone' = gone
  BY DEF Act, Answer, ToParent, ManualTransfer, RemoteFinishes, TransferTo, DeepTransfer,
         RemoteHandoff, Replace
<1>3. AtTask(n) /\ at # Idle
  BY <1>2, PosKinds DEF PathInv
<1>4. LeadsIn(stored'.path) /\ Builds'
  BY <1>2, <1>3 DEF PathInv, Builds, Enabled
<1> DEFINE h == Home[n]
<1>5. /\ Within(h, lat.path) /\ lat.depth = Level(h) /\ Level(h) \in Nat
      /\ LeadsIn(lat.path) /\ Len(lat.path) = Level(h) + 1 /\ lat \in Last
  BY <1>1, <1>3, WithinFacts DEF AtTask, RouteTypes
<1>6. CASE Answer(n)
  <2>1. at'.kind = "ends" /\ at'.node = n /\ lat' = lat
    BY <1>6, PosKinds DEF Answer
  <2> QED BY <1>1, <1>4, <1>5, <2>1 DEF PathInv, AtEnd
<1>7. CASE ToParent(n)
  <2>1. /\ at'.kind = "router" /\ at'.node = h /\ lat'.depth = lat.depth
        /\ lat'.path = SubSeq(lat.path, 1, Len(lat.path) - 2)
    BY <1>5, <1>7, PosKinds DEF ToParent, Last
  <2>2. AtRouter(h)'
    BY <1>1, <1>5, <2>1, DropTwo DEF AtRouter
  <2> QED BY <1>1, <1>4, <2>1, <2>2 DEF PathInv
<1>8. CASE ManualTransfer(n)
  <2>1. at'.kind = "router" /\ at'.node = h /\ lat' = lat
    BY <1>8, PosKinds DEF ManualTransfer
  <2> QED BY <1>1, <1>4, <1>5, <2>1 DEF PathInv, AtRouter
<1>9. CASE RemoteFinishes(n)
  <2>1. /\ at'.kind = "ends" /\ at'.node = n /\ n \in Remote
        /\ lat'.path = SubSeq(lat.path, 1, Len(lat.path) - 1)
    BY <1>9, PosKinds DEF RemoteFinishes
  <2>2. lat'.path = Chain[h] /\ h \in Nodes \cup {Top}
    BY <1>1, <1>5, <2>1, DropOne, NodesTyped
  <2>3. LeadsIn(lat'.path)
    BY <2>2, ChainLeadsIn
  <2> QED BY <1>1, <1>4, <2>1, <2>3 DEF PathInv, AtEnd
<1>10. ASSUME NEW m \in Ids, Replace(n, m) \/ RemoteHandoff(n, m)
       PROVE  PathInv'
  <2>1. lat' = [lat EXCEPT !.path[Level(h) + 1] = m] /\ at' = Goto(h, m)
    BY <1>5, <1>10 DEF Replace, RemoteHandoff
  <2>2. lat'.path = [lat.path EXCEPT ![Level(h) + 1] = m] /\ lat'.depth = lat.depth
    BY <1>5, <2>1 DEF Last
  <2> QED BY <1>1, <1>4, <1>5, <2>1, <2>2, Overwrite, ArrivesAt
<1>11. CASE \E m \in Ids : TransferTo(n, m) \/ DeepTransfer(n, m) \/ RemoteHandoff(n, m)
  BY <1>10, <1>11 DEF TransferTo, DeepTransfer
<1> QED BY <1>6, <1>7, <1>8, <1>9, <1>11 DEF Act, Ids

\* What ENTRY does, the depth being right.
LEMMA EntryDoes ==
  ASSUME RouteTypes, PathInv, NEW a \in Agents, Entry(a)
  PROVE  /\ lat'.depth = Level(a)
         /\ IF lat.path = Chain[a] THEN lat'.path = To(a, Router[a]) ELSE lat'.path = lat.path
         /\ \/ at'.kind = "lost"
            \/ \E m \in Enabled(a) : /\ at' = Goes(m) /\ lat'.path[Level(a) + 1] = m
                                   /\ Level(a) + 1 \in 1..Len(lat'.path)
<1>1. at.kind = "entry" /\ at.node = a
  BY PosKinds DEF Entry
<1>2. AtEntry(a)
  BY <1>1 DEF PathInv
<1>3. lat \in Last /\ Level(a) \in Nat /\ lat.path \in Seq(Ids) /\ Passes(a, lat.path)
  BY <1>2, LastTyped, ChainTyped, NodesTyped DEF RouteTypes, AtEntry
<1>4. (IF a = Top \/ lat.path = <<>> THEN 0 ELSE lat.depth + 1) = Level(a)
  <2>1. CASE a = Top
    BY <2>1, ChainTyped
  <2>2. CASE a # Top
    <3>1. lat.depth + 1 = Level(a) /\ Level(a) > 0
      BY <1>2, <1>3, <2>2, PassesHome DEF AtEntry
    <3>2. lat.path # <<>>
      BY <1>3, <3>1, EmptySeq DEF Passes
    <3> QED BY <2>2, <3>1, <3>2
  <2> QED BY <2>1, <2>2
<1>5. Len(lat.path) < Level(a) + 1 <=> lat.path = Chain[a]
  <2>1. lat.path = Chain[a] => Len(lat.path) < Level(a) + 1
    BY <1>3 DEF Level
  <2> QED BY <1>3, <2>1, PassesAll
<1> DEFINE path == IF Len(lat.path) < Level(a) + 1 THEN Append(lat.path, Router[a]) ELSE lat.path
<1>6. /\ lat' = [path |-> path, depth |-> Level(a)]
      /\ at' = IF Level(a) + 1 \in DOMAIN path /\ path[Level(a) + 1] \in Enabled(a)
               THEN Goes(path[Level(a) + 1]) ELSE Pos("lost", a)
  BY <1>4 DEF Entry
<1>7. lat'.path = path /\ lat'.depth = Level(a)
  BY <1>6
<1>8. path = IF lat.path = Chain[a] THEN To(a, Router[a]) ELSE lat.path
  BY <1>5 DEF To
<1>9. path \in Seq(Ids)
  <2>1. Router[a] \in Ids
    BY NodesTyped DEF Ids
  <2> QED BY <1>3, <1>8, <2>1, ToNode
<1>10. DOMAIN path = 1..Len(path)
  BY <1>9, LenProperties
<1> HIDE DEF path
<1> QED BY <1>6, <1>7, <1>8, <1>10, PosKinds

LEMMA PathEntry ==
  ASSUME RouteTypes, PathInv, NEW a \in Agents, Entry(a)
  PROVE  PathInv'
<1>1. at = Pos("entry", a) /\ stored' = stored /\ gone' = gone
  BY DEF Entry
<1>2. AtEntry(a) /\ at # Idle
  BY <1>1, PosKinds DEF PathInv
<1>3. LeadsIn(stored'.path) /\ Builds'
  BY <1>1, <1>2 DEF PathInv, Builds, Enabled
<1> PICK path : path = lat'.path
  OBVIOUS
<1>4. path \in Seq(Ids) /\ LeadsIn(path) /\ Passes(a, path)
  <2>1. CASE lat.path = Chain[a]
    <3>1. path = To(a, Router[a]) /\ Router[a] \in Ids
      BY <2>1, EntryDoes, NodesTyped DEF Ids
    <3> QED BY <3>1, ToNode, WithinFacts
  <2>2. CASE lat.path # Chain[a]
    BY <1>2, <2>2, EntryDoes, LastTyped DEF AtEntry, RouteTypes
  <2> QED BY <2>1, <2>2
<1>5. CASE at'.kind = "lost"
  BY <1>3, <1>5 DEF PathInv
<1>6. ASSUME NEW m \in Enabled(a), at' = Goes(m), path[Level(a) + 1] = m,
             Level(a) + 1 \in 1..Len(path)
      PROVE  PathInv'
  <2>1. m \in Nodes /\ Home[m] = a /\ m \in Ids
    BY EnabledHome DEF Ids
  <2>2. CASE m \in Tasks
    <3>1. path = To(a, m)
      BY <1>4, <1>6, <2>2, TaskIsLast, WithinFacts
    <3>2. at' = Goto(a, m)
      BY <1>6 DEF Goto
    <3> QED BY <1>3, <2>1, <3>1, <3>2, ArrivesAt, EntryDoes
  <2>3. CASE m \in Agents
    <3>1. Passes(m, path)
      BY <1>4, <1>6, <2>1, <2>3, PassesOn, NodesTyped
    <3>2. at'.kind = "entry" /\ at'.node = m
      BY <1>6, <2>3, PosKinds
    <3>3. AtEntry(m)'
      BY <1>4, <2>1, <3>1, EntryDoes DEF AtEntry
    <3> QED BY <1>3, <2>3, <3>2, <3>3 DEF PathInv
  <2> QED BY <2>1, <2>2, <2>3 DEF Nodes
<1> QED BY <1>5, <1>6, EntryDoes

LEMMA PathRouter ==
  ASSUME RouteTypes, PathInv, NEW a \in Agents, ParentRouter(a)
  PROVE  PathInv'
<1>1. at = Pos("router", a) /\ stored' = stored /\ gone' = gone
  BY DEF ParentRouter
<1>2. AtRouter(a) /\ at # Idle
  BY <1>1, PosKinds DEF PathInv
<1>3. LeadsIn(stored'.path) /\ Builds'
  BY <1>1, <1>2 DEF PathInv, Builds, Enabled
<1>4. lat \in Last /\ Level(a) \in Nat /\ lat.depth = Level(a) /\ Len(lat.path) \in Nat
  BY <1>2, LastTyped, ChainTyped, NodesTyped DEF RouteTypes, AtRouter
<1>5. a # Top => Home[a] \in Agents /\ a \in Nodes /\ Level(a) = Level(Home[a]) + 1
                 /\ Level(Home[a]) \in Nat /\ Within(Home[a], Chain[a])
  BY NodesTyped, ChainTyped, ChainEnds
<1>6. CASE lat.path = <<>> /\ lat.depth = 0 /\ at' = Pos("entry", a) /\ lat' = lat
  <2>1. a = Top
    BY <1>4, <1>6, TopChain
  <2>2. AtEntry(a)'
    BY <1>6, <2>1, ChainTyped DEF AtEntry, LeadsIn, Passes
  <2>3. at'.kind = "entry" /\ at'.node = a
    BY <1>6, PosKinds
  <2> QED BY <1>3, <2>2, <2>3 DEF PathInv
<1>7. CASE /\ Len(lat.path) < lat.depth + 1 /\ lat' = [lat EXCEPT !.depth = @ - 1]
           /\ at' = IF a = Top THEN Pos("lost", a) ELSE Pos("router", Home[a])
  <2>1. CASE a = Top
    <3>1. at'.kind = "lost"
      BY <1>7, <2>1, PosKinds
    <3> QED BY <1>3, <3>1 DEF PathInv
  <2>2. CASE a # Top
    <3>1. lat'.path = lat.path /\ lat'.depth = Level(Home[a])
      BY <1>4, <1>5, <1>7, <2>2 DEF Last
    <3>2. ~Within(a, lat.path)
      BY <1>4, <1>7, WithinFacts
    <3>3. AtRouter(Home[a])'
      BY <1>2, <1>5, <2>2, <3>1, <3>2 DEF AtRouter
    <3>4. at'.kind = "router" /\ at'.node = Home[a]
      BY <1>7, <2>2, PosKinds
    <3> QED BY <1>3, <1>5, <2>2, <3>3, <3>4 DEF PathInv
  <2> QED BY <2>1, <2>2
<1>8. CASE /\ Len(lat.path) >= lat.depth + 1 /\ at' = Goto(a, lat.path[Len(lat.path)])
           /\ lat' = lat
  <2>1. Within(a, lat.path)
    BY <1>2, <1>4, <1>5, <1>8 DEF AtRouter, Level
  <2>2. Len(lat.path) = Level(a) + 1 /\ lat.path[Level(a) + 1] \in Ids
        /\ lat.path = To(a, lat.path[Level(a) + 1])
    BY <2>1, WithinFacts
  <2> QED BY <1>3, <1>4, <1>8, <2>2, ArrivesAt
<1> QED BY <1>6, <1>7, <1>8 DEF ParentRouter

LEMMA PathStep ==
  ASSUME EdgesJoinTasks, RouteTypes, PathInv, [Next \/ SwitchAgent]_vars
  PROVE  PathInv'
<1>1. CASE BeginTurn
  <2>1. at'.kind = "entry" /\ at'.node = Top /\ stored' = stored /\ gone' = gone /\ Builds
    BY <1>1, PosKinds DEF BeginTurn
  <2>2. LeadsIn(lat'.path)
    BY <1>1, ChainLeadsIn DEF BeginTurn, Given, PathInv
  <2>3. AtEntry(Top)'
    BY <2>2, ChainTyped DEF AtEntry, Passes
  <2> QED BY <2>1, <2>3, RoutingAssumption DEF PathInv, Builds, Enabled
<1>2. CASE TurnFails
  BY <1>2, PosKinds DEF TurnFails, PathInv
<1>3. ASSUME NEW n \in Nodes, FollowEdge(n)
      PROVE  PathInv'
  <2>1. PICK e \in Edges : e[1] = n /\ at' = Goes(e[2])
    BY <1>3 DEF FollowEdge
  <2>2. at = Pos("ends", n) /\ stored' = stored /\ gone' = gone /\ lat' = lat
    BY <1>3 DEF FollowEdge
  <2>3. AtEnd(n) /\ Builds
    BY <2>2, PosKinds DEF PathInv
  <2>4. n \in Tasks \ Remote /\ e[2] \in Tasks
    BY <2>1, EdgesAssumption DEF EdgesJoinTasks
  <2>5. Home[e[2]] = Home[n]
    BY <2>1, <2>3, EnabledHome DEF Builds
  <2>6. at'.kind = "task" /\ at'.node = e[2]
    BY <2>1, <2>4, PosKinds
  <2>7. AtTask(e[2])'
    BY <2>2, <2>3, <2>4, <2>5 DEF AtEnd, AtTask
  <2> QED BY <2>2, <2>3, <2>4, <2>6, <2>7 DEF PathInv, Builds, Enabled
<1>4. ASSUME NEW n \in Nodes, AgentEnds(n)
      PROVE  PathInv'
  <2>1. /\ at = Pos("ends", n) /\ at'.kind = "ends" /\ at'.node = Home[n]
        /\ stored' = stored /\ gone' = gone /\ lat' = lat
    BY <1>4, PosKinds DEF AgentEnds
  <2>2. AtEnd(n) /\ Builds
    BY <2>1, PosKinds DEF PathInv
  <2>3. Home[n] \in Nodes \cup {Top} /\ Home[n] \notin Tasks
    BY NodesTyped, RoutingAssumption
  <2> QED BY <2>1, <2>2, <2>3 DEF PathInv, AtEnd, Builds, Enabled
<1>5. CASE TurnEnds
  <2>1. at = Pos("ends", Top) /\ at' = Idle /\ stored' = lat
    BY <1>5 DEF TurnEnds
  <2>2. LeadsIn(lat.path)
    BY <2>1, PosKinds DEF PathInv, AtEnd
  <2> QED BY <2>1, <2>2, PosKinds DEF PathInv
<1>6. CASE SwitchAgent
  BY <1>6, PosKinds DEF SwitchAgent, PathInv
<1>7. CASE UNCHANGED vars
  BY <1>7 DEF vars, PathInv, AtTask, AtEntry, AtRouter, AtEnd, Builds, Enabled
<1> QED BY <1>1, <1>2, <1>3, <1>4, <1>5, <1>6, <1>7, PathTask, PathEntry, PathRouter
        DEF Next, Route

-----------------------------------------------------------------------------
(* The goal.  Nothing on the way to the task that runs is disabled; the    *)
(* goal of a transfer is that task, or the router that the next entry      *)
(* starts: the path ends at that entry's agent, so that it starts the      *)
(* router, which no version of the agent lacks; and where parent routers run, the path is the chain of the goal *)
(* or of the agent whose router is the goal.                               *)

Live(n) == \A i \in 1..Level(n) : Chain[n][i] \notin Disabled \cup gone

OnTheWay(n) == \E i \in 1..Level(n) : Chain[n][i] = goal

ToTheTask(a) == goal \in Tasks /\ Home[goal] = a /\ lat.path = Chain[goal] /\ Live(goal)

ToARouter(a) ==
  \E b \in Agents :
    /\ lat.path = Chain[b] /\ goal = Router[b] /\ Live(b)
    /\ b = a \/ (a # Top /\ b = Home[a]) \/ (b # Top /\ Home[b] = a)

GoalInv ==
  /\ at.kind \in {"task", "entry", "router", "ends"} => Live(at.node)
  /\ at.kind \in {"ends", "idle", "lost"} => goal = NoTask
  /\ goal # NoTask /\ at.kind = "task" => OnTheWay(at.node)
  /\ goal # NoTask /\ at.kind = "entry" =>
       lat.path = Chain[at.node] /\ (OnTheWay(at.node) \/ goal = Router[at.node])
  /\ at.kind = "router" => ToTheTask(at.node) \/ ToARouter(at.node)

LEMMA LiveHome ==
  ASSUME NEW n \in Nodes
  PROVE  Live(n) <=> Live(Home[n]) /\ n \notin Disabled \cup gone
<1>1. /\ Level(n) = Level(Home[n]) + 1 /\ Chain[n][Level(n)] = n
      /\ Level(Home[n]) \in Nat
      /\ \A i \in 1..Level(Home[n]) : Chain[n][i] = Chain[Home[n]][i]
  BY ChainEnds, ChainTyped, NodesTyped
<1>2. \A i \in 1..Level(n) : i = Level(n) \/ i \in 1..Level(Home[n])
  BY <1>1
<1>3. Level(n) \in 1..Level(n) /\ \A i \in 1..Level(Home[n]) : i \in 1..Level(n)
  BY <1>1
<1> QED BY <1>1, <1>2, <1>3 DEF Live

LEMMA OnTheWayHome ==
  ASSUME NEW n \in Nodes
  PROVE  OnTheWay(n) <=> OnTheWay(Home[n]) \/ n = goal
<1>1. /\ Level(n) = Level(Home[n]) + 1 /\ Chain[n][Level(n)] = n
      /\ Level(Home[n]) \in Nat
      /\ \A i \in 1..Level(Home[n]) : Chain[n][i] = Chain[Home[n]][i]
  BY ChainEnds, ChainTyped, NodesTyped
<1>2. \A i \in 1..Level(n) : i = Level(n) \/ i \in 1..Level(Home[n])
  BY <1>1
<1>3. Level(n) \in 1..Level(n) /\ \A i \in 1..Level(Home[n]) : i \in 1..Level(n)
  BY <1>1
<1> QED BY <1>1, <1>2, <1>3 DEF OnTheWay

LEMMA LiveSame ==
  ASSUME gone' = gone
  PROVE  \A n : Live(n)' <=> Live(n)
BY DEF Live

\* Where transfers stay inside, wrapped agents have no targets to pass on.
LEMMA TargetsGranted ==
  ASSUME TransfersStayInside, NEW n \in Tasks
  PROVE  TaskTargets(n) \cup DeepTargets(n) \cup RemoteTargets(n) \subseteq Grant(n)
<1>1. /\ n \in Nodes /\ Home[n] \in Agents
      /\ Level(n) = Level(Home[n]) + 1 /\ Level(Home[n]) \in Nat
      /\ Chain[n][Level(n)] = n
      /\ \A i \in 1..Level(Home[n]) : Chain[n][i] = Chain[Home[n]][i]
      /\ DOMAIN Chain[n] = 1..Level(n)
  BY NodesTyped, ChainEnds, ChainTyped, LenProperties DEF Level
<1>2. \A b \in Agents \ {Top} : Grant(b) = {}
  <2> TAKE b \in Agents \ {Top}
  <2>1. Home[b] \notin Connected \cup RouterBack
    BY DEF TransfersStayInside
  <2>2. b # Router[Home[b]]
    BY NodesTyped, RoutingAssumption
  <2> QED BY <2>1, <2>2 DEF Grant, FullGrant, BackGrant, RouterGrant
<1>3. ASSUME NEW i \in Levels(n)
      PROVE  i = Level(n) /\ Chain[n][i] = n
  <2>1. i \in 1..Level(n) /\ Grant(Chain[n][i]) # {}
    BY <1>1, <1>3 DEF Levels
  <2>2. ~(i \in 1..Level(Home[n]))
    BY <1>1, <1>2, <2>1, AgentsAround
  <2> QED BY <1>1, <2>1, <2>2
<1>4. DeepTargets(n) \subseteq Grant(n)
  BY <1>3 DEF DeepTargets
<1>5. TaskTargets(n) \subseteq Grant(n)
  <2>1. CASE Levels(n) = {}
    BY <2>1 DEF TaskTargets
  <2>2. CASE Levels(n) # {}
    <3>1. Level(n) \in Levels(n) /\ \A j \in Levels(n) : j <= Level(n)
      BY <1>1, <1>3, <2>2
    <3> DEFINE top == CHOOSE i \in Levels(n) : \A j \in Levels(n) : j <= i
    <3>2. top \in Levels(n)
      BY <3>1
    <3> QED BY <1>3, <2>2, <3>2 DEF TaskTargets
  <2> QED BY <2>1, <2>2
<1>6. RemoteTargets(n) \subseteq Grant(n)
  <2>1. CASE Levels(n) = {}
    BY <2>1 DEF RemoteTargets
  <2>2. CASE Levels(n) # {}
    <3>1. Level(n) \in Levels(n) /\ \A j \in Levels(n) : Level(n) <= j
      BY <1>1, <1>3, <2>2
    <3> DEFINE low == CHOOSE i \in Levels(n) : \A j \in Levels(n) : i <= j
    <3>2. low \in Levels(n)
      BY <3>1
    <3> QED BY <1>3, <2>2, <3>2 DEF RemoteTargets
  <2> QED BY <2>1, <2>2
<1> QED BY <1>4, <1>5, <1>6

LEMMA GrantEnabled ==
  ASSUME RouteTypes, NEW n \in Nodes
  PROVE  Grant(n) \subseteq Enabled(Home[n])
<1>1. Router[Home[n]] \in Enabled(Home[n])
  BY NodesTyped, RoutingAssumption DEF RouteTypes, Enabled
<1> QED BY <1>1 DEF Grant, RouterGrant, FullGrant, BackGrant, Siblings

\* A task that an edge leads to has no transfer tool.
LEMMA EdgeGrantsNone ==
  ASSUME TransfersStayInside, NEW n \in Tasks, \E e \in Edges : e[2] = n
  PROVE  Grant(n) = {}
BY DEF TransfersStayInside, Grant, RouterGrant, FullGrant, BackGrant

LEMMA GoalTask ==
  ASSUME TransfersStayInside, RouteTypes, PathInv, GoalInv, NEW n \in Tasks, Act(n)
  PROVE  GoalInv'
<1>1. n \in Nodes /\ Home[n] \in Agents /\ n \notin Agents /\ NoTask \notin Ids
  BY NodesTyped, RoutingAssumption DEF Ids, Nodes, TransfersStayInside
<1>2. at = Pos("task", n) /\ gone' = gone
  BY DEF Act, Answer, ToParent, ManualTransfer, RemoteFinishes, TransferTo, DeepTransfer,
         RemoteHandoff, Replace
<1>3. at.kind = "task" /\ at.node = n
  BY <1>2, PosKinds
<1>4. Live(n) /\ Live(Home[n]) /\ AtTask(n)
  BY <1>1, <1>3, LiveHome DEF GoalInv, PathInv
<1>5. \A k : Live(k)' <=> Live(k)
  BY <1>2, LiveSame
<1>6. HasTransfer(n) => lat.path = Chain[n]
  BY <1>4, EdgeGrantsNone, TargetsGranted DEF HasTransfer, AtTask
<1>7. CASE Answer(n) \/ RemoteFinishes(n)
  <2>1. at'.kind = "ends" /\ at'.node = n /\ goal' = NoTask
    BY <1>7, PosKinds DEF Answer, RemoteFinishes
  <2> QED BY <1>4, <1>5, <2>1 DEF GoalInv
<1>8. CASE ToParent(n)
  <2>1. /\ at'.kind = "router" /\ at'.node = Home[n] /\ goal' = Router[Outer(Home[n])]
        /\ lat'.path = SubSeq(lat.path, 1, Len(lat.path) - 2)
    BY <1>8, PosKinds DEF ToParent, RouteTypes, Last
  <2>2. Outer(Home[n]) \in Agents
    BY <1>1, NodesTyped DEF Outer
  <2>3. lat'.path = Chain[Outer(Home[n])]
    BY <1>1, <1>4, <2>1, DropTwo DEF AtTask, Outer
  <2>4. Live(Outer(Home[n]))
    BY <1>1, <1>4, LiveHome, NodesTyped DEF Outer
  <2>5. ToARouter(Home[n])'
    BY <1>5, <2>1, <2>2, <2>3, <2>4 DEF ToARouter, Outer
  <2> QED BY <1>4, <1>5, <2>1, <2>5 DEF GoalInv
<1>9. CASE ManualTransfer(n)
  <2>1. at'.kind = "router" /\ at'.node = Home[n] /\ goal' = n /\ lat' = lat
    BY <1>9, PosKinds DEF ManualTransfer
  <2>2. ToTheTask(Home[n])'
    BY <1>4, <1>5, <1>6, <1>9, <2>1 DEF ToTheTask, ManualTransfer
  <2> QED BY <1>4, <1>5, <2>1, <2>2 DEF GoalInv
<1>10. ASSUME NEW m \in Grant(n), at' = Goto(Home[n], m), goal' = m,
              lat'.path = To(Home[n], m)
       PROVE  GoalInv'
  <2>1. m \in Enabled(Home[n]) /\ m \in Nodes /\ Home[m] = Home[n]
    BY <1>1, GrantEnabled, EnabledHome
  <2>2. (at'.kind = "task" \/ at'.kind = "entry") /\ at'.node = m
    BY <1>10, <2>1, PosKinds DEF Goto, Nodes
  <2>3. Live(m)
    BY <1>4, <2>1, LiveHome DEF Enabled
  <2>4. OnTheWay(m)'
    BY <1>10, <2>1, ChainEnds, ChainTyped, NodesTyped DEF OnTheWay
  <2>5. lat'.path = Chain[m]
    BY <1>10, <2>1, ChainTyped
  <2> QED BY <1>5, <2>2, <2>3, <2>4, <2>5 DEF GoalInv
<1>11. ASSUME NEW m \in Nodes \cup Invented,
              TransferTo(n, m) \/ DeepTransfer(n, m) \/ RemoteHandoff(n, m)
       PROVE  GoalInv'
  <2>1. m \in Grant(n)
    BY <1>11, TargetsGranted DEF TransferTo, DeepTransfer, RemoteHandoff, TransfersStayInside
  <2>2. at' = Goto(Home[n], m) /\ goal' = m
    BY <1>11 DEF TransferTo, DeepTransfer, RemoteHandoff, Replace
  <2>3. /\ Within(Home[n], lat.path) /\ lat.depth = Level(Home[n]) /\ Level(Home[n]) \in Nat
        /\ Len(lat.path) = Level(Home[n]) + 1 /\ lat \in Last
    BY <1>1, <1>4, WithinFacts DEF AtTask, RouteTypes
  <2>4. lat' = [lat EXCEPT !.path[Level(Home[n]) + 1] = m]
    BY <1>11, <2>3 DEF TransferTo, DeepTransfer, RemoteHandoff, Replace
  <2>5. lat'.path = [lat.path EXCEPT ![Level(Home[n]) + 1] = m]
    BY <2>3, <2>4 DEF Last
  <2>6. lat'.path = To(Home[n], m)
    BY <1>1, <2>3, <2>5, Overwrite DEF Ids
  <2> QED BY <1>10, <2>1, <2>2, <2>6
<1> QED BY <1>7, <1>8, <1>9, <1>11 DEF Act

LEMMA GoalEntry ==
  ASSUME RouteTypes, PathInv, GoalInv, NEW a \in Agents, Entry(a)
  PROVE  GoalInv'
<1>1. at.kind = "entry" /\ at.node = a /\ goal' = goal /\ gone' = gone
  BY PosKinds DEF Entry
<1>2. Live(a) /\ \A k : Live(k)' <=> Live(k)
  BY <1>1, LiveSame DEF GoalInv
<1> DEFINE r == Router[a]
<1>3. goal # NoTask => lat'.path = To(a, r) /\ at' = Goes(r)
  <2> SUFFICES ASSUME goal # NoTask
               PROVE  lat'.path = To(a, r) /\ at' = Goes(r)
    OBVIOUS
  <2>1. lat.path = Chain[a]
    BY <1>1 DEF GoalInv
  <2>2. lat'.path = To(a, r) /\ r \in Ids /\ r \in Enabled(a)
    BY <2>1, EntryDoes, NodesTyped, RoutingAssumption DEF Ids, Enabled, RouteTypes
  <2>3. /\ Level(a) + 1 \in DOMAIN lat'.path /\ lat'.path[Level(a) + 1] = r
        /\ lat'.depth = Level(a)
    <3>1. /\ lat'.path \in Seq(Ids) /\ Len(lat'.path) = Level(a) + 1
          /\ lat'.path[Level(a) + 1] = r
      BY <2>2, ToNode
    <3>2. Level(a) \in Nat /\ DOMAIN lat'.path = 1..Level(a) + 1
      BY <3>1, LenProperties, ChainTyped, NodesTyped
    <3> QED BY <3>1, <3>2, EntryDoes
  <2>4. at' = IF lat'.depth + 1 \in DOMAIN lat'.path /\ lat'.path[lat'.depth + 1] \in Enabled(a)
              THEN Goes(lat'.path[lat'.depth + 1]) ELSE Pos("lost", a)
    BY DEF Entry
  <2> QED BY <2>2, <2>3, <2>4
<1>4. ASSUME NEW m \in Enabled(a), at' = Goes(m), lat'.path[Level(a) + 1] = m
      PROVE  GoalInv'
  <2>1. m \in Nodes /\ Home[m] = a /\ m \notin Disabled \cup gone
    BY EnabledHome DEF Enabled
  <2>2. (at'.kind = "task" \/ at'.kind = "entry") /\ at'.node = m
    BY <1>4, <2>1, PosKinds DEF Nodes
  <2>3. Live(m)
    BY <1>2, <2>1, LiveHome
  <2>4. goal # NoTask => m = r /\ m \in Tasks
    <3>1. r \in Tasks
      BY NodesTyped, RoutingAssumption
    <3> QED BY <1>3, <1>4, <3>1, ToNode DEF Ids, Nodes
  <2>6. goal # NoTask => OnTheWay(m)
    BY <1>1, <2>1, <2>4, OnTheWayHome DEF GoalInv
  <2>5. OnTheWay(m)' <=> OnTheWay(m)
    BY <1>1 DEF OnTheWay
  <2>7. goal # NoTask => at'.kind = "task"
    BY <1>4, <2>4, PosKinds
  <2> QED BY <1>1, <1>2, <2>2, <2>3, <2>5, <2>6, <2>7 DEF GoalInv
<1>5. CASE at'.kind = "lost"
  <2>1. r \in Tasks
    BY NodesTyped, RoutingAssumption
  <2>2. goal = NoTask
    BY <1>3, <1>5, <2>1, PosKinds
  <2> QED BY <1>1, <1>5, <2>2 DEF GoalInv
<1> QED BY <1>4, <1>5, EntryDoes

LEMMA GoalRouter ==
  ASSUME RouteTypes, PathInv, GoalInv, NEW a \in Agents, ParentRouter(a)
  PROVE  GoalInv'
<1>1. at.kind = "router" /\ at.node = a /\ goal' = goal /\ gone' = gone
  BY PosKinds DEF ParentRouter
<1>2. /\ AtRouter(a) /\ Live(a) /\ (ToTheTask(a) \/ ToARouter(a))
      /\ \A k : Live(k)' <=> Live(k)
  BY <1>1, LiveSame DEF GoalInv, PathInv
<1>3. Level(a) \in Nat /\ lat.depth = Level(a) /\ lat \in Last
  BY <1>2, ChainTyped, NodesTyped DEF AtRouter, RouteTypes
<1>4. a # Top => a \in Nodes /\ Home[a] \in Agents /\ Level(a) = Level(Home[a]) + 1
                 /\ Level(Home[a]) \in Nat
  BY NodesTyped, ChainEnds, ChainTyped
<1>5. ToTheTask(a) => Len(lat.path) = Level(a) + 1 /\ lat.path[Level(a) + 1] = goal
                      /\ goal \in Enabled(a)
  <2> SUFFICES ASSUME ToTheTask(a)
               PROVE  Len(lat.path) = Level(a) + 1 /\ lat.path[Level(a) + 1] = goal
                      /\ goal \in Enabled(a)
    OBVIOUS
  <2>1. goal \in Nodes /\ Home[goal] = a /\ lat.path = Chain[goal] /\ Live(goal)
    BY NodesTyped DEF ToTheTask
  <2> QED BY <2>1, LiveHome, ChainEnds DEF Enabled, Level
<1>6. ASSUME NEW b \in Agents, lat.path = Chain[b], Live(b), b # Top, Home[b] = a
      PROVE  Len(lat.path) = Level(a) + 1 /\ lat.path[Level(a) + 1] = b /\ b \in Enabled(a)
  BY <1>6, NodesTyped, LiveHome, ChainEnds DEF Enabled, Level
<1>7. CASE lat.path = <<>> /\ lat.depth = 0 /\ at' = Pos("entry", a) /\ lat' = lat
  <2>1. a = Top /\ at'.kind = "entry" /\ at'.node = a
    <3>1. Level(a) = 0
      BY <1>3, <1>7
    <3>2. a = Top
      BY <3>1, TopChain
    <3> QED BY <1>7, <3>2, PosKinds
  <2>2. Len(lat.path) = 0
    BY <1>7
  <2>3. PICK b \in Agents : lat.path = Chain[b] /\ goal = Router[b]
    BY <1>2, <1>3, <1>5, <2>2 DEF ToARouter
  <2>4. b = Top
    BY <1>7, <2>3, TopChain
  <2> QED BY <1>1, <1>2, <1>7, <2>1, <2>3, <2>4 DEF GoalInv
<1>8. CASE /\ ~(lat.path = <<>> /\ lat.depth = 0)
           /\ Len(lat.path) < lat.depth + 1 /\ lat' = [lat EXCEPT !.depth = @ - 1]
           /\ at' = IF a = Top THEN Pos("lost", a) ELSE Pos("router", Home[a])
  <2>1. a # Top
    <3>1. SUFFICES ASSUME a = Top
                   PROVE  FALSE
      OBVIOUS
    <3>2. Level(a) = 0
      BY <3>1, ChainTyped, EmptySeq DEF Level
    <3>3. lat.path \in Seq(Ids) /\ Len(lat.path) \in Nat /\ Len(lat.path) < 1
      BY <1>3, <1>8, <3>2, LastTyped, LenProperties
    <3>4. lat.path = <<>>
      BY <3>3, EmptySeq
    <3> QED BY <1>3, <1>8, <3>2, <3>4
  <2>2. CASE a # Top
    <3>1. at'.kind = "router" /\ at'.node = Home[a] /\ lat'.path = lat.path
      BY <1>3, <1>8, <2>2, PosKinds DEF Last
    <3>2. PICK b \in Agents : /\ lat.path = Chain[b] /\ goal = Router[b] /\ Live(b)
                              /\ b = a \/ b = Home[a]
      BY <1>2, <1>3, <1>5, <1>6, <1>8 DEF ToARouter
    <3>3. ToARouter(Home[a])'
      BY <1>1, <1>2, <2>2, <3>1, <3>2 DEF ToARouter
    <3>4. Live(Home[a])
      BY <1>2, <1>4, <2>2, LiveHome
    <3> QED BY <1>2, <3>1, <3>3, <3>4 DEF GoalInv
  <2> QED BY <2>1, <2>2
<1>9. CASE /\ Len(lat.path) >= lat.depth + 1 /\ at' = Goto(a, lat.path[Len(lat.path)])
           /\ lat' = lat
  <2>1. CASE ToTheTask(a)
    <3>1. at' = Goes(goal) /\ goal \in Tasks /\ goal \in Nodes /\ Live(goal)
      BY <1>5, <1>9, <2>1, EnabledHome DEF Goto, ToTheTask
    <3>2. at'.kind = "task" /\ at'.node = goal
      BY <3>1, PosKinds
    <3>3. OnTheWay(goal)
      BY <3>1, OnTheWayHome
    <3>4. OnTheWay(goal)' <=> OnTheWay(goal)
      BY <1>1 DEF OnTheWay
    <3> QED BY <1>1, <1>2, <3>1, <3>2, <3>3, <3>4 DEF GoalInv
  <2>2. CASE ToARouter(a)
    <3>1. PICK b \in Agents : /\ lat.path = Chain[b] /\ goal = Router[b] /\ Live(b)
                              /\ b = a \/ (a # Top /\ b = Home[a]) \/ (b # Top /\ Home[b] = a)
      BY <2>2 DEF ToARouter
    <3>2. b # a /\ ~(a # Top /\ b = Home[a])
      BY <1>3, <1>4, <1>9, <3>1 DEF Level
    <3>3. at' = Goes(b)
      BY <1>6, <1>9, <3>1, <3>2 DEF Goto
    <3>4. at'.kind = "entry" /\ at'.node = b
      BY <3>3, PosKinds
    <3> QED BY <1>1, <1>2, <1>9, <3>1, <3>4 DEF GoalInv
  <2> QED BY <1>2, <2>1, <2>2
<1> QED BY <1>7, <1>8, <1>9 DEF ParentRouter

LEMMA GoalStep ==
  ASSUME EdgesJoinTasks, TransfersStayInside, RouteTypes, PathInv, GoalInv,
         [Next \/ SwitchAgent]_vars
  PROVE  GoalInv'
<1>1. CASE BeginTurn
  <2>1. at'.kind = "entry" /\ at'.node = Top /\ goal' = NoTask
    BY <1>1, PosKinds DEF BeginTurn
  <2>2. Live(Top)'
    BY ChainTyped DEF Live
  <2> QED BY <2>1, <2>2 DEF GoalInv
<1>2. CASE TurnFails
  BY <1>2, PosKinds DEF TurnFails, GoalInv
<1>3. ASSUME NEW n \in Nodes, FollowEdge(n)
      PROVE  GoalInv'
  <2>1. PICK e \in Edges : e[1] = n /\ at' = Goes(e[2])
    BY <1>3 DEF FollowEdge
  <2>2. at = Pos("ends", n) /\ gone' = gone /\ goal' = goal
    BY <1>3 DEF FollowEdge
  <2>3. at.kind = "ends" /\ at.node = n /\ at # Idle
    BY <2>2, PosKinds
  <2>4. Builds /\ Live(n) /\ goal = NoTask
    BY <2>3 DEF PathInv, GoalInv
  <2>5. Home[e[2]] = Home[n] /\ e[2] \notin Disabled \cup gone /\ e[2] \in Nodes
    BY <2>1, <2>4 DEF Builds, Enabled
  <2>6. Live(e[2])
    BY <2>4, <2>5, LiveHome
  <2>7. at'.kind = "task" /\ at'.node = e[2]
    BY <2>1, PosKinds DEF EdgesJoinTasks
  <2>8. Live(e[2])'
    BY <2>2, <2>6, LiveSame
  <2> QED BY <2>2, <2>4, <2>7, <2>8 DEF GoalInv
<1>4. ASSUME NEW n \in Nodes, AgentEnds(n)
      PROVE  GoalInv'
  <2>1. /\ at.kind = "ends" /\ at.node = n /\ at'.kind = "ends" /\ at'.node = Home[n]
        /\ gone' = gone /\ goal' = goal
    BY <1>4, PosKinds DEF AgentEnds
  <2>2. Live(Home[n]) /\ goal = NoTask
    BY <2>1, LiveHome DEF GoalInv
  <2> QED BY <2>1, <2>2, LiveSame DEF GoalInv
<1>5. CASE TurnEnds
  <2>1. at.kind = "ends" /\ at'.kind = "idle" /\ goal' = goal
    BY <1>5, PosKinds DEF TurnEnds
  <2> QED BY <2>1 DEF GoalInv
<1>6. CASE SwitchAgent
  <2>1. at.kind = "idle" /\ at' = at /\ goal' = goal
    BY <1>6, PosKinds DEF SwitchAgent
  <2> QED BY <2>1 DEF GoalInv
<1>7. CASE UNCHANGED vars
  BY <1>7 DEF vars, GoalInv, Live, OnTheWay, ToTheTask, ToARouter
<1> QED BY <1>1, <1>2, <1>3, <1>4, <1>5, <1>6, <1>7, GoalTask, GoalEntry, GoalRouter
        DEF Next, Route

-----------------------------------------------------------------------------
(* The answer.  The task that answered, if it may go on, is what the path  *)
(* names from the end of its turn on, until the next turn transfers.       *)

ResumeInv ==
  answered # NoTask =>
    /\ answered \in Tasks /\ \A e \in Edges : answered \notin {e[1], e[2]}
    /\ at.kind = "ends" => lat.path = Chain[answered] /\ at.node \in Agents \cup {answered}
    /\ at.kind = "idle" => stored.path = Chain[answered]
    /\ at.kind = "entry" /\ goal = NoTask => lat.path = Chain[answered]
    /\ at.kind = "task" /\ goal = NoTask => at.node = answered

LEMMA GoalNamed ==
  ASSUME GoalInv, at.kind = "router"
  PROVE  goal # NoTask
BY NodesTyped, RoutingAssumption DEF GoalInv, ToTheTask, ToARouter

LEMMA ResumeTask ==
  ASSUME TransfersStayInside, RouteTypes, PathInv, GoalInv, GoalInv', ResumeInv,
         NEW n \in Tasks, Act(n)
  PROVE  ResumeInv'
<1>1. at = Pos("task", n) /\ n \in Nodes /\ NoTask \notin Nodes
  BY NodesTyped, RoutingAssumption
     DEF Nodes, Act, Answer, ToParent, ManualTransfer, RemoteFinishes, TransferTo, DeepTransfer,
         RemoteHandoff, Replace
<1>2. AtTask(n)
  BY <1>1, PosKinds DEF PathInv
<1>3. CASE Answer(n)
  <2>1. at'.kind = "ends" /\ at'.node = n /\ lat' = lat
    BY <1>3, PosKinds DEF Answer
  <2>2. answered' = NoTask \/ (answered' = n /\ \A e \in Edges : n \notin {e[1], e[2]})
    BY <1>3 DEF Answer
  <2>3. answered' # NoTask => lat.path = Chain[n]
    BY <1>2, <2>2 DEF AtTask
  <2> QED BY <2>1, <2>2, <2>3 DEF ResumeInv
<1>4. CASE RemoteFinishes(n)
  BY <1>4 DEF RemoteFinishes, ResumeInv
<1>5. ASSUME answered' = answered, goal' # NoTask, at'.kind \notin {"ends", "idle"}
      PROVE  ResumeInv'
  BY <1>5 DEF ResumeInv
<1>6. CASE ToParent(n) \/ ManualTransfer(n)
  <2>1. answered' = answered /\ at'.kind = "router"
    BY <1>6, PosKinds DEF ToParent, ManualTransfer
  <2>2. goal' # NoTask
    <3>1. goal' = n \/ goal' = Router[Outer(Home[n])]
      BY <1>6 DEF ToParent, ManualTransfer
    <3>2. Router[Outer(Home[n])] \in Nodes
      BY <1>1, NodesTyped DEF Outer
    <3> QED BY <1>1, <3>1, <3>2
  <2> QED BY <1>5, <2>1, <2>2
<1>7. CASE \E m \in Nodes \cup Invented :
             TransferTo(n, m) \/ DeepTransfer(n, m) \/ RemoteHandoff(n, m)
  <2>1. PICK m \in Nodes \cup Invented :
             TransferTo(n, m) \/ DeepTransfer(n, m) \/ RemoteHandoff(n, m)
    BY <1>7
  <2>2. goal' = m /\ answered' = answered /\ m # NoTask
    BY <1>1, <2>1 DEF TransferTo, DeepTransfer, RemoteHandoff, Replace, TransfersStayInside
  <2>3. at'.kind \notin {"ends", "idle"}
    BY <2>2 DEF GoalInv
  <2> QED BY <1>5, <2>2, <2>3
<1> QED BY <1>3, <1>4, <1>6, <1>7 DEF Act

LEMMA ResumeEntry ==
  ASSUME RouteTypes, PathInv, PathInv', ResumeInv, NEW a \in Agents, Entry(a)
  PROVE  ResumeInv'
<1>1. at.kind = "entry" /\ goal' = goal /\ answered' = answered
  BY PosKinds DEF Entry
<1>2. CASE answered # NoTask /\ goal = NoTask
  <2>1. lat.path = Chain[answered] /\ answered \in Tasks /\ answered \in Nodes
    BY <1>1, <1>2, NodesTyped DEF ResumeInv
  <2>2. lat.path # Chain[a]
    BY <2>1, ChainInjective, NodesTyped, RoutingAssumption
  <2>3. lat'.path = Chain[answered]
    BY <2>1, <2>2, EntryDoes
  <2>4. ASSUME NEW m \in Enabled(a), at' = Goes(m), lat'.path[Level(a) + 1] = m
        PROVE  ResumeInv'
    <3>1. m \in Nodes /\ Home[m] = a
      BY EnabledHome
    <3>2. CASE m \in Agents
      <4>1. at'.kind = "entry"
        BY <2>4, <3>2, PosKinds
      <4> QED BY <1>1, <2>3, <4>1 DEF ResumeInv
    <3>3. CASE m \in Tasks
      <4>1. at'.kind = "task" /\ at'.node = m
        BY <2>4, <3>3, PosKinds
      <4>2. Within(a, lat'.path)
        BY <3>1, <4>1 DEF PathInv, AtTask
      <4>3. lat'.path = Chain[m]
        BY <2>4, <3>1, <4>2, WithinFacts, ChainTyped
      <4>4. m = answered
        BY <2>1, <2>3, <3>1, <4>3, ChainInjective
      <4> QED BY <1>1, <4>1, <4>4 DEF ResumeInv
    <3> QED BY <3>1, <3>2, <3>3 DEF Nodes
  <2>5. CASE at'.kind = "lost"
    BY <1>1, <2>5 DEF ResumeInv
  <2> QED BY <2>4, <2>5, EntryDoes
<1>3. CASE ~(answered # NoTask /\ goal = NoTask)
  <2>1. at'.kind \in {"lost", "entry", "task"}
    BY EntryDoes, EnabledHome, PosKinds DEF Nodes
  <2> QED BY <1>1, <1>3, <2>1 DEF ResumeInv
<1> QED BY <1>2, <1>3

LEMMA ResumeStep ==
  ASSUME EdgesJoinTasks, TransfersStayInside, RouteTypes, PathInv, PathInv', GoalInv, GoalInv',
         ResumeInv, [Next \/ SwitchAgent]_vars
  PROVE  ResumeInv'
<1>1. CASE BeginTurn
  <2>1. /\ at'.kind = "entry" /\ at.kind = "idle"
        /\ (lat' = stored /\ answered' = answered) \/ answered' = NoTask
    BY <1>1, PosKinds DEF BeginTurn
  <2> QED BY <2>1 DEF ResumeInv
<1>2. CASE TurnFails \/ SwitchAgent
  BY <1>2 DEF TurnFails, SwitchAgent, ResumeInv
<1>3. ASSUME NEW n \in Nodes, FollowEdge(n)
      PROVE  ResumeInv'
  <2>1. PICK e \in Edges : e[1] = n
    BY <1>3 DEF FollowEdge
  <2>2. at.kind = "ends" /\ at.node = n /\ answered' = answered
    BY <1>3, PosKinds DEF FollowEdge
  <2>3. n \notin Agents
    BY <2>1, RoutingAssumption, EdgesAssumption
  <2>4. answered = NoTask
    BY <2>1, <2>2, <2>3 DEF ResumeInv
  <2> QED BY <2>2, <2>4 DEF ResumeInv
<1>4. ASSUME NEW n \in Nodes, AgentEnds(n)
      PROVE  ResumeInv'
  <2>1. /\ at.kind = "ends" /\ at'.kind = "ends" /\ at'.node = Home[n] /\ lat' = lat
        /\ answered' = answered
    BY <1>4, PosKinds DEF AgentEnds
  <2> QED BY <2>1, NodesTyped DEF ResumeInv
<1>5. CASE TurnEnds
  <2>1. at.kind = "ends" /\ at'.kind = "idle" /\ stored' = lat /\ answered' = answered
    BY <1>5, PosKinds DEF TurnEnds
  <2> QED BY <2>1 DEF ResumeInv
<1>6. ASSUME NEW a \in Agents, ParentRouter(a)
      PROVE  ResumeInv'
  <2>1. at.kind = "router" /\ goal' = goal /\ answered' = answered
    BY <1>6, PosKinds DEF ParentRouter
  <2>2. goal' # NoTask
    BY <2>1, GoalNamed
  <2>3. at'.kind # "ends"
    BY <2>2 DEF GoalInv
  <2>4. at'.kind # "idle"
    BY <2>2 DEF GoalInv
  <2> QED BY <2>1, <2>2, <2>3, <2>4 DEF ResumeInv
<1>7. CASE UNCHANGED vars
  BY <1>7 DEF vars, ResumeInv
<1> QED BY <1>1, <1>2, <1>3, <1>4, <1>5, <1>6, <1>7, ResumeTask, ResumeEntry
        DEF Next, Route

-----------------------------------------------------------------------------
(* The theorems, for turns of one version of the agent and of several.     *)

LEMMA SpecSwitches == Spec => SwitchSpec
<1>1. [Next]_vars => [Next \/ SwitchAgent]_vars
  OBVIOUS
<1> QED BY <1>1, PTL DEF Spec, SwitchSpec

LEMMA TypesInvariant == SwitchSpec => []RouteTypes
<1>1. RouteTypes /\ [Next \/ SwitchAgent]_vars => RouteTypes'
  BY TypesStep
<1> QED BY <1>1, TypesInit, PTL DEF SwitchSpec

LEMMA PathInit == Init => PathInv
BY PosKinds DEF Init, PathInv, LeadsIn

LEMMA PathInvariant ==
  ASSUME EdgesJoinTasks
  PROVE  SwitchSpec => []PathInv
<1>1. RouteTypes /\ PathInv /\ [Next \/ SwitchAgent]_vars => PathInv'
  BY PathStep
<1> QED BY <1>1, PathInit, TypesInvariant, PTL DEF SwitchSpec

\* Every variable has its type, whatever agents are built.
THEOREM RoutingTypes == SwitchSpec => []TypeOK
<1>1. RouteTypes => TypeOK
  <2>1. Retired \subseteq Nodes
    BY RoutingAssumption
  <2> QED BY <2>1 DEF RouteTypes, TypeOK, Last, Ids
<1> QED BY <1>1, TypesInvariant, PTL

\* While a task runs the path leads to it level by level and depth is its level
\* (base/tools.py writes path[depth], base/agent.py reads it).
THEOREM PathsLead ==
  ASSUME EdgesJoinTasks
  PROVE  SwitchSpec => []PathLeadsToTask
<1>1. RouteTypes /\ PathInv => PathLeadsToTask
  <2> SUFFICES ASSUME RouteTypes, PathInv, at.kind = "task", ~Sequel(at.node)
               PROVE  lat.path = Chain[at.node] /\ lat.depth = Len(lat.path) - 1
    BY DEF PathLeadsToTask
  <2> PICK n : n = at.node
    OBVIOUS
  <2>1. n \in Tasks /\ n \in Nodes /\ AtTask(n)
    BY NodesTyped DEF PathInv
  <2>2. Chain[n][Level(n)] = n /\ Level(n) \in DOMAIN Chain[n] /\ Level(n) = Level(Home[n]) + 1
        /\ Level(Home[n]) \in Nat
    BY <2>1, ChainEnds, ChainTyped, NodesTyped, LenProperties DEF Level
  <2>3. ~\E e \in Edges : e[2] = n
    BY <2>2 DEF Sequel
  <2> QED BY <2>1, <2>2, <2>3 DEF AtTask, Level
<1> QED BY <1>1, TypesInvariant, PathInvariant, PTL

LEMMA GoalInvariant ==
  ASSUME EdgesJoinTasks, TransfersStayInside
  PROVE  SwitchSpec => []GoalInv
<1>1. Init => GoalInv
  BY PosKinds DEF Init, GoalInv
<1>2. RouteTypes /\ PathInv /\ GoalInv /\ [Next \/ SwitchAgent]_vars => GoalInv'
  BY GoalStep
<1> QED BY <1>1, <1>2, TypesInvariant, PathInvariant, PTL DEF SwitchSpec

\* A transfer that was reported as done reaches the task it names, a hand-back
\* the router around: neither ends an agent or the turn on the way, and no entry
\* on the way gets a name that is not a node of its graph.
THEOREM TransfersArrive ==
  ASSUME EdgesJoinTasks, TransfersStayInside
  PROVE  SwitchSpec => []TransferArrives
<1>1. RouteTypes /\ PathInv /\ GoalInv => TransferArrives
  <2> SUFFICES ASSUME RouteTypes, PathInv, GoalInv, goal # NoTask
               PROVE  /\ at.kind = "task" =>
                           \E i \in DOMAIN Chain[at.node] : Chain[at.node][i] = goal
                      /\ at.kind \notin {"ends", "idle", "lost"}
    BY DEF TransferArrives
  <2>1. ASSUME at.kind = "task"
        PROVE  \E i \in DOMAIN Chain[at.node] : Chain[at.node][i] = goal
    <3>1. at.node \in Nodes
      BY <2>1, NodesTyped DEF PathInv
    <3>2. DOMAIN Chain[at.node] = 1..Level(at.node)
      BY <3>1, ChainTyped, LenProperties DEF Level
    <3> QED BY <2>1, <3>2 DEF GoalInv, OnTheWay
  <2> QED BY <2>1 DEF GoalInv
<1> QED BY <1>1, TypesInvariant, PathInvariant, GoalInvariant, PTL

\* A turn that starts from what the session stored resumes the task that
\* answered the turn before.
THEOREM TurnsResume ==
  ASSUME EdgesJoinTasks, TransfersStayInside
  PROVE  SwitchSpec => []ResumesTask
<1>1. Init => ResumeInv
  BY DEF Init, ResumeInv
<1>2. /\ RouteTypes /\ PathInv /\ PathInv' /\ GoalInv /\ GoalInv' /\ ResumeInv
      /\ [Next \/ SwitchAgent]_vars
      => ResumeInv'
  BY ResumeStep
<1>3. ResumeInv => ResumesTask
  BY DEF ResumeInv, ResumesTask
<1> QED BY <1>1, <1>2, <1>3, TypesInvariant, PathInvariant, GoalInvariant, PTL DEF SwitchSpec

\* The same for Spec, whose agent stays: it is a special case.
COROLLARY RoutingHolds ==
  ASSUME EdgesJoinTasks, TransfersStayInside
  PROVE  Spec => [](TypeOK /\ PathLeadsToTask /\ TransferArrives /\ ResumesTask)
BY SpecSwitches, RoutingTypes, PathsLead, TransfersArrive, TurnsResume, PTL
=============================================================================
