------------------------------ MODULE DocStore -------------------------------
(***************************************************************************)
(* The documents of the server: agents, agent metadata and saved sessions  *)
(* in Mongo, and the copies of them in Redis.                              *)
(*                                                                         *)
(* AgentBuilderMongoStore reads agents and metadata through a Redis cache  *)
(* and refreshes the entry after each write; a turn writes its session     *)
(* envelope to Redis and saves it to Mongo in a detached task.  Every      *)
(* operation is a sequence of Mongo and Redis commands, and the commands   *)
(* of different requests interleave, each with the code up to the next     *)
(* await.  Redis errors are swallowed by RedisClient, read errors of Mongo *)
(* by _find_one; the other errors of Mongo end the request.                *)
(*                                                                         *)
(* A document has two fields, a and b, that hold the request that wrote    *)
(* them; its key is what the cache knows it by: the triple (agent_id,      *)
(* version, partner_id) of an agent, the name of a metadata document.  The *)
(* envelope of a session has a third, the MCP tools of its tasks.          *)
(***************************************************************************)
EXTENDS Naturals, FiniteSets

CONSTANTS
  Reqs,        \* the requests, each of which runs one operation
  Agents,      \* triples of agents that the platform knows
  Types,       \* names of agent metadata
  Templated,   \* the names whose metadata points at a template agent
  Template,    \* that agent
  AgentType,   \* the name of the metadata of the agents
  Sessions,    \* session ids
  MaxFaults,   \* how many commands may fail
  NoDoc, NoKey

ASSUME DocStoreAssumption ==
  /\ Templated \subseteq Types /\ Template \in Agents /\ AgentType \in Types
  /\ MaxFaults \in Nat
  /\ Reqs \cap (Agents \cup Types \cup Sessions) = {} /\ Sessions \cap (Agents \cup Types) = {}
  /\ NoKey \notin Reqs \cup Agents \cup Types \cup Sessions

VARIABLES
  mongo,       \* _id -> document
  written,     \* history: requests with a document or a field that Mongo took
  cache,       \* Redis: key -> document, and session id -> envelope
  req,         \* what each request is doing
  faults,      \* commands that have failed
  disturbed    \* history: keys on which requests overlapped or commands failed

vars == <<mongo, written, cache, req, faults, disturbed>>

-----------------------------------------------------------------------------
Named == Agents \cup Types \cup Sessions
Ids   == Named \cup Reqs          \* a document that a request inserts is called after it
Keys  == Named \cup Reqs          \* the agent_id of a registered agent is its _id
Docs  == [id : Ids, key : Keys \cup {NoKey}, a : Ids, b : Ids, tools : Ids \cup {NoKey}]

ASSUME NoDocAssumption == NoDoc \notin Docs

Stored(k) == {mongo[i] : i \in {j \in Ids : mongo[j] # NoDoc /\ mongo[j].key = k}}

-----------------------------------------------------------------------------
(* The operations: where each starts, and where it goes on when its lookup *)
(* by key has found a document and when it has not.                        *)

\* GET /agents with a triple, GET /agent-metadata with a name: the document.
GetFlow == [first |-> "lookup", found |-> "done", missing |-> "done"]

\* GET /agents, GET /agent-metadata without a key: all of them.
ListFlow == [first |-> "list", found |-> "done", missing |-> "done"]

\* POST /platform/sync/agent: an agent the store lacks is fetched and inserted.
SyncFlow == [first |-> "lookup", found |-> "done", missing |-> "fetch"]

\* The invoke handler does the same before a turn, by triple or by the _id of
\* older clients, and then needs the metadata of the agent's type.
ResolveFlow == [first |-> "lookup", found |-> "check", missing |-> "fetch"]
LegacyFlow  == [first |-> "byId", found |-> "failed", missing |-> "failed"]

\* POST /register/agent-metadata: a name in use is refused, and so is an agent
\* that does not exist.
CreateFlow == [first |-> "lookup", found |-> "failed", missing |-> "check"]

\* POST /update/agent-metadata starts from what the cache has.
ChangeFlow == [first |-> "lookup", found |-> "check", missing |-> "failed"]

\* POST /update/agents names the _id, which the cache does not know.
UpdateFlow == [first |-> "byId", found |-> "failed", missing |-> "failed"]

\* delete_agent_by_triple resolves the triple to an _id.
DeleteFlow == [first |-> "lookup", found |-> "byId", missing |-> "done"]

\* POST /register/agents: the metadata of the agent_type may name a template.
RegisterFlow(k) ==
  [first |-> "lookup", found |-> IF k \in Templated THEN "byId" ELSE "insert",
   missing |-> "failed"]

\* A turn's envelope goes to Redis, and then to Mongo in a task of its own.
SaveFlow == [first |-> "envelope", found |-> "write", missing |-> "insert"]

\* The next turn's load: Redis, or else Mongo.
LoadFlow == [first |-> "lookup", found |-> "done", missing |-> "done"]

\* POST /session/clone reads and writes Mongo only.
CloneFlow == [first |-> "find", found |-> "insert", missing |-> "failed"]

Flow(o, k) ==
  CASE o = "get" -> GetFlow [] o = "list" -> ListFlow [] o = "sync" -> SyncFlow
    [] o = "resolve" -> ResolveFlow [] o = "legacy" -> LegacyFlow [] o = "create" -> CreateFlow [] o = "change" -> ChangeFlow
    [] o = "update" -> UpdateFlow [] o = "delete" -> DeleteFlow
    [] o = "register" -> RegisterFlow(k) [] o = "save" -> SaveFlow [] o = "load" -> LoadFlow
    [] o = "clone" -> CloneFlow

\* The keys an operation may be applied to; of the list one stands for all.
KeysOf ==
  [get |-> Agents \cup Types \cup Reqs, list |-> {Template} \cup Templated,
   sync |-> Agents, resolve |-> Agents, legacy |-> Agents \cup Reqs, create |-> Types, change |-> Types,
   update |-> Agents \cup Reqs, delete |-> Agents \cup Reqs, register |-> Types,
   save |-> Sessions, load |-> Sessions, clone |-> Sessions]

Ops == DOMAIN KeysOf

AfterLookup(r, d) ==
  LET f == Flow(req[r].op, req[r].key) IN IF d = NoDoc THEN f.missing ELSE f.found

\* After a lookup by _id.
AfterById(r, d) ==
  IF req[r].op = "delete" THEN "remove"
  ELSE IF d = NoDoc THEN "failed"
  ELSE IF req[r].op = "legacy" THEN "check"
  ELSE IF req[r].op = "register" /\ req[r].id # r THEN "insert" ELSE "write"

\* After the lookup of another document that it needs.
AfterCheck(r) ==
  CASE req[r].op = "create" -> "insert" [] req[r].op = "change" -> "write" [] OTHER -> "done"

Positions == {"idle", "lookup", "find", "byId", "fetch", "envelope", "insert", "write", "check",
              "remove", "drop", "list", "each", "fill", "done", "failed"}

Request == [op : Ops, key : Keys, field : {"a", "b"}, at : Positions, then : Positions,
            id : Ids, doc : Docs \cup {NoDoc}, todo : SUBSET Docs]

Active(r)  == req[r].at \notin {"idle", "done", "failed"}
Changes(o) == o \in {"sync", "resolve", "create", "change", "update", "delete", "save", "clone", "register"}

\* Documents of one collection.
Collection(k) == IF k \in Types THEN Types ELSE Agents \cup Reqs

\* The keys an operation reads or writes; k is its key and i its _id.
Touched(o, k, i, r) ==
  CASE o = "register" -> {k, i, r}
    [] o = "list"     -> Collection(k)
    [] o = "clone"    -> {k, i}
    [] o \in {"create", "change"}  -> {k, Template}
    [] o \in {"resolve", "legacy"} -> {k, AgentType}
    [] OTHER          -> {k}

TouchedBy(r) == Touched(req[r].op, req[r].key, req[r].id, r)

Overlapping(o, k, i, r) ==
  {x \in Touched(o, k, i, r) : \E q \in Reqs \ {r} :
      Active(q) /\ x \in TouchedBy(q) /\ (Changes(o) \/ Changes(req[q].op))}

-----------------------------------------------------------------------------
Seed(k) == [id |-> k, key |-> k, a |-> k, b |-> k, tools |-> NoKey]

\* The template and its metadata exist; what else does varies, as do the copies.
Init ==
  /\ \E present \in SUBSET (Agents \cup Types) :
       /\ {Template} \cup Templated \subseteq present
       /\ mongo = [i \in Ids |-> IF i \in present THEN Seed(i) ELSE NoDoc]
       /\ cache \in {[k \in Keys |-> NoDoc],
                     [k \in Keys |-> IF k \in present THEN Seed(k) ELSE NoDoc]}
  /\ req = [r \in Reqs |-> [op |-> "get", key |-> Template, field |-> "a", at |-> "idle",
                            then |-> "idle", id |-> Template, doc |-> NoDoc, todo |-> {}]]
  /\ written = {}
  /\ faults = 0
  /\ disturbed = {}

Goes(r, at) == req' = [req EXCEPT ![r].at = at]

\* Goes on with document d, its cache entry to be set or deleted before that.
Fills(r, d, next) ==
  req' = [req EXCEPT ![r].at = "fill", ![r].doc = d, ![r].then = next]

\* A command of r fails.
Fault(r) ==
  /\ faults < MaxFaults
  /\ faults' = faults + 1
  /\ disturbed' = disturbed \cup TouchedBy(r)

NoFault == UNCHANGED <<faults, disturbed>>

\* A command of Mongo fails and the exception ends the request.
Breaks(r) == Fault(r) /\ Goes(r, "failed") /\ UNCHANGED <<mongo, written, cache>>

-----------------------------------------------------------------------------
\* The _id an operation starts from: the document to update, the template of
\* the metadata, the session to clone to.
FirstIds(o, k) ==
  CASE o \in {"update", "legacy"} -> {d.id : d \in Stored(k)} \cup {k}
    [] o = "register" -> {Template}
    [] o = "clone"    -> Sessions \ {k}
    [] OTHER          -> {k}

Start(r) ==
  /\ req[r].at = "idle"
  /\ \E o \in Ops : \E k \in KeysOf[o] : \E i \in FirstIds(o, k) : \E f \in {"a", "b"} :
       /\ f = "a" \/ o \in {"update", "change"}
       /\ k \in Reqs => mongo[k] # NoDoc /\ mongo[k].key \in {k, NoKey}
       /\ req' = [req EXCEPT ![r] = [op |-> o, key |-> k, field |-> f, at |-> Flow(o, k).first,
                    then |-> "idle", id |-> i, doc |-> NoDoc, todo |-> {}]]
       \* A clone onto a session that is saved already adds a second document.
       /\ disturbed' = disturbed \cup Overlapping(o, k, i, r)
            \cup {t \in {i} : o = "clone" /\ Stored(t) # {}}
  /\ UNCHANGED <<mongo, written, cache, faults>>

\* cache_get, get_extended_session_data: an error looks like a missing key.
CacheGet(r) ==
  /\ req[r].at = "lookup"
  /\ \/ LET d == cache[req[r].key] IN
        /\ d # NoDoc
        /\ req' = [req EXCEPT ![r].at = AfterLookup(r, d), ![r].doc = d,
                     ![r].id = IF req[r].op = "register" THEN @ ELSE d.id]
        /\ NoFault
     \/ cache[req[r].key] = NoDoc /\ Goes(r, "find") /\ NoFault
     \/ Fault(r) /\ Goes(r, "find")
  /\ UNCHANGED <<mongo, written, cache>>

\* _find_one with a key: what it read goes to the cache, a missing document
\* deletes the entry; an error looks like a missing document.
FindByKey(r) ==
  /\ req[r].at = "find"
  /\ \/ \E d \in IF Stored(req[r].key) = {} THEN {NoDoc} ELSE Stored(req[r].key) :
          /\ req' = [req EXCEPT
                 ![r].doc  = d,
                 ![r].id   = IF d = NoDoc \/ req[r].op \in {"register", "clone"} THEN @ ELSE d.id,
                 ![r].at   = IF req[r].key \in Sessions THEN AfterLookup(r, d) ELSE "fill",
                 ![r].then = AfterLookup(r, d)]
          /\ NoFault
     \/ Fault(r) /\ Goes(r, AfterLookup(r, NoDoc))
  /\ UNCHANGED <<mongo, written, cache>>

\* _find_one with an _id: cached if it has a key.
FindById(r) ==
  /\ req[r].at = "byId"
  /\ \/ LET d == mongo[req[r].id] IN
        /\ IF d # NoDoc /\ d.key # NoKey
           THEN Fills(r, d, AfterById(r, d))
           ELSE req' = [req EXCEPT ![r].at = AfterById(r, d), ![r].doc = d]
        /\ NoFault
     \/ Fault(r) /\ req' = [req EXCEPT ![r].at = AfterById(r, NoDoc), ![r].doc = NoDoc]
  /\ UNCHANGED <<mongo, written, cache>>

\* _sync_cache after a command of Mongo.
FillKey(r) == IF req[r].doc = NoDoc THEN req[r].key ELSE req[r].doc.key

Fill(r) ==
  /\ req[r].at = "fill"
  /\ Goes(r, req[r].then)
  /\ \/ cache' = [cache EXCEPT ![FillKey(r)] = req[r].doc] /\ NoFault
     \/ Fault(r) /\ UNCHANGED cache
  /\ UNCHANGED <<mongo, written>>

\* fetch_agent_from_platform: the platform answers or not.
Fetch(r) ==
  /\ req[r].at = "fetch"
  /\ \E at \in {"insert", "failed"} : Goes(r, at)
  /\ UNCHANGED <<mongo, written, cache, faults, disturbed>>

\* Faulty variant: half a document is stored.
SyncedAgentHalf(r) == [id |-> r, key |-> req[r].key, a |-> r]

\* What is inserted.  build_and_persist_agent and register_agent_metadata write
\* every field, save_session all but the MCP tools of the envelope...
SyncedAgent(r) == [id |-> r, key |-> req[r].key, a |-> r, b |-> r, tools |-> NoKey]
NewMetadata(r) == [id |-> r, key |-> req[r].key, a |-> r, b |-> r, tools |-> NoKey]
SavedSession(r) == [id |-> r, key |-> req[r].key, a |-> r, b |-> r, tools |-> NoKey]

\* ... clone_session copies those of its source...
ClonedSession(r) == [req[r].doc EXCEPT !.id = r, !.key = req[r].id]

\* ... and an agent that is registered has no agent_id before it has an _id.
FreshAgent(r)  == [id |-> r, key |-> NoKey, a |-> r, b |-> r, tools |-> NoKey]
CopiedAgent(r) == [req[r].doc EXCEPT !.id = r, !.key = NoKey]

NewDoc(r) ==
  CASE req[r].op \in {"sync", "resolve"} -> SyncedAgent(r)
    [] req[r].op = "create" -> NewMetadata(r)
    [] req[r].op = "save"   -> SavedSession(r)
    [] req[r].op = "clone"  -> ClonedSession(r)
    [] OTHER -> IF req[r].key \in Templated THEN CopiedAgent(r) ELSE FreshAgent(r)

Insert(r) ==
  /\ req[r].at = "insert"
  /\ \/ LET d == NewDoc(r) IN
        /\ mongo' = [mongo EXCEPT ![r] = d]
        /\ written' = written \cup {r}
        /\ req' = [req EXCEPT ![r].doc = d, ![r].id = r,
             ![r].at = CASE req[r].op \in {"save", "clone"} -> "done"
                         [] req[r].op = "register" ->
                              IF req[r].key \in Templated THEN "byId" ELSE "write"
                         [] OTHER -> "fill",
             ![r].then = IF req[r].op = "resolve" THEN "check" ELSE "done"]
        /\ NoFault /\ UNCHANGED cache
     \/ Breaks(r)

\* What is set on document d: the agent_id of a new agent, with the fields of
\* the request when it was copied from a template...
Stamped(r, d)  == [d EXCEPT !.key = r]
Applied(r, d)  == [d EXCEPT !.key = r, !.a = r]

\* ... one field of an agent, and its agent_id where it is missing; one field
\* of a metadata document...
SetField(r, d) == IF req[r].field = "a" THEN [d EXCEPT !.a = r] ELSE [d EXCEPT !.b = r]
AgentUpdated(r, d) == SetField(r, [d EXCEPT !.key = IF @ = NoKey THEN d.id ELSE @])
MetadataUpdated(r, d) == SetField(r, d)

\* ... and what save_session copies of an envelope.  Faulty variant: its
\* messages only.
MessagesSaved(r, d) == [d EXCEPT !.a = r]
SessionSaved(r, d) == [d EXCEPT !.a = r, !.b = r]

Updated(r, d) ==
  CASE req[r].op = "save"     -> SessionSaved(r, d)
    [] req[r].op = "change"   -> MetadataUpdated(r, d)
    [] req[r].op = "register" -> IF req[r].key \in Templated THEN Applied(r, d) ELSE Stamped(r, d)
    [] OTHER                  -> AgentUpdated(r, d)

\* update_one matches the document or, when it has been deleted, nothing.
Matched(r) ==
  IF mongo[req[r].id] = NoDoc THEN UNCHANGED <<mongo, written>>
  ELSE /\ mongo' = [mongo EXCEPT ![req[r].id] = Updated(r, @)]
       /\ written' = written \cup {r}

\* Faulty variants: the whole of base_doc is written; the entry is filled
\* although Mongo has refused the write.
WriteWhole(r) ==
  /\ req[r].at = "write" /\ mongo[req[r].id] # NoDoc
  /\ mongo' = [mongo EXCEPT ![req[r].id] = Updated(r, req[r].doc)]
  /\ written' = written \cup {r}
  /\ Fills(r, Updated(r, req[r].doc), "done") /\ NoFault /\ UNCHANGED cache

WriteBlind(r) ==
  /\ req[r].at = "write" /\ req[r].op # "save"
  /\ Fault(r)
  /\ cache' = [cache EXCEPT ![req[r].doc.key] = Updated(r, req[r].doc)]
  /\ Goes(r, "failed") /\ UNCHANGED <<mongo, written>>

\* _update_one: Mongo gets the fields, the cache base_doc with the fields,
\* whether a document was matched or not.
Write(r) ==
  /\ req[r].at = "write"
  /\ \/ /\ Matched(r)
        /\ IF req[r].op = "save" THEN Goes(r, "done")
           ELSE Fills(r, Updated(r, req[r].doc), "done")
        /\ NoFault /\ UNCHANGED cache
     \/ Breaks(r)

\* Faulty variant: the entry of the deleted document stays.
RemoveOnly(r) ==
  /\ req[r].at = "remove"
  /\ mongo' = [mongo EXCEPT ![req[r].id] = NoDoc]
  /\ Goes(r, "done") /\ NoFault /\ UNCHANGED <<written, cache>>

\* _delete_one
Remove(r) ==
  /\ req[r].at = "remove"
  /\ \/ /\ mongo' = [mongo EXCEPT ![req[r].id] = NoDoc]
        /\ Goes(r, IF req[r].doc = NoDoc THEN "done" ELSE "drop")
        /\ NoFault /\ UNCHANGED <<written, cache>>
     \/ Breaks(r)

Drop(r) ==
  /\ req[r].at = "drop"
  /\ Goes(r, "done")
  /\ \/ cache' = [cache EXCEPT ![req[r].doc.key] = NoDoc] /\ NoFault
     \/ Fault(r) /\ UNCHANGED cache
  /\ UNCHANGED <<mongo, written>>

\* set_extended_session_data, then _save_session_to_mongo in a task of its own.
Envelope(r) ==
  /\ req[r].at = "envelope"
  /\ Goes(r, "find")
  /\ \/ cache' = [cache EXCEPT ![req[r].key] =
                      [Seed(req[r].key) EXCEPT !.a = r, !.b = r, !.tools = r]]
        /\ NoFault
     \/ Fault(r) /\ UNCHANGED cache
  /\ UNCHANGED <<mongo, written>>

\* The other document a request needs: the metadata of the agents' type, or the
\* agent that metadata names, if it names one (of the agents one stands for
\* all).  What Mongo has is cached; the entry of a name it has not is missing
\* already, since metadata is never deleted.
Needed(r) ==
  IF req[r].op \in {"create", "change"} THEN {mongo[Template]} \ {NoDoc} ELSE Stored(AgentType)

Unasked(r) == req[r].op \in {"create", "change"} \/ cache[AgentType] # NoDoc

Check(r) ==
  /\ req[r].at = "check"
  /\ \/ Unasked(r) /\ Goes(r, AfterCheck(r)) /\ NoFault
     \/ \E d \in Needed(r) : req' = [req EXCEPT ![r].at = "each", ![r].todo = {d}] /\ NoFault
     \/ Needed(r) = {} /\ Goes(r, "failed") /\ NoFault
     \/ Fault(r) /\ Goes(r, "failed")
  /\ UNCHANGED <<mongo, written, cache>>

\* get_all_docs, get_all_agent_metadata: one query, then one entry at a time.
ListAll(r) ==
  /\ req[r].at = "list"
  /\ \/ /\ req' = [req EXCEPT ![r].at = "each",
                     ![r].todo = UNION {Stored(k) : k \in Collection(req[r].key)}]
        /\ NoFault
     \/ Fault(r) /\ Goes(r, "done")
  /\ UNCHANGED <<mongo, written, cache>>

\* One of them at a time; then the request goes on.
CacheEach(r) ==
  /\ req[r].at = "each"
  /\ \/ /\ req[r].todo = {}
        /\ Goes(r, AfterCheck(r)) /\ NoFault /\ UNCHANGED cache
     \/ \E d \in req[r].todo :
          /\ req' = [req EXCEPT ![r].todo = @ \ {d}]
          /\ \/ cache' = [cache EXCEPT ![d.key] = d] /\ NoFault
             \/ Fault(r) /\ UNCHANGED cache
  /\ UNCHANGED <<mongo, written>>

\* An entry reaches its TTL.
Expire(k) ==
  /\ cache[k] # NoDoc
  /\ cache' = [cache EXCEPT ![k] = NoDoc]
  /\ UNCHANGED <<mongo, written, req, faults, disturbed>>

Step(r) ==
  \/ Start(r) \/ CacheGet(r) \/ FindByKey(r) \/ FindById(r) \/ Fill(r) \/ Fetch(r)
  \/ Insert(r) \/ Write(r) \/ Remove(r) \/ Drop(r) \/ Envelope(r) \/ Check(r) \/ ListAll(r) \/ CacheEach(r)

Next == (\E r \in Reqs : Step(r)) \/ (\E k \in Keys : Expire(k))

Spec == Init /\ [][Next]_vars

-----------------------------------------------------------------------------
(* Properties.                                                             *)

TypeOK ==
  /\ mongo \in [Ids -> Docs \cup {NoDoc}]
  /\ written \subseteq Reqs
  /\ cache \in [Keys -> Docs \cup {NoDoc}]
  /\ req \in [Reqs -> Request]
  /\ faults \in 0..MaxFaults
  /\ disturbed \subseteq Keys

\* No request is about to change what is stored under k.
Quiet(k) == \A r \in Reqs : Active(r) /\ Changes(req[r].op) => k \notin TouchedBy(r)

\* The maintenance of the cache is complete: where no command has failed and
\* no writer has overlapped with another request, an entry is the document.
CacheAgrees ==
  \A k \in Keys \ (Sessions \cup disturbed) :
    Quiet(k) /\ cache[k] # NoDoc => Stored(k) = {cache[k]}

\* Saves of a session that do not overlap leave Mongo with one document, the
\* copy that outlives the TTL; it agrees with the envelope that Redis has in
\* the fields that save_session copies (mongo_client.py:458), of which the MCP
\* tools are not one.
SessionCopiesAgree ==
  \A s \in Sessions \ disturbed :
    Quiet(s) /\ cache[s] # NoDoc =>
      /\ Cardinality(Stored(s)) = 1
      /\ \A d \in Stored(s) : d.a = cache[s].a /\ d.b = cache[s].b

\* However requests interleave and commands fail, what the cache serves of a
\* document that Mongo has is made of fields that Mongo took: no request that
\* failed, or has not come to Mongo yet, shows in it.  Of a document that has
\* been deleted this is false: an update that matched none is cached all the
\* same (mongo_topology.py:520).
CachedWasWritten ==
  \A k \in Keys \ Sessions : cache[k] # NoDoc /\ mongo[cache[k].id] # NoDoc =>
    {cache[k].a, cache[k].b} \cap Reqs \subseteq written

\* However they interleave, an update of one field of a document is not undone
\* by an update of the other, though both started from the same base_doc.
UpdatesSurvive ==
  \A r \in Reqs :
    LET i == req[r].id IN
    req[r].op \in {"update", "change"} /\ r \in written /\ mongo[i] # NoDoc =>
      LET v == IF req[r].field = "a" THEN mongo[i].a ELSE mongo[i].b
      IN v \in written /\ req[v].id = i /\ req[v].field = req[r].field
=============================================================================
