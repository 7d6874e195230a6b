--------------------------- MODULE DocStoreProofs ----------------------------
(***************************************************************************)
(* For any requests on any agents, metadata and sessions, and any number   *)
(* of failing commands: the types, and that what the cache serves of a     *)
(* document Mongo has is made of fields that Mongo took (DocInv); then     *)
(* what becomes of the copies of a document: an update of one field        *)
(* survives updates of the other, and the cache and Mongo agree on every   *)
(* key that nothing has disturbed.                                         *)
(*                                                                         *)
(* PathInv follows every request from command to command: which documents  *)
(* go with which keys (FitsOK), and what a request has inserted or found   *)
(* where it is (PathOK).  An update's _id then stays that of the document  *)
(* it found, which is enough for UpdatesSurvive.  CopiesInv is about the   *)
(* keys that no failed command and no overlapping writer has disturbed:    *)
(* there, what a request has read is still what Mongo has (Views), since   *)
(* nobody else touches the key, and an entry of the cache is the document, *)
(* unless the request that has just written it is on its way to replace it *)
(* (KeyOK).                                                                *)
(***************************************************************************)
EXTENDS DocStore, FiniteSetTheorems, TLAPS

\* Where the flow of a request is, or goes when it has filled the cache.
Ahead(r, at) == req[r].at = at \/ (req[r].at = "fill" /\ req[r].then = at)

\* ... or has looked up another document that it needs.
Heading(r, at) ==
  Ahead(r, at) \/ ((Ahead(r, "check") \/ req[r].at = "each") /\ AfterCheck(r) = at)

\* A request that has still to insert.
Early(r) ==
  \/ \E p \in {"idle", "lookup", "find", "fetch", "envelope", "insert"} : Heading(r, p)
  \/ Ahead(r, "byId") /\ req[r].id # r

Changers == {"update", "change", "save"}
Checked  == {"resolve", "legacy", "create", "change"}

\* The documents it needs have been found when a request inserts or writes,
\* and a request to register an agent writes only what it has inserted.
FlowOK(r) ==
  /\ req[r].key \in KeysOf[req[r].op]
  /\ req[r].at = "idle" => req[r].op = "get" /\ req[r].id = Template
  /\ req[r].at = "lookup" => req[r].op \notin {"save", "clone", "update", "legacy", "list"}
  /\ Early(r) => r \notin written
  /\ req[r].at = "envelope" => req[r].op = "save"
  /\ req[r].at = "list" => req[r].op = "list"
  /\ req[r].op = "load" => req[r].at \in {"lookup", "find", "done"}
  /\ req[r].at = "fill" =>
       req[r].then \in {"done", "failed", "fetch", "insert", "write", "byId", "remove", "check"}
  /\ Ahead(r, "check") => req[r].op \in Checked
  /\ req[r].at = "each" => req[r].op \in Checked \cup {"list"}
  /\ Ahead(r, "fetch") => req[r].op \in {"sync", "resolve"}
  /\ Ahead(r, "byId") => req[r].op \in {"update", "legacy", "delete", "register"}
  /\ Heading(r, "insert") =>
       /\ req[r].op \in {"sync", "resolve", "create", "save", "clone", "register"}
       /\ req[r].op = "clone" \/ (req[r].op = "register" /\ req[r].key \in Templated) =>
            req[r].doc # NoDoc /\ {req[r].doc.a, req[r].doc.b} \cap Reqs \subseteq written
  /\ Heading(r, "write") =>
       /\ req[r].op \in Changers \/ (req[r].op = "register" /\ req[r].id = r)
       /\ req[r].doc # NoDoc /\ req[r].doc.id = req[r].id

\* What a document that was stored holds was written, unless it has been
\* deleted: then an update that found nothing may have gone into a copy of it.
GoodFor(d, m, w) ==
  /\ d.id \in Reqs => d.id \in w
  /\ m[d.id] # NoDoc => {d.a, d.b} \cap Reqs \subseteq w

Good(d) == GoodFor(d, mongo, written)

\* A copy that is the document as it is.
Current(d) == mongo[d.id] = d

\* Every copy of a document is such, but for the envelopes of sessions, which
\* Redis has first.
ValuesOK ==
  /\ \A i \in Ids : mongo[i] # NoDoc => mongo[i].id = i /\ Good(mongo[i])
  /\ \A k \in Keys \ Sessions : cache[k] # NoDoc => Good(cache[k])
  /\ \A r \in Reqs : /\ req[r].op # "load" /\ req[r].doc # NoDoc => Good(req[r].doc)
                     /\ \A d \in req[r].todo : Good(d)

\* A document called after a request was inserted by it.
InsertedOK == \A r \in Reqs : mongo[r] # NoDoc => r \in written

DocInv == TypeOK /\ (\A r \in Reqs : FlowOK(r)) /\ ValuesOK /\ InsertedOK

USE DocStoreAssumption, NoDocAssumption

-----------------------------------------------------------------------------
LEMMA KeysTyped == \A o \in Ops : KeysOf[o] \subseteq Keys
BY DEF Ops, KeysOf, Keys, Named

LEMMA TouchedTyped ==
  ASSUME NEW o, NEW k \in Keys, NEW i \in Ids, NEW r \in Reqs
  PROVE  Touched(o, k, i, r) \subseteq Keys
BY DEF Touched, Collection, Keys, Ids, Named

LEMMA FaultTyped ==
  ASSUME TypeOK, NEW r \in Reqs, Fault(r) \/ NoFault
  PROVE  faults' \in 0..MaxFaults /\ disturbed' \subseteq Keys
<1>1. req[r].key \in Keys /\ req[r].id \in Ids
  BY DEF TypeOK, Request
<1>2. TouchedBy(r) \subseteq Keys
  BY <1>1, TouchedTyped DEF TouchedBy
<1> QED BY <1>2 DEF TypeOK, Fault, NoFault

\* What one request has to show for a step of it to keep the invariant: what
\* it stores, caches and holds was good before the step or is good after it.
Fine(d) == d \in Docs /\ (Good(d) \/ GoodFor(d, mongo', written'))

\* Nothing comes into Mongo but what r inserts, once.
Advances(r) ==
  /\ written' \in {written, written \cup {r}}
  /\ \A i \in Ids : mongo[i] = NoDoc /\ mongo'[i] # NoDoc => i = r /\ r \notin written /\ r \in written'

LEMMA GoodLasts ==
  ASSUME NEW r \in Reqs, Advances(r), NEW d \in Docs, Good(d)
  PROVE  GoodFor(d, mongo', written')
<1>1. d.id \in Ids
  BY DEF Docs
<1> QED BY <1>1 DEF Good, GoodFor, Advances

LEMMA OneStep ==
  ASSUME DocInv, NEW r \in Reqs, NEW x \in Request, req' = [req EXCEPT ![r] = x],
         FlowOK(r)', Advances(r),
         Fault(r) \/ NoFault \/ (faults' \in 0..MaxFaults /\ disturbed' \subseteq Keys),
         mongo' \in [Ids -> Docs \cup {NoDoc}], cache' \in [Keys -> Docs \cup {NoDoc}],
         \A i \in Ids : mongo'[i] # NoDoc => mongo'[i].id = i /\ Fine(mongo'[i]),
         \A k \in Keys \ Sessions : cache'[k] # NoDoc => Fine(cache'[k]),
         x.op # "load" /\ x.doc # NoDoc => Fine(x.doc),
         \A d \in x.todo : Fine(d)
  PROVE  DocInv'
<1>1. req'[r] = x /\ \A q \in Reqs \ {r} : req'[q] = req[q]
  BY DEF DocInv, TypeOK
<1>2. written \subseteq written' /\ written' \subseteq Reqs /\ \A q \in Reqs \ {r} : q \in written' <=> q \in written
  BY DEF Advances, DocInv, TypeOK
<1>3. \A d : Fine(d) => GoodFor(d, mongo', written')
  BY GoodLasts DEF Fine
<1>6. TypeOK'
  <2>1. req' \in [Reqs -> Request]
    BY DEF DocInv, TypeOK
  <2>2. faults' \in 0..MaxFaults /\ disturbed' \subseteq Keys
    BY FaultTyped DEF DocInv
  <2> QED BY <1>2, <2>1, <2>2 DEF TypeOK
<1>7. \A q \in Reqs : FlowOK(q)'
  <2>1. \A q \in Reqs \ {r} : FlowOK(q) => FlowOK(q)'
    BY <1>1, <1>2 DEF FlowOK, Ahead, Heading, AfterCheck, Checked, Early
  <2> QED BY <2>1 DEF DocInv
<1>8. ValuesOK'
  <2> DEFINE NowGood(d) == GoodFor(d, mongo', written')
  <2>0. \A d \in Docs : Good(d) => NowGood(d)
    BY GoodLasts
  <2>1. \A q \in Reqs \ {r} : /\ req'[q].op # "load" /\ req'[q].doc # NoDoc => NowGood(req'[q].doc)
                              /\ \A d \in req'[q].todo : NowGood(d)
    <3> HIDE DEF NowGood
    <3> TAKE q \in Reqs \ {r}
    <3>1. req'[q] = req[q]
      BY <1>1
    <3>2. /\ req[q].op # "load" /\ req[q].doc # NoDoc => Good(req[q].doc)
          /\ \A d \in req[q].todo : Good(d)
      BY DEF DocInv, ValuesOK
    <3>3. req[q].doc \in Docs \cup {NoDoc} /\ req[q].todo \subseteq Docs
      BY DEF DocInv, TypeOK, Request
    <3> QED BY <2>0, <3>1, <3>2, <3>3
  <2>2. /\ req'[r].op # "load" /\ req'[r].doc # NoDoc => NowGood(req'[r].doc)
        /\ \A d \in req'[r].todo : NowGood(d)
    BY <1>1, <1>3
  <2>3. \A i \in Ids : mongo'[i] # NoDoc => mongo'[i].id = i /\ NowGood(mongo'[i])
    BY <1>3
  <2>4. \A k \in Keys \ Sessions : cache'[k] # NoDoc => NowGood(cache'[k])
    BY <1>3
  <2> QED BY <2>1, <2>2, <2>3, <2>4 DEF ValuesOK, Good, GoodFor
<1>9. InsertedOK'
  <2>1. Reqs \subseteq Ids
    BY DEF Ids
  <2> QED BY <1>2, <2>1 DEF DocInv, InsertedOK, Advances
<1> QED BY <1>6, <1>7, <1>8, <1>9 DEF DocInv

LEMMA Known ==
  ASSUME DocInv, NEW r \in Reqs
  PROVE  /\ req[r] \in Request /\ req[r].op \in Ops /\ req[r].key \in Keys /\ req[r].id \in Ids
         /\ req[r].at \in Positions /\ req[r].then \in Positions /\ req[r].field \in {"a", "b"}
         /\ req[r].doc \in Docs \cup {NoDoc} /\ req[r].todo \subseteq Docs
         /\ FlowOK(r)
         /\ mongo \in [Ids -> Docs \cup {NoDoc}] /\ cache \in [Keys -> Docs \cup {NoDoc}]
         /\ written \subseteq Reqs
         /\ \A i \in Ids : mongo[i] # NoDoc => mongo[i].id = i /\ Good(mongo[i])
         /\ \A k \in Keys \ Sessions : cache[k] # NoDoc => Good(cache[k])
         /\ req[r].op # "load" /\ req[r].doc # NoDoc => Good(req[r].doc)
         /\ \A d \in req[r].todo : Good(d)
<1>1. req[r] \in Request
  BY DEF DocInv, TypeOK
<1> QED BY <1>1 DEF DocInv, TypeOK, ValuesOK, Request

\* Steps that leave Mongo alone and set at most one entry of the cache.
LEMMA CacheStep ==
  ASSUME DocInv, NEW r \in Reqs, NEW x \in Request, req' = [req EXCEPT ![r] = x],
         FlowOK(r)',
         Fault(r) \/ NoFault \/ (faults' \in 0..MaxFaults /\ disturbed' \subseteq Keys),
         mongo' = mongo, written' = written,
         \/ cache' = cache
         \/ \E k, d : /\ cache' = [cache EXCEPT ![k] = d] /\ d \in Docs \cup {NoDoc}
                      /\ d = NoDoc \/ k \in Sessions \/ Good(d),
         x.op # "load" /\ x.doc # NoDoc => Good(x.doc),
         \A d \in x.todo : Good(d)
  PROVE  DocInv'
<1>1. Advances(r) /\ \A i \in Ids : mongo'[i] # NoDoc => mongo'[i].id = i /\ Fine(mongo'[i])
  BY Known DEF Fine, Advances
<1>2. cache' \in [Keys -> Docs \cup {NoDoc}] /\ \A k \in Keys \ Sessions : cache'[k] # NoDoc => Good(cache'[k])
  <2>1. CASE cache' = cache
    BY <2>1, Known
  <2>2. CASE \E k, d : /\ cache' = [cache EXCEPT ![k] = d] /\ d \in Docs \cup {NoDoc}
                       /\ d = NoDoc \/ k \in Sessions \/ Good(d)
    <3>1. PICK k, d : /\ cache' = [cache EXCEPT ![k] = d] /\ d \in Docs \cup {NoDoc}
                      /\ d = NoDoc \/ k \in Sessions \/ Good(d)
      BY <2>2
    <3>2. cache' \in [Keys -> Docs \cup {NoDoc}]
      BY <3>1, Known
    <3>3. \A j \in Keys \ Sessions : cache'[j] # NoDoc => Good(cache'[j])
      <4> SUFFICES ASSUME NEW j \in Keys \ Sessions, cache'[j] # NoDoc PROVE Good(cache'[j])
        OBVIOUS
      <4>1. CASE j = k
        BY <3>1, <4>1, Known
      <4>2. CASE j # k
        <5>1. cache'[j] = cache[j]
          BY <3>1, <4>2, Known
        <5> QED BY <5>1, Known
      <4> QED BY <4>1, <4>2
    <3> QED BY <3>2, <3>3
  <2> QED BY <2>1, <2>2
<1>3. \A k \in Keys \ Sessions : cache'[k] # NoDoc => Fine(cache'[k])
  BY <1>2 DEF Fine
<1>4. /\ x.op # "load" /\ x.doc # NoDoc => Fine(x.doc)
      /\ \A d \in x.todo : Fine(d)
  BY DEF Fine, Request
<1>5. mongo' \in [Ids -> Docs \cup {NoDoc}]
  BY Known
<1> QED BY <1>1, <1>2, <1>3, <1>4, <1>5, OneStep

\* Goes and Fills, field by field.
LEMMA Going ==
  ASSUME DocInv, NEW r \in Reqs, NEW at \in Positions, Goes(r, at)
  PROVE  LET x == [req[r] EXCEPT !.at = at] IN
         /\ x \in Request /\ req' = [req EXCEPT ![r] = x] /\ req'[r] = x
         /\ x.op = req[r].op /\ x.key = req[r].key /\ x.at = at /\ x.then = req[r].then
         /\ x.id = req[r].id /\ x.doc = req[r].doc /\ x.todo = req[r].todo
<1>1. req[r] \in Request /\ req \in [Reqs -> Request]
  BY DEF DocInv, TypeOK
<1> QED BY <1>1 DEF Goes, Request

LEMMA GoingFields ==
  ASSUME DocInv, NEW r \in Reqs, NEW at \in Positions, Goes(r, at)
  PROVE  /\ req'[r].op = req[r].op /\ req'[r].key = req[r].key /\ req'[r].at = at
         /\ req'[r].then = req[r].then /\ req'[r].id = req[r].id /\ req'[r].doc = req[r].doc
<1>1. req[r] \in Request /\ req \in [Reqs -> Request]
  BY DEF DocInv, TypeOK
<1> QED BY <1>1 DEF Goes, Request

LEMMA GoesStep ==
  ASSUME DocInv, NEW r \in Reqs, NEW at \in Positions \ {"idle"}, Goes(r, at),
         FlowOK(r)',
         Fault(r) \/ NoFault \/ (faults' \in 0..MaxFaults /\ disturbed' \subseteq Keys),
         mongo' = mongo, written' = written,
         \/ cache' = cache
         \/ \E k, d : /\ cache' = [cache EXCEPT ![k] = d] /\ d \in Docs \cup {NoDoc}
                      /\ d = NoDoc \/ k \in Sessions \/ Good(d)
  PROVE  DocInv'
<1> DEFINE x == [req[r] EXCEPT !.at = at]
<1>1. /\ x \in Request /\ req' = [req EXCEPT ![r] = x]
      /\ x.at = at /\ x.op = req[r].op /\ x.doc = req[r].doc /\ x.todo = req[r].todo
  BY Going
<1>2. /\ x.op # "load" /\ x.doc # NoDoc => Good(x.doc)
      /\ \A d \in x.todo : Good(d)
  BY <1>1, Known
<1> HIDE DEF x
<1> QED BY <1>1, <1>2, CacheStep

-----------------------------------------------------------------------------
LEMMA StartKeeps == ASSUME DocInv, NEW r \in Reqs, Start(r) PROVE DocInv'
<1> DEFINE Begins(o, k, i, f) ==
      /\ k \in Reqs => mongo[k] # NoDoc
      /\ req' = [req EXCEPT ![r] = [op |-> o, key |-> k, field |-> f, at |-> Flow(o, k).first,
                   then |-> "idle", id |-> i, doc |-> NoDoc, todo |-> {}]]
      /\ disturbed' = disturbed \cup Overlapping(o, k, i, r)
           \cup {t \in {i} : o = "clone" /\ Stored(t) # {}}
<1>1. PICK o \in Ops : \E k \in KeysOf[o] : \E i \in FirstIds(o, k) : \E f \in {"a", "b"} : Begins(o, k, i, f)
  BY DEF Start
<1>2. PICK k \in KeysOf[o] : \E i \in FirstIds(o, k) : \E f \in {"a", "b"} : Begins(o, k, i, f)
  BY <1>1
<1>3. PICK i \in FirstIds(o, k) : \E f \in {"a", "b"} : Begins(o, k, i, f)
  BY <1>2
<1>4. PICK f \in {"a", "b"} : Begins(o, k, i, f)
  BY <1>3
<1> DEFINE x == [op |-> o, key |-> k, field |-> f, at |-> Flow(o, k).first,
                 then |-> "idle", id |-> i, doc |-> NoDoc, todo |-> {}]
<1>5. req[r].at = "idle" /\ mongo' = mongo /\ written' = written /\ cache' = cache /\ faults' = faults /\ req[r].op = "get" /\ req[r].id = Template
  BY Known DEF Start, FlowOK
<1>6. k \in Keys /\ i \in Ids
  <2>1. k \in Keys
    BY <1>4, KeysTyped
  <2>2. \A d \in Stored(k) : d.id \in Ids
    BY Known DEF Stored, Docs
  <2>3. i \in Ids
    BY <1>4, <2>1, <2>2 DEF FirstIds, Keys, Ids, Named
  <2> QED BY <2>1, <2>3
<1>11. r \notin written /\ r \notin written'
  BY <1>5, Known DEF FlowOK, Ahead, Heading, Early
<1>7. k # r
  BY <1>4, <1>11 DEF DocInv, InsertedOK
<1>8. Flow(o, k).first \in Positions \ {"idle", "fill", "done"}
  BY <1>4 DEF Flow, Positions, Ops, KeysOf, GetFlow, ListFlow, SyncFlow, ResolveFlow, LegacyFlow, CreateFlow, ChangeFlow,
         UpdateFlow, DeleteFlow, RegisterFlow, SaveFlow, LoadFlow, CloneFlow
<1>9. x \in Request
  BY <1>4, <1>6, <1>8 DEF Request, Positions
<1>10. FlowOK(r)'
  <2>1. req'[r] = x
    BY <1>4, Known DEF DocInv, TypeOK
  <2>3. /\ Flow(o, k).first = "lookup" => o \notin {"save", "clone", "update", "legacy", "list"}
        /\ Flow(o, k).first = "envelope" => o = "save"
        /\ o = "load" => Flow(o, k).first = "lookup"
        /\ Flow(o, k).first = "list" => o = "list"
        /\ Flow(o, k).first \in {"lookup", "find", "byId", "envelope", "list"}
        /\ Flow(o, k).first = "byId" => o \in {"update", "legacy"}
    BY <1>4 DEF Flow, Ops, KeysOf, GetFlow, ListFlow, SyncFlow, ResolveFlow, LegacyFlow, CreateFlow, ChangeFlow,
           UpdateFlow, DeleteFlow, RegisterFlow, SaveFlow, LoadFlow, CloneFlow
  <2> QED BY <1>4, <1>8, <1>11, <2>1, <2>3 DEF FlowOK, Ahead, Heading, AfterCheck, Checked, Early
<1>12. disturbed' \subseteq Keys
  <2>1. Overlapping(o, k, i, r) \subseteq Keys
    BY <1>6, TouchedTyped DEF Overlapping
  <2> QED BY <1>4, <1>6, <2>1 DEF DocInv, TypeOK, Ids, Keys
<1> HIDE DEF x
<1>13. x.at # "idle" /\ x.doc = NoDoc /\ x.todo = {}
  BY <1>8 DEF x
<1>14. faults' \in 0..MaxFaults
  BY <1>5 DEF DocInv, TypeOK
<1>15. req' = [req EXCEPT ![r] = x]
  BY <1>4 DEF x
<1> QED BY <1>5, <1>9, <1>10, <1>12, <1>13, <1>14, <1>15, CacheStep

\* Where a lookup by key leads.
LEMMA Lookups ==
  ASSUME DocInv, NEW r \in Reqs, req[r].at \in {"lookup", "find"}, NEW d
  PROVE  /\ AfterLookup(r, d) \in {"done", "failed", "fetch", "insert", "write", "byId", "check"}
         /\ AfterLookup(r, d) = "fetch" => req[r].op \in {"sync", "resolve"}
         /\ AfterLookup(r, d) = "byId" => req[r].op \in {"delete", "register"}
         /\ AfterLookup(r, d) = "check" =>
              req[r].op \in {"resolve", "create", "change"} /\ (req[r].op = "change" => d # NoDoc)
         /\ AfterLookup(r, d) = "insert" =>
              /\ req[r].op \in {"save", "clone", "register"}
              /\ req[r].op = "clone" => d # NoDoc
              /\ req[r].op = "register" => req[r].key \notin Templated
         /\ AfterLookup(r, d) = "write" => req[r].op \in Changers /\ d # NoDoc
         /\ req[r].op = "load" => AfterLookup(r, d) = "done"
         /\ r \notin written
<1>1. req[r].op \in Ops /\ FlowOK(r)
  BY Known
<1>2. r \notin written
  BY <1>1 DEF FlowOK, Ahead, Heading, AfterCheck, Checked, Early
<1> QED BY <1>1, <1>2 DEF AfterLookup, Flow, Ops, KeysOf, Changers, GetFlow, ListFlow, SyncFlow, ResolveFlow, LegacyFlow,
       CreateFlow, ChangeFlow, UpdateFlow, DeleteFlow, RegisterFlow, SaveFlow, LoadFlow, CloneFlow

LEMMA Retyped ==
  ASSUME NEW q \in Request, NEW d \in Docs \cup {NoDoc}, NEW i \in Ids,
         NEW at \in Positions, NEW then \in Positions
  PROVE  [q EXCEPT !.doc = d, !.id = i, !.at = at, !.then = then] \in Request
BY DEF Request

LEMMA CacheGetKeeps == ASSUME DocInv, NEW r \in Reqs, CacheGet(r) PROVE DocInv'
<1>1. req[r].at = "lookup" /\ mongo' = mongo /\ written' = written /\ cache' = cache
  BY DEF CacheGet
<1>2. FlowOK(r) /\ r \notin written
  BY <1>1, Known, Lookups
<1>3. CASE Goes(r, "find") /\ (NoFault \/ Fault(r))
  <2>0. "find" \in Positions \ {"idle"}
    BY DEF Positions
  <2>1. /\ req'[r].op = req[r].op /\ req'[r].key = req[r].key /\ req'[r].at = "find"
        /\ req'[r].then = req[r].then /\ req'[r].id = req[r].id /\ req'[r].doc = req[r].doc
    BY <1>3, <2>0, GoingFields
  <2>2. FlowOK(r)'
    BY <1>1, <1>2, <2>1 DEF FlowOK, Ahead, Heading, AfterCheck, Checked, Early
  <2> QED BY <1>1, <1>2, <1>3, <2>0, <2>2, GoesStep
<1>4. CASE /\ cache[req[r].key] # NoDoc /\ NoFault
           /\ req' = [req EXCEPT ![r].at = AfterLookup(r, cache[req[r].key]), ![r].doc = cache[req[r].key],
                        ![r].id = IF req[r].op = "register" THEN @ ELSE cache[req[r].key].id]
  <2> DEFINE d == cache[req[r].key]
             x == [req[r] EXCEPT !.at = AfterLookup(r, d), !.doc = d,
                                 !.id = IF req[r].op = "register" THEN @ ELSE d.id]
  <2>1. d \in Docs /\ d.id \in Ids
    BY <1>4, Known DEF Docs
  <2>2. AfterLookup(r, d) \in Positions \ {"idle", "lookup", "find", "fill", "envelope"}
    BY <1>1, Lookups DEF Positions
  <2>3. x \in Request /\ req' = [req EXCEPT ![r] = x]
    <3> DEFINE i == IF req[r].op = "register" THEN req[r].id ELSE d.id
    <3>1. i \in Ids /\ AfterLookup(r, d) \in Positions /\ req[r] \in Request /\ req[r].then \in Positions
      BY <2>1, <2>2, Known
    <3>2. x = [req[r] EXCEPT !.doc = d, !.id = i, !.at = AfterLookup(r, d), !.then = req[r].then]
      BY <3>1 DEF Request
    <3>3. req' = [req EXCEPT ![r] = x]
      BY <1>4
    <3> HIDE DEF i, x, d
    <3> QED BY <2>1, <3>1, <3>2, <3>3, Retyped
  <2>4. req'[r] = x
    BY <2>3 DEF DocInv, TypeOK
  <2>5. /\ x.op = req[r].op /\ x.key = req[r].key /\ x.at = AfterLookup(r, d) /\ x.doc = d /\ x.todo = req[r].todo
        /\ x.id = IF req[r].op = "register" THEN req[r].id ELSE d.id
    BY Known DEF Request
  <2> HIDE DEF x, d
  <2> DEFINE at == AfterLookup(r, d)
  <2>6. FlowOK(r)'
    <3>1.
          /\ at \in {"done", "failed", "fetch", "insert", "write", "byId", "check"}
          /\ at = "fetch" => req[r].op \in {"sync", "resolve"}
          /\ at = "byId" => req[r].op \in {"delete", "register"}
          /\ at = "check" => req[r].op \in {"resolve", "create", "change"} /\ (req[r].op = "change" => d # NoDoc)
          /\ at = "insert" => /\ req[r].op \in {"save", "clone", "register"}
                              /\ req[r].op = "clone" => d # NoDoc
                              /\ req[r].op = "register" => req[r].key \notin Templated
          /\ at = "write" => req[r].op \in Changers /\ d # NoDoc
          /\ req[r].op = "load" => at = "done"
      BY <1>1, Lookups
    <3>2. req[r].op \notin {"save", "clone", "update", "legacy", "list"} /\ req[r].key \in KeysOf[req[r].op] /\ written' = written
      BY <1>1, <1>2 DEF FlowOK
    <3> HIDE DEF at
    <3>3. req'[r].at = at
      BY <2>4, <2>5 DEF at
    <3> QED BY <1>2, <2>1, <2>4, <2>5, <3>1, <3>2, <3>3
            DEF FlowOK, Ahead, Heading, AfterCheck, Checked, Early, Changers
  <2>7. x.op # "load" => Good(x.doc)
    <3>1. ASSUME req[r].op # "load" PROVE req[r].key \in Keys \ Sessions
      BY <1>1, <1>2, <3>1, Known DEF FlowOK, KeysOf, Ops
    <3> QED BY <1>4, <2>5, <3>1, Known DEF d
  <2>8. \A e \in x.todo : Good(e)
    BY <2>5, Known
  <2> QED BY <1>1, <1>2, <1>4, <2>2, <2>3, <2>5, <2>6, <2>7, <2>8, CacheStep
<1> QED BY <1>3, <1>4 DEF CacheGet

LEMMA FindByKeyKeeps == ASSUME DocInv, NEW r \in Reqs, FindByKey(r) PROVE DocInv'
<1>1. req[r].at = "find" /\ mongo' = mongo /\ written' = written /\ cache' = cache
  BY DEF FindByKey
<1>2. FlowOK(r) /\ r \notin written
  BY <1>1, Known, Lookups
<1>3. CASE Fault(r) /\ Goes(r, AfterLookup(r, NoDoc))
  <2>1. AfterLookup(r, NoDoc) \in Positions \ {"idle", "lookup", "find", "fill", "envelope"}
    BY <1>1, Lookups DEF Positions
  <2>2. /\ req'[r].op = req[r].op /\ req'[r].key = req[r].key /\ req'[r].at = AfterLookup(r, NoDoc)
        /\ req'[r].then = req[r].then /\ req'[r].id = req[r].id /\ req'[r].doc = req[r].doc
    BY <1>3, <2>1, GoingFields
  <2>3. FlowOK(r)'
    BY <1>1, <1>2, <2>1, <2>2, Lookups DEF FlowOK, Ahead, Heading, AfterCheck, Checked, Early
  <2> QED BY <1>1, <1>2, <1>3, <2>1, <2>3, GoesStep
<1>4. ASSUME NEW d \in Stored(req[r].key) \cup {NoDoc}, NoFault,
             req' = [req EXCEPT
                 ![r].doc  = d,
                 ![r].id   = IF d = NoDoc \/ req[r].op \in {"register", "clone"} THEN @ ELSE d.id,
                 ![r].at   = IF req[r].key \in Sessions THEN AfterLookup(r, d) ELSE "fill",
                 ![r].then = AfterLookup(r, d)]
      PROVE  DocInv'
  <2> DEFINE x == [req[r] EXCEPT
                 !.doc  = d,
                 !.id   = IF d = NoDoc \/ req[r].op \in {"register", "clone"} THEN @ ELSE d.id,
                 !.at   = IF req[r].key \in Sessions THEN AfterLookup(r, d) ELSE "fill",
                 !.then = AfterLookup(r, d)]
  <2>1. /\ d = NoDoc \/ (d \in Docs /\ d.id \in Ids)
        /\ d # NoDoc => Good(d) /\ {d.a, d.b} \cap Reqs \subseteq written
    <3>1. CASE d \in Stored(req[r].key)
      <4>1. PICK i \in Ids : mongo[i] # NoDoc /\ d = mongo[i]
        BY <3>1 DEF Stored
      <4> QED BY <4>1, Known DEF Docs, Good, GoodFor
    <3> QED BY <1>4, <3>1
  <2>2. AfterLookup(r, d) \in Positions \ {"idle", "lookup", "find", "fill", "envelope"}
    BY <1>1, Lookups DEF Positions
  <2>3. x \in Request /\ req' = [req EXCEPT ![r] = x]
    <3> DEFINE i  == IF d = NoDoc \/ req[r].op \in {"register", "clone"} THEN req[r].id ELSE d.id
               at == IF req[r].key \in Sessions THEN AfterLookup(r, d) ELSE "fill"
    <3>1. i \in Ids /\ at \in Positions /\ d \in Docs \cup {NoDoc} /\ AfterLookup(r, d) \in Positions
      BY <2>1, <2>2, Known DEF Positions
    <3>2. x = [req[r] EXCEPT !.doc = d, !.id = i, !.at = at, !.then = AfterLookup(r, d)]
      OBVIOUS
    <3>0. req[r] \in Request
      BY Known
    <3> HIDE DEF i, at, x
    <3>3. x \in Request
      BY <3>0, <3>1, <3>2, Retyped
    <3> USE DEF i, at, x
    <3>4. req' = [req EXCEPT ![r] = x]
      BY <1>4
    <3> QED BY <3>3, <3>4
  <2>4. req'[r] = x
    BY <2>3 DEF DocInv, TypeOK
  <2>5. /\ x.op = req[r].op /\ x.key = req[r].key /\ x.then = AfterLookup(r, d)
        /\ x.doc = d /\ x.todo = req[r].todo
        /\ d # NoDoc /\ req[r].op \notin {"register", "clone"} => x.id = d.id
        /\ req[r].op = "register" => x.id = req[r].id
        /\ x.at = IF req[r].key \in Sessions THEN AfterLookup(r, d) ELSE "fill"
    BY Known DEF Request
  <2> HIDE DEF x
  <2>6. FlowOK(r)'
    <3>0. req[r].op = "load" => req[r].key \in Sessions
      BY <1>2 DEF FlowOK, KeysOf
    <3> DEFINE at == AfterLookup(r, d)
    <3>1.
          /\ at \in {"done", "failed", "fetch", "insert", "write", "byId", "check"}
          /\ at = "fetch" => req[r].op \in {"sync", "resolve"}
          /\ at = "byId" => req[r].op \in {"delete", "register"}
          /\ at = "check" => req[r].op \in {"resolve", "create", "change"} /\ (req[r].op = "change" => d # NoDoc)
          /\ at = "insert" => /\ req[r].op \in {"save", "clone", "register"}
                              /\ req[r].op = "clone" => d # NoDoc
                              /\ req[r].op = "register" => req[r].key \notin Templated
          /\ at = "write" => req[r].op \in Changers /\ d # NoDoc
          /\ req[r].op = "load" => at = "done"
      BY <1>1, Lookups
    <3>2. req[r].key \in KeysOf[req[r].op] /\ written' = written
      BY <1>1, <1>2 DEF FlowOK
    <3> HIDE DEF at
    <3>3. req'[r].then = at /\ (req'[r].at = IF req[r].key \in Sessions THEN at ELSE "fill")
      BY <2>4, <2>5 DEF at
    <3> QED BY <1>2, <2>1, <2>4, <2>5, <3>0, <3>1, <3>2, <3>3
            DEF FlowOK, Ahead, Heading, AfterCheck, Checked, Early, Changers
  <2>7. /\ x.op # "load" /\ x.doc # NoDoc => Good(x.doc)
        /\ \A e \in x.todo : Good(e)
    BY <2>1, <2>5, Known
  <2> QED BY <1>1, <1>2, <1>4, <2>2, <2>3, <2>5, <2>6, <2>7, CacheStep
<1>5. ASSUME ~(Fault(r) /\ Goes(r, AfterLookup(r, NoDoc)))
      PROVE  /\ NoFault
             /\ \E d \in Stored(req[r].key) \cup {NoDoc} :
                  req' = [req EXCEPT
                 ![r].doc  = d,
                 ![r].id   = IF d = NoDoc \/ req[r].op \in {"register", "clone"} THEN @ ELSE d.id,
                 ![r].at   = IF req[r].key \in Sessions THEN AfterLookup(r, d) ELSE "fill",
                 ![r].then = AfterLookup(r, d)]
  BY <1>5 DEF FindByKey
<1> QED BY <1>3, <1>4, <1>5

\* Where a lookup by _id leads.
LEMMA ById ==
  ASSUME DocInv, NEW r \in Reqs, req[r].at = "byId", NEW d
  PROVE  /\ AfterById(r, d) \in {"remove", "failed", "insert", "write", "check"}
         /\ AfterById(r, d) = "check" => req[r].op = "legacy"
         /\ AfterById(r, d) = "insert" => req[r].op = "register" /\ d # NoDoc /\ req[r].id # r
         /\ AfterById(r, d) = "write" =>
              /\ req[r].op \in Changers \/ (req[r].op = "register" /\ req[r].id = r)
              /\ d # NoDoc
         /\ req[r].op \in {"update", "legacy", "delete", "register"}
<1>1. req[r].op \in {"update", "legacy", "delete", "register"}
  BY Known DEF FlowOK, Ahead, Heading, AfterCheck, Checked, Early
<1> QED BY <1>1 DEF AfterById, Changers

LEMMA FindByIdKeeps == ASSUME DocInv, NEW r \in Reqs, FindById(r) PROVE DocInv'
<1>1. req[r].at = "byId" /\ mongo' = mongo /\ written' = written /\ cache' = cache
  BY DEF FindById
<1>2. FlowOK(r) /\ req[r].op \in {"update", "legacy", "delete", "register"}
  BY <1>1, Known, ById
<1> DEFINE Found(d) == d.id = req[r].id /\ {d.a, d.b} \cap Reqs \subseteq written
<1>3. ASSUME NEW d \in Docs \cup {NoDoc}, d = NoDoc \/ (Good(d) /\ Found(d)), NEW at \in {"fill", AfterById(r, d)},
             NEW then \in Positions, at = "fill" => then = AfterById(r, d), Fault(r) \/ NoFault,
             req' = [req EXCEPT ![r].doc = d, ![r].id = req[r].id, ![r].at = at, ![r].then = then]
      PROVE  DocInv'
  <2> DEFINE x == [req[r] EXCEPT !.doc = d, !.id = req[r].id, !.at = at, !.then = then]
  <2>1. at \in {"remove", "failed", "insert", "write", "check", "fill"} /\ at \in Positions \ {"idle"}
    BY <1>1, <1>3, ById DEF Positions
  <2>2. req[r] \in Request /\ req[r].id \in Ids
    BY Known
  <2>3. x \in Request
    BY <1>3, <2>1, <2>2, Retyped
  <2>4. req' = [req EXCEPT ![r] = x]
    BY <1>3
  <2>5. req'[r] = x
    BY <2>3, <2>4 DEF DocInv, TypeOK
  <2>6. /\ x.op = req[r].op /\ x.key = req[r].key /\ x.id = req[r].id /\ x.at = at /\ x.then = then
        /\ x.doc = d /\ x.todo = req[r].todo
    BY <2>2 DEF Request
  <2> HIDE DEF x
  <2>7. FlowOK(r)'
    <3>1. /\ AfterById(r, d) \in {"remove", "failed", "insert", "write", "check"}
          /\ AfterById(r, d) = "check" => req[r].op = "legacy"
          /\ AfterById(r, d) = "insert" => req[r].op = "register" /\ d # NoDoc /\ req[r].id # r
          /\ AfterById(r, d) = "write" =>
              /\ req[r].op \in Changers \/ (req[r].op = "register" /\ req[r].id = r)
              /\ d # NoDoc
      BY <1>1, ById
    <3>2. /\ req[r].key \in KeysOf[req[r].op] /\ written' = written
          /\ req[r].id # r => r \notin written
      BY <1>1, <1>2 DEF FlowOK, Ahead, Early
    <3> QED BY <1>2, <1>3, <2>1, <2>5, <2>6, <3>1, <3>2
            DEF Found, FlowOK, Ahead, Heading, AfterCheck, Checked, Early, Changers
  <2>9. /\ x.op # "load" /\ x.doc # NoDoc => Good(x.doc)
        /\ \A e \in x.todo : Good(e)
    BY <1>3, <2>6, Known
  <2> QED BY <1>1, <1>3, <2>1, <2>3, <2>4, <2>6, <2>7, <2>9, CacheStep
<1>4. req[r].id \in Ids /\ req \in [Reqs -> Request] /\ req[r].then \in Positions
  BY Known DEF DocInv, TypeOK
<1>5. LET d == mongo[req[r].id] IN d \in Docs \cup {NoDoc} /\ (d = NoDoc \/ (Good(d) /\ Found(d)))
  BY <1>4, Known DEF Good, GoodFor
<1> HIDE DEF Found
<1>6. CASE Fault(r) /\ req' = [req EXCEPT ![r].at = AfterById(r, NoDoc), ![r].doc = NoDoc]
  <2>1. req' = [req EXCEPT ![r].doc = NoDoc, ![r].id = req[r].id, ![r].at = AfterById(r, NoDoc),
                           ![r].then = req[r].then]
    BY <1>4, <1>6 DEF Request
  <2>2. AfterById(r, NoDoc) # "fill"
    BY <1>1, ById
  <2> QED BY <1>3, <1>4, <1>6, <2>1, <2>2
<1>7. CASE NoFault /\ Fills(r, mongo[req[r].id], AfterById(r, mongo[req[r].id]))
  <2> DEFINE d == mongo[req[r].id]
  <2>1. req' = [req EXCEPT ![r].doc = d, ![r].id = req[r].id, ![r].at = "fill",
                           ![r].then = AfterById(r, d)]
    BY <1>4, <1>7 DEF Request, Fills
  <2>2. AfterById(r, d) \in Positions
    BY <1>1, ById DEF Positions
  <2> QED BY <1>3, <1>5, <1>7, <2>1, <2>2
<1>8. CASE NoFault /\ req' = [req EXCEPT ![r].at = AfterById(r, mongo[req[r].id]), ![r].doc = mongo[req[r].id]]
  <2> DEFINE d == mongo[req[r].id]
  <2>1. req' = [req EXCEPT ![r].doc = d, ![r].id = req[r].id, ![r].at = AfterById(r, d),
                           ![r].then = req[r].then]
    BY <1>4, <1>8 DEF Request
  <2>2. AfterById(r, d) # "fill"
    BY <1>1, ById
  <2> QED BY <1>3, <1>4, <1>5, <1>8, <2>1, <2>2
<1> QED BY <1>6, <1>7, <1>8 DEF FindById

LEMMA FillKeeps == ASSUME DocInv, NEW r \in Reqs, Fill(r) PROVE DocInv'
<1>1. /\ req[r].at = "fill" /\ mongo' = mongo /\ written' = written /\ Goes(r, req[r].then) /\ (NoFault \/ Fault(r))
      /\ cache' = cache \/ cache' = [cache EXCEPT ![FillKey(r)] = req[r].doc]
  BY DEF Fill
<1>2. FlowOK(r) /\ req[r].then \in {"done", "failed", "fetch", "insert", "write", "byId", "remove", "check"}
  BY <1>1, Known DEF FlowOK
<1>3. req[r].then \in Positions \ {"idle"}
  BY <1>2 DEF Positions
<1>4. /\ req'[r].op = req[r].op /\ req'[r].key = req[r].key /\ req'[r].at = req[r].then
      /\ req'[r].then = req[r].then /\ req'[r].id = req[r].id /\ req'[r].doc = req[r].doc
  BY <1>1, <1>3, GoingFields
<1>5. FlowOK(r)'
  BY <1>1, <1>2, <1>4 DEF FlowOK, Ahead, Heading, AfterCheck, Checked, Early
<1>7. req[r].op # "load"
  BY <1>1, <1>2 DEF FlowOK
<1>8. req[r].doc \in Docs \cup {NoDoc} /\ (req[r].doc = NoDoc \/ Good(req[r].doc))
  BY <1>7, Known
<1> QED BY <1>1, <1>3, <1>5, <1>8, GoesStep

LEMMA FetchKeeps == ASSUME DocInv, NEW r \in Reqs, Fetch(r) PROVE DocInv'
<1>1. PICK at \in {"insert", "failed"} : Goes(r, at)
  BY DEF Fetch
<1>2. at \in Positions \ {"idle"}
  BY DEF Positions
<1>3. /\ req'[r].op = req[r].op /\ req'[r].key = req[r].key /\ req'[r].at = at
      /\ req'[r].then = req[r].then /\ req'[r].id = req[r].id /\ req'[r].doc = req[r].doc
  BY <1>1, <1>2, GoingFields
<1>4. req[r].at = "fetch" /\ FlowOK(r) /\ req[r].op \in {"sync", "resolve"}
  BY Known DEF Fetch, FlowOK, Ahead
<1>7. mongo' = mongo /\ written' = written /\ cache' = cache /\ faults' \in 0..MaxFaults /\ disturbed' \subseteq Keys
  BY DEF Fetch, DocInv, TypeOK
<1>5. FlowOK(r)'
  BY <1>3, <1>4, <1>7 DEF FlowOK, Ahead, Heading, AfterCheck, Checked, Early
<1> QED BY <1>1, <1>2, <1>5, <1>7, GoesStep

LEMMA BreaksKeeps ==
  ASSUME DocInv, NEW r \in Reqs, req[r].at \in {"insert", "write", "remove"}, Breaks(r)
  PROVE  DocInv'
<1>1. "failed" \in Positions \ {"idle"} /\ Goes(r, "failed") /\ Fault(r) /\ mongo' = mongo /\ written' = written /\ cache' = cache
  BY DEF Positions, Breaks
<1>2. /\ req'[r].op = req[r].op /\ req'[r].key = req[r].key /\ req'[r].at = "failed"
      /\ req'[r].then = req[r].then /\ req'[r].id = req[r].id /\ req'[r].doc = req[r].doc
  BY <1>1, GoingFields
<1>3. FlowOK(r)'
  BY <1>2, Known DEF FlowOK, Ahead, Heading, AfterCheck, Checked, Early
<1> QED BY <1>1, <1>3, GoesStep

LEMMA NewDocGood ==
  ASSUME DocInv, NEW r \in Reqs, req[r].at = "insert"
  PROVE  /\ NewDoc(r) \in Docs /\ NewDoc(r).id = r
         /\ {NewDoc(r).a, NewDoc(r).b} \cap Reqs \subseteq written \cup {r}
<1>1. r \in Ids /\ r \in Keys /\ req[r].key \in Keys /\ req[r].id \in Ids /\ Ids = Keys
  BY Known DEF Ids, Keys
<1>2. /\ req[r].op \in {"sync", "resolve", "create", "save", "clone", "register"}
      /\ req[r].op = "clone" \/ (req[r].op = "register" /\ req[r].key \in Templated) =>
           req[r].doc \in Docs /\ {req[r].doc.a, req[r].doc.b} \cap Reqs \subseteq written
  BY Known DEF FlowOK, Ahead, Heading
<1>3. CASE req[r].op = "clone"
  <2>1. NewDoc(r) = [req[r].doc EXCEPT !.id = r, !.key = req[r].id]
    BY <1>3 DEF NewDoc, ClonedSession
  <2> QED BY <1>1, <1>2, <1>3, <2>1 DEF Docs
<1>4. CASE req[r].op = "register" /\ req[r].key \in Templated
  <2>1. NewDoc(r) = [req[r].doc EXCEPT !.id = r, !.key = NoKey]
    BY <1>4 DEF NewDoc, CopiedAgent
  <2> QED BY <1>1, <1>2, <1>4, <2>1 DEF Docs
<1>5. CASE req[r].op \in {"sync", "resolve", "create", "save"} \/ (req[r].op = "register" /\ req[r].key \notin Templated)
  <2>1. \E k \in Keys \cup {NoKey} : NewDoc(r) = [id |-> r, key |-> k, a |-> r, b |-> r, tools |-> NoKey]
    BY <1>1, <1>2, <1>5 DEF NewDoc, SyncedAgent, NewMetadata, SavedSession, FreshAgent
  <2> QED BY <1>1, <2>1 DEF Docs
<1> QED BY <1>2, <1>3, <1>4, <1>5

LEMMA InsertKeeps == ASSUME DocInv, NEW r \in Reqs, Insert(r) PROVE DocInv'
<1>1. req[r].at = "insert" /\ FlowOK(r)
  BY Known DEF Insert
<1>2. CASE Breaks(r)
  BY <1>1, <1>2, BreaksKeeps
<1>3. CASE ~Breaks(r)
  <2> DEFINE d  == NewDoc(r)
             at == CASE req[r].op \in {"save", "clone"} -> "done"
                     [] req[r].op = "register" ->
                          IF req[r].key \in Templated THEN "byId" ELSE "write"
                     [] OTHER -> "fill"
             then == IF req[r].op = "resolve" THEN "check" ELSE "done"
             x  == [req[r] EXCEPT !.doc = d, !.id = r, !.at = at, !.then = then]
  <2>1. /\ mongo' = [mongo EXCEPT ![r] = d] /\ written' = written \cup {r} /\ cache' = cache /\ NoFault
        /\ req' = [req EXCEPT ![r] = x]
    BY <1>3 DEF Insert
  <2>2. d \in Docs /\ d.id = r /\ {d.a, d.b} \cap Reqs \subseteq written \cup {r}
    BY <1>1, NewDocGood
  <2>3. req[r] \in Request /\ r \in Ids
    BY Known DEF Ids
  <2>4. /\ at \in Positions \ {"idle"} /\ then \in Positions
        /\ then = "done" \/ (then = "check" /\ req[r].op = "resolve")
        /\ req[r].op \in {"save", "clone"} => at = "done"
        /\ req[r].op = "register" => at \in {"byId", "write"}
        /\ req[r].op \notin {"save", "clone", "register"} => at = "fill"
    BY DEF Positions
  <2>5. req[r].op \in {"sync", "resolve", "create", "save", "clone", "register"} /\ r \notin written
    BY <1>1 DEF FlowOK, Ahead, Heading, AfterCheck, Checked, Early
  <2> HIDE DEF d, at, then
  <2>6. x \in Request
    BY <2>2, <2>3, <2>4, Retyped
  <2>7. req'[r] = x
    BY <2>1, <2>6 DEF DocInv, TypeOK
  <2>8. /\ x.op = req[r].op /\ x.key = req[r].key /\ x.id = r /\ x.at = at /\ x.then = then
        /\ x.doc = d /\ x.todo = req[r].todo
    BY <2>3 DEF Request
  <2> HIDE DEF x
  <2>9. FlowOK(r)'
    BY <1>1, <2>2, <2>4, <2>5, <2>7, <2>8 DEF FlowOK, Ahead, Heading, AfterCheck, Checked, Early
  <2>11. Fine(d)
    BY <2>1, <2>2 DEF Fine, Good, GoodFor
  <2>12. mongo' \in [Ids -> Docs \cup {NoDoc}] /\ cache' \in [Keys -> Docs \cup {NoDoc}]
    BY <2>1, <2>2, Known
  <2>10. Advances(r)
    BY <2>1, <2>5, Known DEF Advances
  <2>13. \A i \in Ids : mongo'[i] # NoDoc => mongo'[i].id = i /\ Fine(mongo'[i])
    <3> SUFFICES ASSUME NEW i \in Ids, mongo'[i] # NoDoc PROVE mongo'[i].id = i /\ Fine(mongo'[i])
      OBVIOUS
    <3>1. CASE i = r
      BY <2>1, <2>2, <2>3, <2>11, <3>1, Known
    <3>2. CASE i # r
      <4>1. mongo'[i] = mongo[i]
        BY <2>1, <3>2, Known
      <4> QED BY <4>1, Known DEF Fine
    <3> QED BY <3>1, <3>2
  <2>14. \A k \in Keys \ Sessions : cache'[k] # NoDoc => Fine(cache'[k])
    BY <2>1, Known DEF Fine
  <2>15. \A e \in x.todo : Fine(e)
    BY <2>8, Known DEF Fine
  <2> QED BY <2>1, <2>6, <2>8, <2>9, <2>10, <2>11, <2>12, <2>13, <2>14, <2>15, OneStep
<1> QED BY <1>2, <1>3

LEMMA UpdatedGood ==
  ASSUME DocInv, NEW r \in Reqs, NEW d \in Docs
  PROVE  /\ Updated(r, d) \in Docs /\ Updated(r, d).id = d.id
         /\ {Updated(r, d).a, Updated(r, d).b} \subseteq {d.a, d.b, r}
<1>1. r \in Ids /\ r \in Keys /\ d.id \in Keys /\ d.key \in Keys \cup {NoKey} /\ d.a \in Ids /\ d.b \in Ids
  BY DEF Ids, Keys, Docs
<1>2. \E k \in Keys \cup {NoKey}, a \in {d.a, r}, b \in {d.b, r} :
        Updated(r, d) = [d EXCEPT !.key = k, !.a = a, !.b = b]
  <2>1. CASE req[r].op = "save"
    BY <1>1, <2>1 DEF Updated, SessionSaved, Docs
  <2>2. CASE req[r].op = "change"
    BY <1>1, <2>2 DEF Updated, MetadataUpdated, SetField, Docs
  <2>3. CASE req[r].op = "register"
    <3>1. Updated(r, d) \in {[d EXCEPT !.key = r], [d EXCEPT !.key = r, !.a = r]}
      BY <2>3 DEF Updated, Applied, Stamped
    <3>2. /\ [d EXCEPT !.key = r] = [d EXCEPT !.key = r, !.a = d.a, !.b = d.b]
          /\ [d EXCEPT !.key = r, !.a = r] = [d EXCEPT !.key = r, !.a = r, !.b = d.b]
      BY DEF Docs
    <3> QED BY <1>1, <3>1, <3>2
  <2>4. CASE req[r].op \notin {"save", "change", "register"}
    <3>1. Updated(r, d) = AgentUpdated(r, d)
      BY <2>4 DEF Updated
    <3>2. PICK k \in Keys \cup {NoKey} : AgentUpdated(r, d) = SetField(r, [d EXCEPT !.key = k])
      BY <1>1 DEF AgentUpdated
    <3>3. SetField(r, [d EXCEPT !.key = k]) \in {[d EXCEPT !.key = k, !.a = r], [d EXCEPT !.key = k, !.b = r]}
      BY DEF SetField
    <3>4. /\ [d EXCEPT !.key = k, !.a = r] = [d EXCEPT !.key = k, !.a = r, !.b = d.b]
          /\ [d EXCEPT !.key = k, !.b = r] = [d EXCEPT !.key = k, !.a = d.a, !.b = r]
      BY DEF Docs
    <3> QED BY <3>1, <3>2, <3>3, <3>4
  <2> QED BY <2>1, <2>2, <2>3, <2>4
<1> QED BY <1>1, <1>2 DEF Docs

LEMMA WriteKeeps == ASSUME DocInv, NEW r \in Reqs, Write(r) PROVE DocInv'
<1>1. req[r].at = "write" /\ FlowOK(r)
  BY Known DEF Write
<1>2. CASE Breaks(r)
  BY <1>1, <1>2, BreaksKeeps
<1>3. CASE ~Breaks(r)
  <2> DEFINE i == req[r].id
             u == Updated(r, req[r].doc)
  <2>1. /\ IF mongo[i] = NoDoc THEN mongo' = mongo /\ written' = written
           ELSE mongo' = [mongo EXCEPT ![i] = Updated(r, @)] /\ written' = written \cup {r}
        /\ IF req[r].op = "save" THEN Goes(r, "done") ELSE Fills(r, u, "done")
        /\ cache' = cache /\ NoFault
    BY <1>3 DEF Write, Matched
  <2>2. /\ req[r].op \in Changers \/ (req[r].op = "register" /\ req[r].id = r)
        /\ req[r].doc \in Docs /\ req[r].doc.id = i /\ req[r].op # "load" /\ Good(req[r].doc)
    BY <1>1, Known DEF FlowOK, Ahead, Heading, Changers
  <2>3. u \in Docs /\ u.id = i /\ {u.a, u.b} \subseteq {req[r].doc.a, req[r].doc.b, r}
    BY <2>2, UpdatedGood
  <2>4. req[r] \in Request /\ i \in Ids /\ req[r].then \in Positions
    BY Known
  <2>5. \E d \in {req[r].doc, u}, at \in {"done", "fill"}, then \in Positions :
          /\ req' = [req EXCEPT ![r] = [req[r] EXCEPT !.doc = d, !.id = i, !.at = at, !.then = then]]
          /\ IF req[r].op = "save" THEN at = "done" ELSE at = "fill" /\ then = "done"
    <3>1. CASE req[r].op = "save"
      <4>1. [req[r] EXCEPT !.at = "done"] =
              [req[r] EXCEPT !.doc = req[r].doc, !.id = i, !.at = "done", !.then = req[r].then]
        BY <2>4 DEF Request
      <4>2. req' = [req EXCEPT ![r] = [req[r] EXCEPT !.at = "done"]]
        BY <2>1, <3>1 DEF Goes
      <4> QED BY <2>4, <3>1, <4>1, <4>2
    <3>2. CASE req[r].op # "save"
      <4>1. [req[r] EXCEPT !.at = "fill", !.doc = u, !.then = "done"] =
              [req[r] EXCEPT !.doc = u, !.id = i, !.at = "fill", !.then = "done"]
        BY <2>4 DEF Request
      <4>2. req' = [req EXCEPT ![r] = [req[r] EXCEPT !.at = "fill", !.doc = u, !.then = "done"]]
        BY <2>1, <3>2 DEF Fills
      <4>3. "done" \in Positions
        BY DEF Positions
      <4> QED BY <3>2, <4>1, <4>2, <4>3
    <3> QED BY <3>1, <3>2
  <2>6. PICK d \in {req[r].doc, u}, at \in {"done", "fill"}, then \in Positions :
          /\ req' = [req EXCEPT ![r] = [req[r] EXCEPT !.doc = d, !.id = i, !.at = at, !.then = then]]
          /\ IF req[r].op = "save" THEN at = "done" ELSE at = "fill" /\ then = "done"
    BY <2>5
  <2> DEFINE x == [req[r] EXCEPT !.doc = d, !.id = i, !.at = at, !.then = then]
  <2>7. at \in Positions \ {"idle"} /\ d \in Docs
    BY <2>2, <2>3 DEF Positions
  <2>8. x \in Request
    BY <2>4, <2>7, Retyped
  <2>9. req' = [req EXCEPT ![r] = x] /\ req'[r] = x
    BY <2>6, <2>8 DEF DocInv, TypeOK
  <2>10. /\ x.op = req[r].op /\ x.key = req[r].key /\ x.id = req[r].id /\ x.at = at /\ x.then = then
         /\ x.doc = d /\ x.todo = req[r].todo
    BY <2>4 DEF Request
  <2> HIDE DEF x, u
  <2>11. FlowOK(r)'
    BY <1>1, <2>2, <2>6, <2>9, <2>10 DEF FlowOK, Ahead, Heading, AfterCheck, Checked, Early
  <2>12. Advances(r)
    BY <2>1, <2>4, Known DEF Advances
  <2>13. Fine(d)
    <3>1. Good(req[r].doc) => GoodFor(u, mongo', written')
      BY <2>1, <2>2, <2>3, <2>4, Known DEF Good, GoodFor
    <3> QED BY <2>2, <2>3, <3>1 DEF Fine
  <2>14. \A j \in Ids : /\ mongo'[j] \in Docs \cup {NoDoc}
                        /\ mongo'[j] # NoDoc => mongo'[j].id = j /\ Fine(mongo'[j])
    <3> TAKE j \in Ids
    <3>1. mongo[j] \in Docs \cup {NoDoc} /\ (mongo[j] # NoDoc => mongo[j].id = j /\ Good(mongo[j]))
      BY Known
    <3>2. \/ mongo'[j] = mongo[j]
          \/ mongo'[j] = Updated(r, mongo[j]) /\ mongo[j] # NoDoc /\ written' = written \cup {r}
      BY <2>1, Known
    <3>3. CASE mongo'[j] = mongo[j]
      BY <3>1, <3>3 DEF Fine
    <3>4. CASE mongo'[j] = Updated(r, mongo[j]) /\ mongo[j] # NoDoc /\ written' = written \cup {r}
      <4>1. /\ mongo'[j] \in Docs /\ mongo'[j].id = mongo[j].id
            /\ {mongo'[j].a, mongo'[j].b} \subseteq {mongo[j].a, mongo[j].b, r}
        BY <3>1, <3>4, UpdatedGood
      <4>2. {mongo[j].a, mongo[j].b} \cap Reqs \subseteq written /\ (j \in Reqs => j \in written)
        BY <3>1, <3>4 DEF Good, GoodFor
      <4>3. GoodFor(mongo'[j], mongo', written')
        BY <3>1, <3>4, <4>1, <4>2 DEF Good, GoodFor
      <4> QED BY <3>1, <3>4, <4>1, <4>3 DEF Fine
    <3> QED BY <3>2, <3>3, <3>4
  <2>15. mongo' \in [Ids -> Docs \cup {NoDoc}] /\ cache' \in [Keys -> Docs \cup {NoDoc}]
    BY <2>1, <2>14, Known
  <2>16. \A k \in Keys \ Sessions : cache'[k] # NoDoc => Fine(cache'[k])
    BY <2>1, Known DEF Fine
  <2>17. \A e \in x.todo : Fine(e)
    BY <2>10, Known DEF Fine
  <2> QED BY <2>1, <2>8, <2>9, <2>10, <2>11, <2>12, <2>13, <2>14, <2>15, <2>16, <2>17, OneStep
<1> QED BY <1>2, <1>3

LEMMA RemoveKeeps == ASSUME DocInv, NEW r \in Reqs, Remove(r) PROVE DocInv'
<1>1. req[r].at = "remove" /\ FlowOK(r)
  BY Known DEF Remove
<1>2. CASE Breaks(r)
  BY <1>1, <1>2, BreaksKeeps
<1>3. CASE ~Breaks(r)
  <2>1. PICK at \in {"done", "drop"} : Goes(r, at)
    BY <1>3 DEF Remove
  <2>2. mongo' = [mongo EXCEPT ![req[r].id] = NoDoc] /\ written' = written /\ cache' = cache /\ NoFault
    BY <1>3 DEF Remove
  <2>3. at \in Positions \ {"idle"}
    BY DEF Positions
  <2> DEFINE x == [req[r] EXCEPT !.at = at]
  <2>4. /\ x \in Request /\ req' = [req EXCEPT ![r] = x]
        /\ x.at = at /\ x.op = req[r].op /\ x.doc = req[r].doc /\ x.todo = req[r].todo
    BY <2>1, <2>3, Going
  <2>5. /\ req'[r].op = req[r].op /\ req'[r].key = req[r].key /\ req'[r].at = at
        /\ req'[r].then = req[r].then /\ req'[r].id = req[r].id /\ req'[r].doc = req[r].doc
    BY <2>1, <2>3, GoingFields
  <2> HIDE DEF x
  <2>6. FlowOK(r)'
    BY <1>1, <2>5 DEF FlowOK, Ahead, Heading, AfterCheck, Checked, Early
  <2>8. \A j \in Ids : mongo'[j] \in {mongo[j], NoDoc}
    BY <2>2, Known
  <2>9. mongo' \in [Ids -> Docs \cup {NoDoc}] /\ cache' \in [Keys -> Docs \cup {NoDoc}]
    BY <2>2, Known
  <2>7. Advances(r)
    BY <2>2, <2>8 DEF Advances
  <2>10. \A j \in Ids : mongo'[j] # NoDoc => mongo'[j].id = j /\ Fine(mongo'[j])
    <3> TAKE j \in Ids
    <3> QED BY <2>8, Known DEF Fine
  <2>11. \A k \in Keys \ Sessions : cache'[k] # NoDoc => Fine(cache'[k])
    BY <2>2, Known DEF Fine
  <2>12. /\ x.op # "load" /\ x.doc # NoDoc => Fine(x.doc)
         /\ \A e \in x.todo : Fine(e)
    BY <2>4, Known DEF Fine
  <2> QED BY <2>2, <2>4, <2>6, <2>7, <2>9, <2>10, <2>11, <2>12, OneStep
<1> QED BY <1>2, <1>3

LEMMA DropKeeps == ASSUME DocInv, NEW r \in Reqs, Drop(r) PROVE DocInv'
<1>1. /\ req[r].at = "drop" /\ FlowOK(r) /\ Goes(r, "done") /\ mongo' = mongo /\ written' = written /\ (NoFault \/ Fault(r))
      /\ cache' = cache \/ cache' = [cache EXCEPT ![req[r].doc.key] = NoDoc]
  BY Known DEF Drop
<1>2. "done" \in Positions \ {"idle"}
  BY DEF Positions
<1>3. /\ req'[r].op = req[r].op /\ req'[r].key = req[r].key /\ req'[r].at = "done"
      /\ req'[r].then = req[r].then /\ req'[r].id = req[r].id /\ req'[r].doc = req[r].doc
  BY <1>1, <1>2, GoingFields
<1>4. FlowOK(r)'
  BY <1>1, <1>3 DEF FlowOK, Ahead, Heading, AfterCheck, Checked, Early
<1> QED BY <1>1, <1>2, <1>4, GoesStep

LEMMA EnvelopeKeeps == ASSUME DocInv, NEW r \in Reqs, Envelope(r) PROVE DocInv'
<1> DEFINE d == [Seed(req[r].key) EXCEPT !.a = r, !.b = r, !.tools = r]
<1>1. /\ req[r].at = "envelope" /\ FlowOK(r) /\ Goes(r, "find") /\ mongo' = mongo /\ written' = written /\ (NoFault \/ Fault(r))
      /\ cache' = cache \/ cache' = [cache EXCEPT ![req[r].key] = d]
  BY Known DEF Envelope
<1>2. "find" \in Positions \ {"idle"} /\ req[r].op = "save" /\ req[r].key \in Sessions
  BY <1>1 DEF Positions, FlowOK, KeysOf
<1>3. /\ req'[r].op = req[r].op /\ req'[r].key = req[r].key /\ req'[r].at = "find"
      /\ req'[r].then = req[r].then /\ req'[r].id = req[r].id /\ req'[r].doc = req[r].doc
  BY <1>1, <1>2, GoingFields
<1>4. FlowOK(r)'
  BY <1>1, <1>2, <1>3 DEF FlowOK, Ahead, Heading, AfterCheck, Checked, Early, Changers
<1>6. d \in Docs
  BY <1>2 DEF Seed, Docs, Ids, Keys, Named
<1> HIDE DEF d
<1> QED BY <1>1, <1>2, <1>4, <1>6, GoesStep

LEMMA ListAllKeeps == ASSUME DocInv, NEW r \in Reqs, ListAll(r) PROVE DocInv'
<1>1. req[r].at = "list" /\ FlowOK(r) /\ mongo' = mongo /\ written' = written /\ cache' = cache
  BY Known DEF ListAll
<1>2. req[r].op # "load"
  BY <1>1 DEF FlowOK
<1>3. CASE Fault(r) /\ Goes(r, "done")
  <2>1. "done" \in Positions \ {"idle"}
    BY DEF Positions
  <2>2. /\ req'[r].op = req[r].op /\ req'[r].key = req[r].key /\ req'[r].at = "done"
        /\ req'[r].then = req[r].then /\ req'[r].id = req[r].id /\ req'[r].doc = req[r].doc
    BY <1>3, <2>1, GoingFields
  <2>3. FlowOK(r)'
    BY <1>1, <2>2 DEF FlowOK, Ahead, Heading, AfterCheck, Checked, Early
  <2> QED BY <1>1, <1>3, <2>1, <2>3, GoesStep
<1>4. CASE ~(Fault(r) /\ Goes(r, "done"))
  <2> DEFINE todo == UNION {Stored(k) : k \in Collection(req[r].key)}
             x == [req[r] EXCEPT !.at = "each", !.todo = todo]
  <2>1. req' = [req EXCEPT ![r] = x] /\ NoFault
    BY <1>4 DEF ListAll
  <2>2. \A d \in todo : d \in Docs /\ Good(d)
    <3> TAKE d \in todo
    <3>1. PICK i \in Ids : mongo[i] # NoDoc /\ d = mongo[i]
      BY DEF Stored
    <3> QED BY <3>1, Known
  <2>3. req[r] \in Request /\ "each" \in Positions
    BY Known DEF Positions
  <2> HIDE DEF todo
  <2>4. x \in Request
    BY <2>2, <2>3 DEF Request
  <2>5. req'[r] = x
    BY <2>1, <2>4 DEF DocInv, TypeOK
  <2>6. /\ x.op = req[r].op /\ x.key = req[r].key /\ x.id = req[r].id /\ x.at = "each"
        /\ x.doc = req[r].doc /\ x.todo = todo
    BY <2>3 DEF Request
  <2> HIDE DEF x
  <2>7. FlowOK(r)'
    BY <1>1, <1>2, <2>5, <2>6 DEF FlowOK, Ahead, Heading, AfterCheck, Checked, Early
  <2>9. /\ x.op # "load" /\ x.doc # NoDoc => Good(x.doc)
        /\ \A d \in x.todo : Good(d)
    BY <2>2, <2>6, Known
  <2> QED BY <1>1, <2>1, <2>4, <2>6, <2>7, <2>9, CacheStep
<1> QED BY <1>3, <1>4

LEMMA CacheEachKeeps == ASSUME DocInv, NEW r \in Reqs, CacheEach(r) PROVE DocInv'
<1>1. req[r].at = "each" /\ FlowOK(r) /\ mongo' = mongo /\ written' = written
  BY Known DEF CacheEach
<1>2. CASE Goes(r, AfterCheck(r)) /\ NoFault /\ cache' = cache
  <2>1. AfterCheck(r) \in Positions \ {"idle"}
    BY DEF Positions, AfterCheck
  <2>2. /\ req'[r].op = req[r].op /\ req'[r].key = req[r].key /\ req'[r].at = AfterCheck(r)
        /\ req'[r].then = req[r].then /\ req'[r].id = req[r].id /\ req'[r].doc = req[r].doc
    BY <1>2, <2>1, GoingFields
  <2>3. FlowOK(r)'
    BY <1>1, <2>2 DEF FlowOK, Ahead, Heading, AfterCheck, Checked, Early
  <2> QED BY <1>1, <1>2, <2>1, <2>3, GoesStep
<1>3. ASSUME NEW d \in req[r].todo, req' = [req EXCEPT ![r].todo = @ \ {d}],
             (cache' = [cache EXCEPT ![d.key] = d] /\ NoFault) \/ (Fault(r) /\ cache' = cache)
      PROVE  DocInv'
  <2> DEFINE x == [req[r] EXCEPT !.todo = req[r].todo \ {d}]
  <2>1. req' = [req EXCEPT ![r] = x]
    BY <1>3
  <2>2. req[r] \in Request /\ d \in Docs /\ Good(d) /\ req[r].todo \subseteq Docs
    BY Known
  <2>3. x \in Request
    BY <2>2 DEF Request
  <2>4. req'[r] = x
    BY <2>1, <2>3 DEF DocInv, TypeOK
  <2>5. /\ x.op = req[r].op /\ x.key = req[r].key /\ x.id = req[r].id /\ x.at = "each" /\ x.then = req[r].then
        /\ x.doc = req[r].doc /\ x.todo \subseteq req[r].todo
    BY <1>1, <2>2 DEF Request
  <2> HIDE DEF x
  <2>6. FlowOK(r)'
    BY <1>1, <2>4, <2>5 DEF FlowOK, Ahead, Heading, AfterCheck, Checked, Early
  <2>8. /\ x.op # "load" /\ x.doc # NoDoc => Good(x.doc)
        /\ \A e \in x.todo : Good(e)
    BY <2>5, Known
  <2> QED BY <1>1, <1>3, <2>1, <2>2, <2>3, <2>5, <2>6, <2>8, CacheStep
<1> QED BY <1>2, <1>3 DEF CacheEach

LEMMA NeededGood ==
  ASSUME DocInv, NEW r \in Reqs, NEW d \in Needed(r)
  PROVE  d \in Docs /\ Good(d) /\ Current(d)
<1>1. Template \in Ids
  BY DEF Ids, Named
<1>2. PICK i \in Ids : mongo[i] # NoDoc /\ d = mongo[i]
  BY <1>1 DEF Needed, Stored
<1> QED BY <1>2, Known DEF Current

LEMMA CheckKeeps == ASSUME DocInv, NEW r \in Reqs, Check(r) PROVE DocInv'
<1>1. req[r].at = "check" /\ FlowOK(r) /\ mongo' = mongo /\ written' = written /\ cache' = cache
  BY Known DEF Check
<1>2. req[r].op \in Checked
  BY <1>1 DEF FlowOK, Ahead
<1>3. ASSUME NEW at \in {AfterCheck(r), "failed"}, Goes(r, at), Fault(r) \/ NoFault
      PROVE  DocInv'
  <2>1. at \in Positions \ {"idle"}
    BY DEF Positions, AfterCheck
  <2>2. /\ req'[r].op = req[r].op /\ req'[r].key = req[r].key /\ req'[r].at = at
        /\ req'[r].then = req[r].then /\ req'[r].id = req[r].id /\ req'[r].doc = req[r].doc
    BY <1>3, <2>1, GoingFields
  <2>3. FlowOK(r)'
    BY <1>1, <1>2, <2>2 DEF FlowOK, Ahead, Heading, AfterCheck, Checked, Early
  <2> QED BY <1>1, <1>3, <2>1, <2>3, GoesStep
<1>4. ASSUME NEW d \in Needed(r), NoFault, req' = [req EXCEPT ![r].at = "each", ![r].todo = {d}]
      PROVE  DocInv'
  <2> DEFINE x == [req[r] EXCEPT !.at = "each", !.todo = {d}]
  <2>1. req' = [req EXCEPT ![r] = x]
    BY <1>4
  <2>2. req[r] \in Request /\ d \in Docs /\ Good(d) /\ "each" \in Positions
    BY Known, NeededGood DEF Positions
  <2>3. x \in Request
    BY <2>2 DEF Request
  <2>4. req'[r] = x
    BY <2>1, <2>3 DEF DocInv, TypeOK
  <2>5. /\ x.op = req[r].op /\ x.key = req[r].key /\ x.id = req[r].id /\ x.at = "each" /\ x.then = req[r].then
        /\ x.doc = req[r].doc /\ x.todo = {d}
    BY <2>2 DEF Request
  <2> HIDE DEF x
  <2>6. FlowOK(r)'
    BY <1>1, <1>2, <2>4, <2>5 DEF FlowOK, Ahead, Heading, AfterCheck, Checked, Early
  <2>7. /\ x.op # "load" /\ x.doc # NoDoc => Good(x.doc)
        /\ \A e \in x.todo : Good(e)
    BY <2>2, <2>5, Known
  <2> QED BY <1>1, <1>4, <2>1, <2>3, <2>6, <2>7, CacheStep
<1> QED BY <1>3, <1>4 DEF Check

LEMMA ExpireKeeps == ASSUME DocInv, NEW j \in Keys, Expire(j) PROVE DocInv'
<1>1. cache' = [cache EXCEPT ![j] = NoDoc] /\ UNCHANGED <<mongo, written, req, faults, disturbed>>
  BY DEF Expire
<1>2. TypeOK'
  BY <1>1 DEF DocInv, TypeOK
<1>4. \A k \in Keys : cache'[k] \in {cache[k], NoDoc}
  BY <1>1 DEF DocInv, TypeOK
<1>5. ValuesOK'
  BY <1>1, <1>4 DEF DocInv, ValuesOK, Good, GoodFor
<1>6. InsertedOK' /\ \A r \in Reqs : FlowOK(r)'
  BY <1>1 DEF DocInv, InsertedOK, FlowOK, Ahead, Heading, AfterCheck, Early
<1> QED BY <1>2, <1>5, <1>6 DEF DocInv

LEMMA DocInductive == DocInv /\ [Next]_vars => DocInv'
<1> SUFFICES ASSUME DocInv, [Next]_vars PROVE DocInv'
  OBVIOUS
<1>1. ASSUME NEW r \in Reqs, Step(r) PROVE DocInv'
  BY <1>1, StartKeeps, CacheGetKeeps, FindByKeyKeeps, FindByIdKeeps, FillKeeps, FetchKeeps, InsertKeeps,
     WriteKeeps, RemoveKeeps, DropKeeps, EnvelopeKeeps, CheckKeeps, ListAllKeeps, CacheEachKeeps DEF Step
<1>2. ASSUME NEW k \in Keys, Expire(k) PROVE DocInv'
  BY <1>2, ExpireKeeps
<1>3. CASE UNCHANGED vars
  <2>1. UNCHANGED <<mongo, written, cache, req, faults, disturbed>>
    BY <1>3 DEF vars
  <2>2. TypeOK'
    BY <2>1 DEF DocInv, TypeOK
  <2>3. ValuesOK'
    BY <2>1, <2>2 DEF DocInv, ValuesOK, Good, GoodFor
  <2>4. InsertedOK' /\ \A r \in Reqs : FlowOK(r)'
    BY <2>1 DEF DocInv, InsertedOK, FlowOK, Ahead, Heading, AfterCheck, Early
  <2> QED BY <2>2, <2>3, <2>4 DEF DocInv
<1> QED BY <1>1, <1>2, <1>3 DEF Next

LEMMA DocInitially == Init => DocInv
<1> SUFFICES ASSUME Init PROVE DocInv
  OBVIOUS
<1>1. PICK present \in SUBSET (Agents \cup Types) :
        /\ mongo = [i \in Ids |-> IF i \in present THEN Seed(i) ELSE NoDoc]
        /\ cache \in {[k \in Keys |-> NoDoc],
                      [k \in Keys |-> IF k \in present THEN Seed(k) ELSE NoDoc]}
  BY DEF Init
<1>2. \A i \in present : Seed(i) \in Docs /\ Seed(i).id = i /\ Good(Seed(i))
  BY DEF Seed, Docs, Ids, Keys, Named, Good, GoodFor
<1>3. /\ mongo \in [Ids -> Docs \cup {NoDoc}] /\ cache \in [Keys -> Docs \cup {NoDoc}]
      /\ \A i \in Ids : mongo[i] # NoDoc => i \in present /\ mongo[i].id = i /\ Good(mongo[i])
      /\ \A k \in Keys : cache[k] # NoDoc => Good(cache[k])
  BY <1>1, <1>2
<1>4. req = [r \in Reqs |-> [op |-> "get", key |-> Template, field |-> "a", at |-> "idle",
                            then |-> "idle", id |-> Template, doc |-> NoDoc, todo |-> {}]]
  BY DEF Init
<1>5. Template \in Ids /\ Template \in Keys /\ "idle" \in Positions /\ "get" \in Ops
  BY DEF Ids, Keys, Named, Positions, Ops, KeysOf
<1>6. TypeOK
  <2>1. req \in [Reqs -> Request]
    BY <1>4, <1>5 DEF Request
  <2>2. faults = 0 /\ disturbed = {} /\ written = {}
    BY DEF Init
  <2> QED BY <1>3, <2>1, <2>2 DEF TypeOK
<1>7. \A r \in Reqs : FlowOK(r)
  BY <1>4 DEF FlowOK, Ahead, Heading, AfterCheck, Checked, Early, KeysOf, Init
<1>8. ValuesOK
  BY <1>3, <1>4 DEF ValuesOK
<1>9. InsertedOK
  <2>1. \A r \in Reqs : r \in Ids /\ r \notin present
    BY DEF Ids
  <2> QED BY <1>3, <2>1 DEF InsertedOK
<1> QED BY <1>6, <1>7, <1>8, <1>9 DEF DocInv

LEMMA DocInvariant == Spec => []DocInv
BY DocInitially, DocInductive, PTL DEF Spec

-----------------------------------------------------------------------------
\* The documents, the cache and what each request is at keep their types: the
\* store never holds half a document, whatever fails and in whatever order
\* the requests' commands are carried out.
THEOREM DocStoreTypes == Spec => []TypeOK
<1>1. DocInv => TypeOK
  BY DEF DocInv
<1> QED BY <1>1, DocInvariant, PTL

\* Of an agent or metadata document that Mongo has, the cache (_sync_cache)
\* serves no field that Mongo did not take, however requests interleave and
\* commands fail.
THEOREM CacheServesAccepted == Spec => []CachedWasWritten
<1>1. DocInv => CachedWasWritten
  BY DEF DocInv, ValuesOK, Good, GoodFor, CachedWasWritten
<1> QED BY <1>1, DocInvariant, PTL

-----------------------------------------------------------------------------
(* The invariants.                                                         *)

\* Which document goes with which key: a document of the initial state is its
\* own key's; one that a request has inserted has the key the request gives it.
Inserters == {"sync", "resolve", "create", "save", "clone", "register"}
Inserted(q) == req[q].op \in Inserters /\ req[q].id = q

KeyFits(i, k) ==
  IF i \in Reqs
  THEN /\ Inserted(i)
       /\ req[i].op \in {"sync", "resolve", "create", "save"} => k = req[i].key
       /\ req[i].op = "clone" => k \in Sessions
       /\ req[i].op = "register" => k \in {i, NoKey}
  ELSE k = i

\* A copy has the key of the document, which is set once.
Fits(d) ==
  /\ KeyFits(d.id, d.key)
  /\ d.key # NoKey /\ mongo[d.id] # NoDoc => mongo[d.id].key = d.key

FitsOK ==
  /\ \A i \in Ids : mongo[i] # NoDoc => mongo[i].id = i /\ Fits(mongo[i])
  /\ \A k \in Keys : cache[k] # NoDoc => cache[k].key = k /\ Fits(cache[k])
  /\ \A r \in Reqs : /\ req[r].doc # NoDoc => Fits(req[r].doc)
                     /\ \A d \in req[r].todo : Fits(d)

\* What a request knows where it is: it inserts once, and its _id is the one
\* of a document with its key.
PathOK(r) ==
  /\ req[r].field = "b" => req[r].op \in {"update", "change"}
  /\ req[r].at = "find" => req[r].op \notin {"update", "legacy", "list"}
  /\ \A p \in {"lookup", "find", "fetch", "envelope", "insert"} : Heading(r, p) => ~Inserted(r)
  /\ req[r].op \in {"update", "legacy", "change"} => KeyFits(req[r].id, req[r].key)
  /\ req[r].op = "register" => req[r].id \in {Template, r}
  /\ req[r].op = "clone" /\ Active(r) => req[r].id \in Sessions
  /\ Heading(r, "write") /\ req[r].op # "register" =>
       req[r].doc.id = req[r].id /\ (req[r].op # "update" => req[r].doc.key = req[r].key)
  /\ (Ahead(r, "write") \/ Ahead(r, "byId")) /\ req[r].op = "register" /\ req[r].id = r =>
       req[r].doc # NoDoc /\ req[r].doc.id = r
  /\ Ahead(r, "byId") /\ req[r].op = "delete" =>
       req[r].doc # NoDoc /\ req[r].doc.id = req[r].id /\ req[r].doc.key = req[r].key
  /\ Ahead(r, "remove") =>
       /\ req[r].op = "delete" /\ KeyFits(req[r].id, req[r].key)
       /\ req[r].doc # NoDoc => req[r].doc.id = req[r].id /\ req[r].doc.key = req[r].key
  /\ req[r].at = "drop" => req[r].op = "delete" /\ req[r].doc # NoDoc /\ req[r].doc.key = req[r].key
  /\ req[r].at = "fill" => /\ req[r].op \notin {"save", "load", "clone", "list"}
                           /\ req[r].doc # NoDoc => req[r].doc.key \in TouchedBy(r)
  /\ req[r].at = "list" => req[r].op = "list"
  /\ req[r].at = "each" => \A d \in req[r].todo : d.key \in TouchedBy(r)

\* What holds of a key while nothing has disturbed it: one document at most,
\* no writer next to another request, and an entry that is the document, or
\* that the request which has just written it is about to refresh.
Sole(k)    == \A i, j \in Ids : mongo[i] # NoDoc /\ mongo[j] # NoDoc /\ mongo[i].key = k /\ mongo[j].key = k => i = j
None(k)    == \A i \in Ids : mongo[i] # NoDoc => mongo[i].key # k
Alone(k)   == \A r, q \in Reqs : r # q /\ Active(r) /\ Active(q) /\ k \in TouchedBy(r) /\ k \in TouchedBy(q) =>
                ~Changes(req[r].op)

Refreshes(r, k) ==
  /\ Changes(req[r].op) /\ req[r].doc # NoDoc /\ req[r].doc.key = k
  /\ req[r].at \in {"drop", "fill"}

Saving(r, k) == req[r].op = "save" /\ req[r].key = k /\ req[r].at \in {"find", "insert", "write"}

Mirrors(d, e) == d.a = e.a /\ d.b = e.b

EntryOK(k) ==
  cache[k] # NoDoc =>
    IF k \in Sessions
    THEN \/ \E i \in Ids : mongo[i] # NoDoc /\ mongo[i].key = k /\ Mirrors(mongo[i], cache[k])
         \/ \E r \in Reqs : Saving(r, k)
    ELSE Current(cache[k]) \/ \E r \in Reqs : Refreshes(r, k)

KeyOK(k) == Sole(k) /\ Alone(k) /\ EntryOK(k)

\* What a request has read of an undisturbed key is what is there.
Views(r) ==
  /\ req[r].at = "fill" /\ req[r].doc # NoDoc /\ req[r].doc.key \notin disturbed => Current(req[r].doc)
  /\ req[r].at = "each" => \A d \in req[r].todo : d.key \notin disturbed => Current(d)
  /\ (Ahead(r, "fetch") \/ Heading(r, "insert")) /\ req[r].op \in {"sync", "resolve", "create", "save"}
       /\ req[r].key \notin disturbed => None(req[r].key)
  /\ req[r].op = "clone" /\ Active(r) /\ req[r].id \notin disturbed => None(req[r].id)
  /\ Heading(r, "write") /\ req[r].op # "register" /\ req[r].key \notin disturbed => Current(req[r].doc)
  /\ (Ahead(r, "write") \/ Ahead(r, "byId")) /\ req[r].op = "register" /\ req[r].id = r
       /\ r \notin disturbed => Current(req[r].doc)
  /\ (Ahead(r, "byId") \/ Ahead(r, "remove")) /\ req[r].op = "delete"
       /\ req[r].key \notin disturbed => req[r].doc # NoDoc /\ Current(req[r].doc)
  /\ req[r].at = "drop" /\ req[r].key \notin disturbed => None(req[r].key)
  /\ Saving(r, req[r].key) /\ req[r].key \notin disturbed /\ cache[req[r].key] # NoDoc =>
       cache[req[r].key].a = r /\ cache[req[r].key].b = r

PathInv   == FitsOK /\ \A r \in Reqs : PathOK(r)
CopiesInv == (\A k \in Keys \ disturbed : KeyOK(k)) /\ \A r \in Reqs : Views(r)

-----------------------------------------------------------------------------
\* The steps of a request, field by field.
Becomes(r, at, then, id, doc, todo) ==
  /\ req'[r].op = req[r].op /\ req'[r].key = req[r].key /\ req'[r].field = req[r].field
  /\ req'[r].at = at /\ req'[r].then = then /\ req'[r].id = id /\ req'[r].doc = doc /\ req'[r].todo = todo
  /\ \A q \in Reqs \ {r} : req'[q] = req[q]

Moved(r, at) == Becomes(r, at, req[r].then, req[r].id, req[r].doc, req[r].todo)

LEMMA GoesMoved == ASSUME DocInv, NEW r \in Reqs, NEW at, Goes(r, at) PROVE Moved(r, at)
<1>1. req[r] \in Request /\ req \in [Reqs -> Request]
  BY DEF DocInv, TypeOK
<1> QED BY <1>1 DEF Goes, Request, Moved, Becomes

LEMMA FillsBecomes ==
  ASSUME DocInv, NEW r \in Reqs, NEW d, NEW next, Fills(r, d, next)
  PROVE  Becomes(r, "fill", next, req[r].id, d, req[r].todo)
<1>1. req[r] \in Request /\ req \in [Reqs -> Request]
  BY DEF DocInv, TypeOK
<1> QED BY <1>1 DEF Fills, Request, Becomes

LEMMA CacheGetMoves ==
  ASSUME DocInv, NEW r \in Reqs, CacheGet(r)
  PROVE  /\ req[r].at = "lookup" /\ mongo' = mongo /\ cache' = cache
         /\ \/ /\ NoFault /\ cache[req[r].key] # NoDoc
               /\ Becomes(r, AfterLookup(r, cache[req[r].key]), req[r].then,
                          IF req[r].op = "register" THEN req[r].id ELSE cache[req[r].key].id,
                          cache[req[r].key], req[r].todo)
            \/ (NoFault \/ Fault(r)) /\ Moved(r, "find")
<1>1. req[r] \in Request /\ req \in [Reqs -> Request]
  BY DEF DocInv, TypeOK
<1>2. ASSUME Goes(r, "find") PROVE Moved(r, "find")
  BY <1>2, GoesMoved
<1>3. ASSUME NEW d, req' = [req EXCEPT ![r].at = AfterLookup(r, d), ![r].doc = d,
                             ![r].id = IF req[r].op = "register" THEN @ ELSE d.id]
      PROVE  Becomes(r, AfterLookup(r, d), req[r].then, IF req[r].op = "register" THEN req[r].id ELSE d.id,
                     d, req[r].todo)
  BY <1>1, <1>3 DEF Request, Becomes
<1> QED BY <1>2, <1>3 DEF CacheGet

LEMMA FindByKeyMoves ==
  ASSUME DocInv, NEW r \in Reqs, FindByKey(r)
  PROVE  /\ req[r].at = "find" /\ mongo' = mongo /\ cache' = cache
         /\ \/ NoFault /\ \E d \in IF Stored(req[r].key) = {} THEN {NoDoc} ELSE Stored(req[r].key) :
                 Becomes(r, IF req[r].key \in Sessions THEN AfterLookup(r, d) ELSE "fill", AfterLookup(r, d),
                         IF d = NoDoc \/ req[r].op \in {"register", "clone"} THEN req[r].id ELSE d.id,
                         d, req[r].todo)
            \/ Fault(r) /\ Moved(r, AfterLookup(r, NoDoc))
<1>1. req[r] \in Request /\ req \in [Reqs -> Request]
  BY DEF DocInv, TypeOK
<1>2. ASSUME Goes(r, AfterLookup(r, NoDoc)) PROVE Moved(r, AfterLookup(r, NoDoc))
  BY <1>2, GoesMoved
<1>3. ASSUME NEW d, req' = [req EXCEPT
                 ![r].doc  = d,
                 ![r].id   = IF d = NoDoc \/ req[r].op \in {"register", "clone"} THEN @ ELSE d.id,
                 ![r].at   = IF req[r].key \in Sessions THEN AfterLookup(r, d) ELSE "fill",
                 ![r].then = AfterLookup(r, d)]
      PROVE  Becomes(r, IF req[r].key \in Sessions THEN AfterLookup(r, d) ELSE "fill", AfterLookup(r, d),
                     IF d = NoDoc \/ req[r].op \in {"register", "clone"} THEN req[r].id ELSE d.id,
                     d, req[r].todo)
  BY <1>1, <1>3 DEF Request, Becomes
<1> QED BY <1>2, <1>3 DEF FindByKey

LEMMA FindByIdMoves ==
  ASSUME DocInv, NEW r \in Reqs, FindById(r)
  PROVE  /\ req[r].at = "byId" /\ mongo' = mongo /\ cache' = cache
         /\ \/ /\ NoFault /\ mongo[req[r].id] # NoDoc /\ mongo[req[r].id].key # NoKey
               /\ Becomes(r, "fill", AfterById(r, mongo[req[r].id]), req[r].id, mongo[req[r].id], req[r].todo)
            \/ /\ NoFault /\ (mongo[req[r].id] = NoDoc \/ mongo[req[r].id].key = NoKey)
               /\ Becomes(r, AfterById(r, mongo[req[r].id]), req[r].then, req[r].id, mongo[req[r].id], req[r].todo)
            \/ /\ Fault(r)
               /\ Becomes(r, AfterById(r, NoDoc), req[r].then, req[r].id, NoDoc, req[r].todo)
<1>1. req[r] \in Request /\ req \in [Reqs -> Request]
  BY DEF DocInv, TypeOK
<1>2. ASSUME NEW d, NEW next, Fills(r, d, next) PROVE Becomes(r, "fill", next, req[r].id, d, req[r].todo)
  BY <1>2, FillsBecomes
<1>3. ASSUME NEW d, NEW at, req' = [req EXCEPT ![r].at = at, ![r].doc = d]
      PROVE  Becomes(r, at, req[r].then, req[r].id, d, req[r].todo)
  BY <1>1, <1>3 DEF Request, Becomes
<1> QED BY <1>2, <1>3 DEF FindById

LEMMA InsertMoves ==
  ASSUME DocInv, NEW r \in Reqs, Insert(r)
  PROVE  /\ req[r].at = "insert" /\ cache' = cache
         /\ \/ /\ NoFault /\ mongo' = [mongo EXCEPT ![r] = NewDoc(r)] /\ written' = written \cup {r}
               /\ Becomes(r, CASE req[r].op \in {"save", "clone"} -> "done"
                               [] req[r].op = "register" -> IF req[r].key \in Templated THEN "byId" ELSE "write"
                               [] OTHER -> "fill",
                          IF req[r].op = "resolve" THEN "check" ELSE "done", r, NewDoc(r), req[r].todo)
            \/ Fault(r) /\ mongo' = mongo /\ written' = written /\ Moved(r, "failed")
<1>1. req[r] \in Request /\ req \in [Reqs -> Request]
  BY DEF DocInv, TypeOK
<1>2. ASSUME NEW d, NEW at, NEW then,
             req' = [req EXCEPT ![r].doc = d, ![r].id = r, ![r].at = at, ![r].then = then]
      PROVE  Becomes(r, at, then, r, d, req[r].todo)
  BY <1>1, <1>2 DEF Request, Becomes
<1>3. ASSUME Breaks(r)
      PROVE  Fault(r) /\ mongo' = mongo /\ written' = written /\ cache' = cache /\ Moved(r, "failed")
  BY <1>3, GoesMoved DEF Breaks
<1> QED BY <1>2, <1>3 DEF Insert

LEMMA WriteMoves ==
  ASSUME DocInv, NEW r \in Reqs, Write(r)
  PROVE  /\ req[r].at = "write" /\ cache' = cache
         /\ \/ /\ NoFault
               /\ mongo' = [mongo EXCEPT ![req[r].id] = IF @ = NoDoc THEN NoDoc ELSE Updated(r, @)]
               /\ written' = IF mongo[req[r].id] = NoDoc THEN written ELSE written \cup {r}
               /\ IF req[r].op = "save" THEN Moved(r, "done")
                  ELSE Becomes(r, "fill", "done", req[r].id, Updated(r, req[r].doc), req[r].todo)
            \/ Fault(r) /\ mongo' = mongo /\ written' = written /\ Moved(r, "failed")
<1>1. ASSUME Breaks(r)
      PROVE  Fault(r) /\ mongo' = mongo /\ written' = written /\ cache' = cache /\ Moved(r, "failed")
  BY <1>1, GoesMoved DEF Breaks
<1>2. ASSUME NEW d, NEW next, Fills(r, d, next) PROVE Becomes(r, "fill", next, req[r].id, d, req[r].todo)
  BY <1>2, FillsBecomes
<1>3. ASSUME Goes(r, "done") PROVE Moved(r, "done")
  BY <1>3, GoesMoved
<1>4. ASSUME Matched(r)
      PROVE  /\ mongo' = [mongo EXCEPT ![req[r].id] = IF @ = NoDoc THEN NoDoc ELSE Updated(r, @)]
             /\ written' = IF mongo[req[r].id] = NoDoc THEN written ELSE written \cup {r}
  <2>1. mongo \in [Ids -> Docs \cup {NoDoc}] /\ req[r].id \in Ids
    BY Known
  <2> QED BY <1>4, <2>1 DEF Matched
<1> QED BY <1>1, <1>2, <1>3, <1>4 DEF Write

LEMMA RemoveMoves ==
  ASSUME DocInv, NEW r \in Reqs, Remove(r)
  PROVE  /\ req[r].at = "remove" /\ cache' = cache /\ written' = written
         /\ \/ /\ NoFault /\ mongo' = [mongo EXCEPT ![req[r].id] = NoDoc]
               /\ Moved(r, IF req[r].doc = NoDoc THEN "done" ELSE "drop")
            \/ Fault(r) /\ mongo' = mongo /\ Moved(r, "failed")
<1>1. ASSUME Breaks(r)
      PROVE  Fault(r) /\ mongo' = mongo /\ written' = written /\ cache' = cache /\ Moved(r, "failed")
  BY <1>1, GoesMoved DEF Breaks
<1>2. ASSUME NEW at, Goes(r, at) PROVE Moved(r, at)
  BY <1>2, GoesMoved
<1> QED BY <1>1, <1>2 DEF Remove

LEMMA CheckMoves ==
  ASSUME DocInv, NEW r \in Reqs, Check(r)
  PROVE  /\ req[r].at = "check" /\ mongo' = mongo /\ cache' = cache
         /\ \/ NoFault /\ \E at \in {AfterCheck(r), "failed"} : Moved(r, at)
            \/ NoFault /\ \E d \in Needed(r) : Becomes(r, "each", req[r].then, req[r].id, req[r].doc, {d})
            \/ Fault(r) /\ Moved(r, "failed")
<1>1. req[r] \in Request /\ req \in [Reqs -> Request]
  BY DEF DocInv, TypeOK
<1>2. ASSUME NEW todo, req' = [req EXCEPT ![r].at = "each", ![r].todo = todo]
      PROVE  Becomes(r, "each", req[r].then, req[r].id, req[r].doc, todo)
  BY <1>1, <1>2 DEF Request, Becomes
<1>3. ASSUME NEW at, Goes(r, at) PROVE Moved(r, at)
  BY <1>3, GoesMoved
<1> QED BY <1>2, <1>3 DEF Check

LEMMA ListAllMoves ==
  ASSUME DocInv, NEW r \in Reqs, ListAll(r)
  PROVE  /\ req[r].at = "list" /\ mongo' = mongo /\ cache' = cache
         /\ \/ NoFault /\ Becomes(r, "each", req[r].then, req[r].id, req[r].doc,
                                  UNION {Stored(k) : k \in Collection(req[r].key)})
            \/ Fault(r) /\ Moved(r, "done")
<1>1. req[r] \in Request /\ req \in [Reqs -> Request]
  BY DEF DocInv, TypeOK
<1>2. ASSUME NEW todo, req' = [req EXCEPT ![r].at = "each", ![r].todo = todo]
      PROVE  Becomes(r, "each", req[r].then, req[r].id, req[r].doc, todo)
  BY <1>1, <1>2 DEF Request, Becomes
<1>3. ASSUME Goes(r, "done") PROVE Moved(r, "done")
  BY <1>3, GoesMoved
<1> QED BY <1>2, <1>3 DEF ListAll

LEMMA CacheEachMoves ==
  ASSUME DocInv, NEW r \in Reqs, CacheEach(r)
  PROVE  /\ req[r].at = "each" /\ mongo' = mongo
         /\ \/ NoFault /\ cache' = cache /\ Moved(r, AfterCheck(r))
            \/ \E d \in req[r].todo :
                 /\ Becomes(r, "each", req[r].then, req[r].id, req[r].doc, req[r].todo \ {d})
                 /\ \/ NoFault /\ cache' = [cache EXCEPT ![d.key] = d]
                    \/ Fault(r) /\ cache' = cache
<1>1. req[r] \in Request /\ req \in [Reqs -> Request]
  BY DEF DocInv, TypeOK
<1>2. ASSUME NEW d, req[r].at = "each", req' = [req EXCEPT ![r].todo = @ \ {d}]
      PROVE  Becomes(r, "each", req[r].then, req[r].id, req[r].doc, req[r].todo \ {d})
  BY <1>1, <1>2 DEF Request, Becomes
<1>3. ASSUME Goes(r, AfterCheck(r)) PROVE Moved(r, AfterCheck(r))
  BY <1>3, GoesMoved
<1> QED BY <1>2, <1>3 DEF CacheEach

\* What a request is about keeps: a step of r changes what r alone goes by.
LEMMA KeyFitsLasts ==
  ASSUME NEW r \in Reqs, \A q \in Reqs \ {r} : req'[q] = req[q],
         Inserted(r) => Inserted(r)' /\ req'[r].op = req[r].op /\ req'[r].key = req[r].key,
         NEW i, NEW k, KeyFits(i, k)
  PROVE  KeyFits(i, k)'
<1>1. CASE i = r
  BY <1>1 DEF KeyFits
<1>2. CASE i # r
  BY <1>2 DEF KeyFits, Inserted
<1> QED BY <1>1, <1>2

LEMMA MovedKeyFits ==
  ASSUME NEW r \in Reqs, NEW at, Moved(r, at)
  PROVE  \A i, k : KeyFits(i, k) => KeyFits(i, k)'
<1>1. \A q \in Reqs \ {r} : req'[q] = req[q]
  BY DEF Moved, Becomes
<1>2. Inserted(r) => Inserted(r)' /\ req'[r].op = req[r].op /\ req'[r].key = req[r].key
  BY DEF Moved, Becomes, Inserted
<1> QED BY <1>1, <1>2, KeyFitsLasts

\* The keys that go with i, and the documents that fit.
KeysFor(i) == {k \in Keys \cup {NoKey} : KeyFits(i, k)}
Fitting == {d \in Docs : Fits(d)}

\* What one step may do to Mongo: r inserts one document under its own name,
\* and a key once set stays.
MongoStep(r) ==
  \A i \in Ids :
    mongo'[i] # NoDoc =>
      /\ mongo'[i].id = i /\ mongo'[i].key \in KeysFor(i)'
      /\ mongo[i] = NoDoc => i = r /\ ~Inserted(r)
      /\ mongo[i] # NoDoc /\ mongo[i].key # NoKey => mongo'[i].key = mongo[i].key

LEMMA FitsLasts ==
  ASSUME DocInv, PathInv, NEW r \in Reqs, \A q \in Reqs \ {r} : req'[q] = req[q],
         Inserted(r) => Inserted(r)' /\ req'[r].op = req[r].op /\ req'[r].key = req[r].key,
         MongoStep(r), NEW d \in Docs, Fits(d)
  PROVE  Fits(d)'
<1>1. KeyFits(d.id, d.key)'
  BY KeyFitsLasts DEF Fits
<1>2. ASSUME d.key # NoKey, mongo'[d.id] # NoDoc PROVE mongo'[d.id].key = d.key
  <2>1. d.id \in Ids
    BY DEF Docs
  <2>2. CASE mongo[d.id] = NoDoc
    <3>1. d.id = r /\ ~Inserted(r)
      BY <1>2, <2>1, <2>2 DEF MongoStep
    <3> QED BY <3>1 DEF Fits, KeyFits
  <2>3. CASE mongo[d.id] # NoDoc
    BY <1>2, <2>1, <2>3 DEF MongoStep, Fits
  <2> QED BY <2>2, <2>3
<1> QED BY <1>1, <1>2 DEF Fits

LEMMA PathStep ==
  ASSUME DocInv, PathInv, NEW r \in Reqs, \A q \in Reqs \ {r} : req'[q] = req[q],
         Inserted(r) => Inserted(r)' /\ req'[r].op = req[r].op /\ req'[r].key = req[r].key,
         MongoStep(r), DocInv', PathOK(r)',
         \A k \in Keys : cache'[k] # NoDoc /\ cache'[k] # cache[k] =>
            cache'[k].key = k /\ (cache'[k] \in Fitting \/ cache'[k] \in Fitting'),
         req'[r].doc # NoDoc /\ req'[r].doc # req[r].doc => req'[r].doc \in Fitting \/ req'[r].doc \in Fitting',
         \A d \in req'[r].todo : d \in req[r].todo \/ Fits(d)
  PROVE  PathInv'
<1>0. /\ mongo \in [Ids -> Docs \cup {NoDoc}] /\ cache \in [Keys -> Docs \cup {NoDoc}] /\ req \in [Reqs -> Request]
      /\ mongo' \in [Ids -> Docs \cup {NoDoc}] /\ cache' \in [Keys -> Docs \cup {NoDoc}] /\ req' \in [Reqs -> Request]
  BY DEF DocInv, TypeOK
<1>1. \A d \in Docs : Fits(d) => Fits(d)'
  BY FitsLasts
<1>01. Fitting \subseteq Fitting'
  BY <1>1 DEF Fitting
<1>2. \A i \in Ids : mongo'[i] # NoDoc => mongo'[i].id = i /\ mongo'[i] \in Fitting'
  <2> SUFFICES ASSUME NEW i \in Ids, mongo'[i] # NoDoc PROVE mongo'[i].id = i /\ mongo'[i] \in Fitting'
    OBVIOUS
  <2>1. mongo'[i] \in Docs /\ mongo'[i].id = i /\ mongo'[i].key \in KeysFor(i)'
    BY <1>0 DEF MongoStep
  <2> QED BY <2>1 DEF Fitting, Fits, KeysFor
<1>3. \A k \in Keys : cache'[k] # NoDoc => cache'[k].key = k /\ cache'[k] \in Fitting'
  <2> SUFFICES ASSUME NEW k \in Keys, cache'[k] # NoDoc PROVE cache'[k].key = k /\ cache'[k] \in Fitting'
    OBVIOUS
  <2>1. cache'[k] \in Docs
    BY <1>0
  <2>2. CASE cache'[k] = cache[k]
    <3>1. cache[k].key = k /\ Fits(cache[k])
      BY <2>2 DEF PathInv, FitsOK
    <3> QED BY <1>01, <2>1, <2>2, <3>1 DEF Fitting
  <2>3. CASE cache'[k] # cache[k]
    BY <1>01, <2>1, <2>3
  <2> QED BY <2>2, <2>3
<1>4. \A q \in Reqs : req'[q].doc # NoDoc => req'[q].doc \in Fitting'
  <2> SUFFICES ASSUME NEW q \in Reqs, req'[q].doc # NoDoc PROVE req'[q].doc \in Fitting'
    OBVIOUS
  <2>1. req'[q].doc \in Docs /\ req[q].doc \in Docs \cup {NoDoc}
    BY <1>0 DEF Request
  <2>2. req[q].doc # NoDoc => Fits(req[q].doc)
    BY DEF PathInv, FitsOK
  <2>3. CASE req'[q].doc = req[q].doc
    BY <1>01, <2>1, <2>2, <2>3 DEF Fitting
  <2>4. CASE req'[q].doc # req[q].doc
    <3>1. q = r
      BY <2>4
    <3> QED BY <1>01, <2>4, <3>1
  <2> QED BY <2>3, <2>4
<1>5. \A q \in Reqs : \A d \in req'[q].todo : Fits(d)'
  <2> SUFFICES ASSUME NEW q \in Reqs, NEW d \in req'[q].todo PROVE Fits(d)'
    OBVIOUS
  <2>1. d \in Docs
    BY <1>0 DEF Request
  <2>2. Fits(d)
    <3>1. \A e \in req[q].todo : Fits(e)
      BY DEF PathInv, FitsOK
    <3> QED BY <3>1
  <2> QED BY <1>1, <2>1, <2>2
<1>6. \A q \in Reqs : PathOK(q)'
  <2> SUFFICES ASSUME NEW q \in Reqs \ {r} PROVE PathOK(q)'
    OBVIOUS
  <2>1. req'[q] = req[q] /\ PathOK(q)
    BY DEF PathInv
  <2>2. KeyFits(req[q].id, req[q].key) => KeyFits(req[q].id, req[q].key)'
    BY KeyFitsLasts
  <2> QED BY <2>1, <2>2 DEF PathOK, Ahead, Heading, AfterCheck, Inserted, Active, TouchedBy
<1> QED BY <1>2, <1>3, <1>4, <1>5, <1>6 DEF PathInv, FitsOK, Fitting

\* Steps that leave Mongo alone.
LEMMA QuietMongo ==
  ASSUME DocInv, PathInv, NEW r \in Reqs, \A q \in Reqs \ {r} : req'[q] = req[q],
         Inserted(r) => Inserted(r)' /\ req'[r].op = req[r].op /\ req'[r].key = req[r].key,
         mongo' = mongo
  PROVE  MongoStep(r)
<1> SUFFICES ASSUME NEW i \in Ids, mongo[i] # NoDoc PROVE mongo[i].id = i /\ mongo[i].key \in KeysFor(i)'
  BY DEF MongoStep
<1>1. mongo[i].id = i /\ KeyFits(i, mongo[i].key)
  BY DEF PathInv, FitsOK, Fits
<1>2. mongo[i].key \in Keys \cup {NoKey}
  BY DEF DocInv, TypeOK, Docs
<1>3. \A k : KeyFits(i, k) => KeyFits(i, k)'
  BY KeyFitsLasts
<1> QED BY <1>1, <1>2, <1>3 DEF KeysFor

LEMMA KnownPath ==
  ASSUME DocInv, PathInv, NEW r \in Reqs
  PROVE  /\ PathOK(r)
         /\ \A i \in Ids : mongo[i] # NoDoc => mongo[i].id = i /\ mongo[i] \in Fitting
         /\ \A k \in Keys : cache[k] # NoDoc => cache[k].key = k /\ cache[k] \in Fitting
         /\ req[r].doc # NoDoc => req[r].doc \in Fitting
         /\ \A d \in req[r].todo : d \in Fitting
BY Known DEF PathInv, FitsOK, Fitting

LEMMA CachePath ==
  ASSUME DocInv, PathInv, NEW r \in Reqs, \A q \in Reqs \ {r} : req'[q] = req[q],
         Inserted(r) => Inserted(r)' /\ req'[r].op = req[r].op /\ req'[r].key = req[r].key,
         mongo' = mongo, DocInv', PathOK(r)',
         \/ cache' = cache
         \/ \E k, d : /\ cache' = [cache EXCEPT ![k] = d]
                      /\ d = NoDoc \/ (d.key = k /\ (d \in Fitting \/ d \in Fitting')),
         req'[r].doc # NoDoc /\ req'[r].doc # req[r].doc => req'[r].doc \in Fitting,
         \A d \in req'[r].todo : d \in req[r].todo \/ Fits(d)
  PROVE  PathInv'
<1>1. MongoStep(r)
  BY QuietMongo
<1>2. \A k \in Keys : cache'[k] # NoDoc /\ cache'[k] # cache[k] =>
        cache'[k].key = k /\ (cache'[k] \in Fitting \/ cache'[k] \in Fitting')
  <2>1. cache \in [Keys -> Docs \cup {NoDoc}]
    BY DEF DocInv, TypeOK
  <2> QED BY <2>1
<1> QED BY <1>1, <1>2, PathStep

\* A step that only goes on, or goes on with a document that fits.
LEMMA MovedPath ==
  ASSUME DocInv, PathInv, NEW r \in Reqs, NEW at, Moved(r, at), mongo' = mongo, DocInv', PathOK(r)',
         \/ cache' = cache
         \/ \E k, d : /\ cache' = [cache EXCEPT ![k] = d]
                      /\ d = NoDoc \/ (d.key = k /\ (d \in Fitting \/ d \in Fitting'))
  PROVE  PathInv'
<1>1. \A q \in Reqs \ {r} : req'[q] = req[q]
  BY DEF Moved, Becomes
<1>2. Inserted(r) => Inserted(r)' /\ req'[r].op = req[r].op /\ req'[r].key = req[r].key
  BY DEF Moved, Becomes, Inserted
<1>3. req'[r].doc = req[r].doc /\ req'[r].todo = req[r].todo
  BY DEF Moved, Becomes
<1> QED BY <1>1, <1>2, <1>3, CachePath

LEMMA BrokenPath ==
  ASSUME DocInv, PathInv, NEW r \in Reqs, Moved(r, "failed"), mongo' = mongo, cache' = cache, DocInv'
  PROVE  PathInv'
<1>1. PathOK(r)
  BY KnownPath
<1>2. \A q \in Reqs \ {r} : req'[q] = req[q]
  BY DEF Moved, Becomes
<1>3. Inserted(r) => Inserted(r)' /\ req'[r].op = req[r].op /\ req'[r].key = req[r].key
  BY DEF Moved, Becomes, Inserted
<1>4. \A i, k : KeyFits(i, k) => KeyFits(i, k)'
  BY <1>2, <1>3, KeyFitsLasts
<1>5. PathOK(r)'
  BY <1>1, <1>4 DEF Moved, Becomes, PathOK, Ahead, Heading, AfterCheck, Changers, Active
<1> QED BY <1>5, MovedPath

\* Requests, agents, metadata and sessions have names of their own.
LEMMA Apart ==
  /\ \A x \in Reqs : x \notin Agents /\ x \notin Types /\ x \notin Sessions
  /\ \A x \in Sessions : x \notin Agents /\ x \notin Types
  /\ Template \in Agents /\ NoKey \notin Keys
<1>1. \A x \in Reqs : x \notin Agents /\ x \notin Types /\ x \notin Sessions
  <2> TAKE x \in Reqs
  <2>1. x \notin Reqs \cap (Agents \cup Types \cup Sessions)
    OBVIOUS
  <2> QED BY <2>1
<1>2. \A x \in Sessions : x \notin Agents /\ x \notin Types
  <2> TAKE x \in Sessions
  <2>1. x \notin Sessions \cap (Agents \cup Types)
    OBVIOUS
  <2> QED BY <2>1
<1> QED BY <1>1, <1>2 DEF Keys, Named

LEMMA StartPath == ASSUME DocInv, PathInv, NEW r \in Reqs, Start(r), DocInv' PROVE PathInv'
<1> DEFINE Begins(o, k, i, f) ==
      /\ f = "a" \/ o \in {"update", "change"}
      /\ k \in Reqs => mongo[k] # NoDoc /\ mongo[k].key \in {k, NoKey}
      /\ req' = [req EXCEPT ![r] = [op |-> o, key |-> k, field |-> f, at |-> Flow(o, k).first,
                   then |-> "idle", id |-> i, doc |-> NoDoc, todo |-> {}]]
<1>1. PICK o \in Ops : \E k \in KeysOf[o] : \E i \in FirstIds(o, k) : \E f \in {"a", "b"} : Begins(o, k, i, f)
  BY DEF Start
<1>2. PICK k \in KeysOf[o] : \E i \in FirstIds(o, k) : \E f \in {"a", "b"} : Begins(o, k, i, f)
  BY <1>1
<1>3. PICK i \in FirstIds(o, k) : \E f \in {"a", "b"} : Begins(o, k, i, f)
  BY <1>2
<1>4. PICK f \in {"a", "b"} : Begins(o, k, i, f)
  BY <1>3
<1>5. req[r].at = "idle" /\ mongo' = mongo /\ cache' = cache /\ req[r].op = "get" /\ r \notin written
  BY Known DEF Start, FlowOK, Early, Heading, Ahead
<1>6. /\ req'[r] = [op |-> o, key |-> k, field |-> f, at |-> Flow(o, k).first,
                    then |-> "idle", id |-> i, doc |-> NoDoc, todo |-> {}]
      /\ \A q \in Reqs \ {r} : req'[q] = req[q]
  BY <1>4 DEF DocInv, TypeOK
<1>7. ~Inserted(r)
  BY <1>5 DEF Inserted, Inserters
<1>8. mongo[r] = NoDoc
  BY <1>5 DEF DocInv, InsertedOK
<1>9. k # r
  BY <1>4, <1>8
<1>10. k \in Keys
  BY KeysTyped
<1>11. o \in {"update", "legacy"} => KeyFits(i, k)
  <2> SUFFICES ASSUME o \in {"update", "legacy"} PROVE KeyFits(i, k)
    OBVIOUS
  <2>1. CASE i \in {d.id : d \in Stored(k)}
    <3>1. PICK j \in Ids : mongo[j] # NoDoc /\ mongo[j].key = k /\ i = mongo[j].id
      BY <2>1 DEF Stored
    <3> QED BY <3>1 DEF PathInv, FitsOK, Fits
  <2>2. CASE i = k
    <3>1. CASE k \in Reqs
      <4>1. mongo[k] # NoDoc /\ k \in Ids
        BY <1>4, <3>1 DEF Ids
      <4>2. KeyFits(k, mongo[k].key) /\ mongo[k].key \in {k, NoKey}
        BY <1>4, <3>1, <4>1 DEF PathInv, FitsOK, Fits
      <4>3. req[k].op \in Inserters /\ Inserted(k) /\ req[k].key \in KeysOf[req[k].op]
        BY <3>1, <4>2, Known DEF KeyFits, Inserted, FlowOK
      <4>5. req[k].key \in Agents \cup Types \cup Sessions
        BY <4>3 DEF Inserters, KeysOf
      <4>4. req[k].op = "register"
        BY <3>1, <4>2, <4>3, <4>5, Apart DEF KeyFits, Inserters
      <4> QED BY <2>2, <3>1, <4>3, <4>4 DEF KeyFits
    <3>2. CASE k \notin Reqs
      BY <2>2, <3>2 DEF KeyFits
    <3> QED BY <3>1, <3>2
  <2> QED BY <2>1, <2>2 DEF FirstIds
<1>13. /\ o = "register" => i = Template
       /\ o = "clone" => i \in Sessions
       /\ o \notin {"update", "legacy", "register", "clone"} => i = k
  BY DEF FirstIds
<1>12. o \notin {"update", "legacy"} => i # r
  BY <1>9, <1>13, Apart
<1>14. /\ Flow(o, k).first \in {"lookup", "find", "byId", "envelope", "list"}
       /\ Flow(o, k).first = "find" => o = "clone"
       /\ Flow(o, k).first = "byId" => o \in {"update", "legacy"}
       /\ Flow(o, k).first = "list" => o = "list"
       /\ o \in {"update", "legacy"} => Flow(o, k).first = "byId"
  BY DEF Flow, Ops, KeysOf, GetFlow, ListFlow, SyncFlow, ResolveFlow, LegacyFlow, CreateFlow, ChangeFlow,
         UpdateFlow, DeleteFlow, RegisterFlow, SaveFlow, LoadFlow, CloneFlow
<1>15. KeyFits(i, k) => KeyFits(i, k)'
  BY <1>6, <1>7, KeyFitsLasts
<1>18. o = "change" => KeyFits(i, k)
  <2>1. o = "change" => k \in Types
    BY DEF KeysOf
  <2> QED BY <1>13, <2>1, Apart DEF KeyFits
<1>19. o \in {"update", "legacy", "change"} => KeyFits(i, k)'
  BY <1>11, <1>15, <1>18
<1>16. PathOK(r)'
  BY <1>4, <1>6, <1>12, <1>13, <1>14, <1>19 DEF PathOK, Ahead, Heading, AfterCheck, Inserted, Inserters, Changers, Active
<1>17. req'[r].doc = NoDoc /\ req'[r].todo = {}
  BY <1>6
<1> QED BY <1>5, <1>6, <1>7, <1>16, <1>17, CachePath

\* Where a lookup by key leads, by the operation and by what was found.
LEMMA Leads ==
  ASSUME DocInv, NEW r \in Reqs, req[r].at \in {"lookup", "find"}, NEW d
  PROVE  /\ AfterLookup(r, d) \in {"done", "failed", "fetch", "insert", "write", "byId", "check"}
         /\ AfterLookup(r, d) = "fetch" => req[r].op \in {"sync", "resolve"} /\ d = NoDoc
         /\ AfterLookup(r, d) = "insert" =>
              (req[r].op = "save" /\ d = NoDoc) \/ (req[r].op \in {"clone", "register"} /\ d # NoDoc)
         /\ AfterLookup(r, d) = "check" =>
              (req[r].op = "create" /\ d = NoDoc) \/ (req[r].op \in {"resolve", "change"} /\ d # NoDoc)
         /\ AfterLookup(r, d) = "write" => req[r].op = "save" /\ d # NoDoc
         /\ AfterLookup(r, d) = "byId" => req[r].op \in {"delete", "register"} /\ d # NoDoc
         /\ AfterLookup(r, d) = "done" => req[r].op \notin Changers
<1>1. req[r].op \in Ops
  BY Known
<1> QED BY <1>1 DEF AfterLookup, Flow, Ops, KeysOf, Changers, GetFlow, ListFlow, SyncFlow, ResolveFlow, LegacyFlow,
       CreateFlow, ChangeFlow, UpdateFlow, DeleteFlow, RegisterFlow, SaveFlow, LoadFlow, CloneFlow

LEMMA CacheGetPath == ASSUME DocInv, PathInv, NEW r \in Reqs, CacheGet(r), DocInv' PROVE PathInv'
<1>1. req[r].at = "lookup" /\ mongo' = mongo /\ cache' = cache /\ PathOK(r) /\ FlowOK(r)
  BY CacheGetMoves, KnownPath, Known
<1>2. ~Inserted(r) /\ req[r].op \notin {"save", "clone", "update", "legacy", "list"}
  BY <1>1, Lookups DEF PathOK, Ahead, Heading, AfterCheck, FlowOK
<1>3. CASE Moved(r, "find")
  <2>0. \A i, k : KeyFits(i, k) => KeyFits(i, k)'
    BY <1>3, MovedKeyFits
  <2>1. PathOK(r)'
    BY <1>1, <1>2, <1>3, <2>0 DEF PathOK, Moved, Becomes, Ahead, Heading, AfterCheck, Inserted, Changers, Active
  <2> QED BY <1>1, <1>3, <2>1, MovedPath
<1>4. CASE /\ cache[req[r].key] # NoDoc
           /\ Becomes(r, AfterLookup(r, cache[req[r].key]), req[r].then,
                      IF req[r].op = "register" THEN req[r].id ELSE cache[req[r].key].id,
                      cache[req[r].key], req[r].todo)
  <2> DEFINE d == cache[req[r].key]
  <2>1. d \in Fitting /\ d.key = req[r].key /\ d # NoDoc
    BY <1>4, KnownPath, Known
  <2>2. /\ AfterLookup(r, d) \in {"done", "failed", "check", "byId", "insert"}
        /\ AfterLookup(r, d) = "insert" => req[r].op = "register"
        /\ AfterLookup(r, d) = "check" => req[r].op \in {"resolve", "change"}
        /\ AfterLookup(r, d) = "byId" => req[r].op \in {"delete", "register"}
        /\ AfterLookup(r, d) = "done" => req[r].op \notin Changers
    BY <1>1, <1>2, <2>1, Leads
  <2> DEFINE at == AfterLookup(r, d)
             i == IF req[r].op = "register" THEN req[r].id ELSE d.id
  <2>3. Becomes(r, at, req[r].then, i, d, req[r].todo)
    BY <1>4
  <2>4. i = IF req[r].op = "register" THEN req[r].id ELSE d.id
    OBVIOUS
  <2> HIDE DEF d, at, i
  <2>5. \A q \in Reqs \ {r} : req'[q] = req[q]
    BY <2>3 DEF Becomes
  <2>8. req[r].op = "change" => \A j, c : j = i /\ c = req[r].key => KeyFits(j, c)'
    <3>1. KeyFits(d.id, d.key)
      BY <2>1 DEF Fitting, Fits
    <3>2. \A j, c : KeyFits(j, c) => KeyFits(j, c)'
      BY <1>2, <2>5, KeyFitsLasts
    <3> QED BY <2>1, <2>4, <3>1, <3>2
  <2>6. PathOK(r)'
    BY <1>1, <1>2, <2>1, <2>2, <2>3, <2>4, <2>8 DEF at, PathOK, Becomes, Ahead, Heading, AfterCheck, Inserted, Inserters, Changers, Active
  <2>7. req'[r].doc \in Fitting /\ req'[r].todo = req[r].todo
    BY <2>1, <2>3 DEF Becomes
  <2> QED BY <1>1, <1>2, <2>5, <2>6, <2>7, CachePath
<1> QED BY <1>3, <1>4, CacheGetMoves

LEMMA FindByKeyPath == ASSUME DocInv, PathInv, NEW r \in Reqs, FindByKey(r), DocInv' PROVE PathInv'
<1>1. req[r].at = "find" /\ mongo' = mongo /\ cache' = cache /\ PathOK(r) /\ FlowOK(r)
  BY FindByKeyMoves, KnownPath, Known
<1>2. ~Inserted(r) /\ req[r].op \notin {"update", "legacy", "list"}
  BY <1>1, Lookups DEF PathOK, Ahead, Heading, AfterCheck
<1>3. CASE Moved(r, AfterLookup(r, NoDoc))
  <2>1. /\ AfterLookup(r, NoDoc) \in {"done", "failed", "fetch", "insert", "check"}
        /\ AfterLookup(r, NoDoc) = "insert" => req[r].op = "save"
        /\ AfterLookup(r, NoDoc) = "check" => req[r].op = "create"
        /\ AfterLookup(r, NoDoc) = "done" => req[r].op \notin Changers
    BY <1>1, Leads
  <2> DEFINE at == AfterLookup(r, NoDoc)
  <2>2. Moved(r, at)
    BY <1>3
  <2> HIDE DEF at
  <2>0. \A i, k : KeyFits(i, k) => KeyFits(i, k)'
    BY <2>2, MovedKeyFits
  <2>3. PathOK(r)'
    BY <1>1, <1>2, <2>0, <2>1, <2>2 DEF at, PathOK, Moved, Becomes, Ahead, Heading, AfterCheck, Inserted, Changers, Active
  <2> QED BY <1>1, <2>2, <2>3, MovedPath
<1>4. ASSUME NEW d \in IF Stored(req[r].key) = {} THEN {NoDoc} ELSE Stored(req[r].key),
             Becomes(r, IF req[r].key \in Sessions THEN AfterLookup(r, d) ELSE "fill", AfterLookup(r, d),
                     IF d = NoDoc \/ req[r].op \in {"register", "clone"} THEN req[r].id ELSE d.id,
                     d, req[r].todo)
      PROVE  PathInv'
  <2>1. d # NoDoc => d \in Fitting /\ d.key = req[r].key
    <3> SUFFICES ASSUME d # NoDoc PROVE d \in Fitting /\ d.key = req[r].key
      OBVIOUS
    <3>1. PICK j \in Ids : mongo[j] # NoDoc /\ mongo[j].key = req[r].key /\ d = mongo[j]
      BY <1>4 DEF Stored
    <3> QED BY <3>1, KnownPath
  <2> DEFINE next == AfterLookup(r, d)
             at == IF req[r].key \in Sessions THEN next ELSE "fill"
             i == IF d = NoDoc \/ req[r].op \in {"register", "clone"} THEN req[r].id ELSE d.id
  <2>2. Becomes(r, at, next, i, d, req[r].todo)
    BY <1>4
  <2>3. /\ next \in {"done", "failed", "fetch", "insert", "write", "byId", "check"}
        /\ next = "insert" =>
             (req[r].op = "save" /\ d = NoDoc) \/ (req[r].op \in {"clone", "register"} /\ d # NoDoc)
        /\ next = "check" =>
             (req[r].op = "create" /\ d = NoDoc) \/ (req[r].op \in {"resolve", "change"} /\ d # NoDoc)
        /\ next = "fetch" => d = NoDoc
        /\ next = "write" => req[r].op = "save" /\ d # NoDoc
        /\ next = "byId" => req[r].op \in {"delete", "register"} /\ d # NoDoc
        /\ next = "done" => req[r].op \notin Changers
    BY <1>1, Leads
  <2>4. /\ at \in {next, "fill"}
        /\ at = "fill" => req[r].op \notin {"save", "load", "clone", "list"}
    BY <1>1, <1>2, <2>3 DEF FlowOK, KeysOf
  <2>5. i = IF d = NoDoc \/ req[r].op \in {"register", "clone"} THEN req[r].id ELSE d.id
    OBVIOUS
  <2> HIDE DEF next, at, i
  <2>6. \A q \in Reqs \ {r} : req'[q] = req[q]
    BY <2>2 DEF Becomes
  <2>7. req[r].op # "list" => req[r].key \in TouchedBy(r)'
    BY <2>2 DEF TouchedBy, Touched, Becomes
  <2>10. req[r].op = "change" => \A j, c : j = i /\ c = req[r].key => KeyFits(j, c)'
    <3>1. d # NoDoc => KeyFits(d.id, d.key)
      BY <2>1 DEF Fitting, Fits
    <3>2. req[r].op = "change" => KeyFits(req[r].id, req[r].key)
      BY <1>1 DEF PathOK
    <3>3. \A j, c : KeyFits(j, c) => KeyFits(j, c)'
      BY <1>2, <2>6, KeyFitsLasts
    <3> QED BY <2>1, <2>5, <3>1, <3>2, <3>3
  <2>8. PathOK(r)'
    BY <1>1, <1>2, <2>1, <2>2, <2>3, <2>4, <2>5, <2>7, <2>10 DEF PathOK, Becomes, Ahead, Heading, AfterCheck, Inserted, Inserters, Changers, Active
  <2>9. (req'[r].doc # NoDoc => req'[r].doc \in Fitting) /\ req'[r].todo = req[r].todo
    BY <2>1, <2>2 DEF Becomes
  <2> QED BY <1>1, <1>2, <2>6, <2>8, <2>9, CachePath
<1> QED BY <1>3, <1>4, FindByKeyMoves

\* Under an _id that fits a key of agents there is a document of that key, or
\* an agent that is about to have it.
LEMMA AtHome ==
  ASSUME DocInv, PathInv, NEW i \in Ids, NEW k \in Agents \cup Types \cup Reqs, KeyFits(i, k), mongo[i] # NoDoc
  PROVE  mongo[i].key = k \/ (mongo[i].key = NoKey /\ i = k /\ i \in Reqs)
<1>1. KeyFits(i, mongo[i].key)
  BY DEF PathInv, FitsOK, Fits
<1>2. CASE i \notin Reqs
  BY <1>1, <1>2 DEF KeyFits
<1>3. CASE i \in Reqs
  <2>1. req[i].op \in Inserters
    BY <1>1, <1>3 DEF KeyFits, Inserted
  <2>2. k \in Keys
    BY DEF Keys, Named
  <2> QED BY <1>1, <1>3, <2>1, <2>2, Apart DEF KeyFits, Inserters
<1> QED BY <1>2, <1>3

LEMMA FindByIdPath == ASSUME DocInv, PathInv, NEW r \in Reqs, FindById(r), DocInv' PROVE PathInv'
<1>1. req[r].at = "byId" /\ mongo' = mongo /\ cache' = cache /\ PathOK(r) /\ FlowOK(r)
  BY FindByIdMoves, KnownPath, Known
<1>2. req[r].op \in {"update", "legacy", "delete", "register"} /\ req[r].id \in Ids
  BY <1>1, ById, Known
<1>3. req[r].op \in {"update", "legacy"} => KeyFits(req[r].id, req[r].key)
  BY <1>1 DEF PathOK
<1>4. req[r].op = "delete" => KeyFits(req[r].id, req[r].key) /\
        (mongo[req[r].id] # NoDoc => mongo[req[r].id].key = req[r].key)
  <2> SUFFICES ASSUME req[r].op = "delete" PROVE KeyFits(req[r].id, req[r].key) /\
        (mongo[req[r].id] # NoDoc => mongo[req[r].id].key = req[r].key)
    OBVIOUS
  <2>1. req[r].doc # NoDoc /\ req[r].doc.id = req[r].id /\ req[r].doc.key = req[r].key
    BY <1>1 DEF PathOK, Ahead, Heading, AfterCheck
  <2>2. req[r].key # NoKey
    BY Known, Apart
  <2>3. Fits(req[r].doc)
    BY <2>1 DEF PathInv, FitsOK
  <2> QED BY <2>1, <2>2, <2>3 DEF Fits
<1>5. ASSUME NEW d \in {mongo[req[r].id], NoDoc}, NEW at, NEW then, Becomes(r, at, then, req[r].id, d, req[r].todo),
             at = AfterById(r, d) \/ (at = "fill" /\ then = AfterById(r, d) /\ d # NoDoc /\ d.key # NoKey)
      PROVE  PathInv'
  <2>1. d # NoDoc => d \in Fitting /\ d.id = req[r].id /\ (req[r].op = "delete" => d.key = req[r].key)
    BY <1>2, <1>4, KnownPath
  <2> DEFINE next == AfterById(r, d)
  <2>2. /\ next \in {"remove", "failed", "insert", "write", "check"}
        /\ next = "check" => req[r].op = "legacy"
        /\ next = "remove" => req[r].op = "delete"
        /\ next = "insert" => req[r].op = "register" /\ req[r].id # r /\ d # NoDoc
        /\ next = "write" => req[r].op \in {"update", "register"} /\ d # NoDoc
    BY <1>2 DEF AfterById
  <2>3. at = next \/ (at = "fill" /\ then = next /\ d # NoDoc /\ d.key # NoKey)
    BY <1>5
  <2> HIDE DEF next
  <2>4. \A q \in Reqs \ {r} : req'[q] = req[q]
    BY <1>5 DEF Becomes
  <2>5. Inserted(r) => Inserted(r)' /\ req'[r].op = req[r].op /\ req'[r].key = req[r].key
    BY <1>5 DEF Inserted, Becomes
  <2>6. KeyFits(req[r].id, req[r].key) => KeyFits(req[r].id, req[r].key)'
    <3>1. \A i, k : KeyFits(i, k) => KeyFits(i, k)'
      BY <2>4, <2>5, KeyFitsLasts
    <3> QED BY <1>5, <3>1 DEF Becomes
  <2>7. d # NoDoc /\ d.key # NoKey => d.key \in TouchedBy(r)'
    <3> SUFFICES ASSUME d # NoDoc, d.key # NoKey PROVE d.key \in TouchedBy(r)'
      OBVIOUS
    <3>1. TouchedBy(r)' = TouchedBy(r)
      BY <1>5 DEF TouchedBy, Becomes
    <3>2. CASE req[r].op = "delete"
      BY <2>1, <3>1, <3>2 DEF TouchedBy, Touched
    <3>3. CASE req[r].op \in {"update", "legacy"}
      <4>1. req[r].key \in Agents \cup Reqs
        BY <1>1, <3>3 DEF FlowOK, KeysOf
      <4>2. d.key = req[r].key
        BY <1>2, <1>3, <3>3, <4>1, AtHome
      <4> QED BY <3>1, <3>3, <4>2 DEF TouchedBy, Touched
    <3>4. CASE req[r].op = "register"
      <4>1. req[r].id \in {Template, r} /\ KeyFits(d.id, d.key) /\ d.id = req[r].id
        BY <1>1, <2>1, <3>4 DEF PathOK, Fitting, Fits
      <4>2. d.key \in {req[r].id, r}
        BY <3>2, <3>4, <4>1, Apart DEF KeyFits
      <4> QED BY <3>1, <3>4, <4>2 DEF TouchedBy, Touched
    <3> QED BY <1>2, <3>2, <3>3, <3>4
  <2>8. PathOK(r)'
    BY <1>1, <1>2, <1>3, <1>4, <1>5, <2>1, <2>2, <2>3, <2>6, <2>7
       DEF PathOK, Becomes, Ahead, Heading, AfterCheck, Inserted, Inserters, Changers, Active
  <2>9. (req'[r].doc # NoDoc => req'[r].doc \in Fitting) /\ req'[r].todo = req[r].todo
    BY <1>5, <2>1 DEF Becomes
  <2> QED BY <1>1, <2>4, <2>5, <2>8, <2>9, CachePath
<1> QED BY <1>5, FindByIdMoves

LEMMA FillPath == ASSUME DocInv, PathInv, NEW r \in Reqs, Fill(r), DocInv' PROVE PathInv'
<1>1. /\ req[r].at = "fill" /\ mongo' = mongo /\ Moved(r, req[r].then)
      /\ cache' = cache \/ cache' = [cache EXCEPT ![FillKey(r)] = req[r].doc]
      /\ PathOK(r) /\ FlowOK(r)
  BY KnownPath, Known, GoesMoved DEF Fill
<1>2. req[r].then \in {"done", "failed", "fetch", "insert", "write", "byId", "remove", "check"}
  BY <1>1 DEF FlowOK
<1>3. \A i, k : KeyFits(i, k) => KeyFits(i, k)'
  BY <1>1, MovedKeyFits
<1>4. PathOK(r)'
  BY <1>1, <1>2, <1>3 DEF PathOK, Moved, Becomes, Ahead, Heading, AfterCheck, Inserted, Changers, Active
<1>5. req[r].doc # NoDoc => req[r].doc.key = FillKey(r) /\ req[r].doc \in Fitting
  BY KnownPath DEF FillKey
<1> QED BY <1>1, <1>4, <1>5, MovedPath

LEMMA FetchPath == ASSUME DocInv, PathInv, NEW r \in Reqs, Fetch(r), DocInv' PROVE PathInv'
<1>1. PICK at \in {"insert", "failed"} : Goes(r, at)
  BY DEF Fetch
<1>2. /\ req[r].at = "fetch" /\ mongo' = mongo /\ cache' = cache /\ Moved(r, at)
      /\ PathOK(r) /\ FlowOK(r) /\ req[r].op \in {"sync", "resolve"}
  BY <1>1, KnownPath, Known, GoesMoved DEF Fetch, FlowOK, Ahead
<1>3. PathOK(r)'
  BY <1>2 DEF PathOK, Moved, Becomes, Ahead, Heading, AfterCheck, Inserted, Changers, Active
<1> QED BY <1>2, <1>3, MovedPath

\* What is inserted fits.
LEMMA NewDocFits ==
  ASSUME DocInv, PathInv, NEW r \in Reqs, req[r].at = "insert"
  PROVE  /\ NewDoc(r) \in Docs /\ NewDoc(r).id = r /\ ~Inserted(r) /\ mongo[r] = NoDoc
         /\ req[r].op \in Inserters
         /\ req[r].op \in {"sync", "resolve", "create", "save"} => NewDoc(r).key = req[r].key
         /\ req[r].op = "clone" => NewDoc(r).key = req[r].id /\ req[r].id \in Sessions
         /\ req[r].op = "register" => NewDoc(r).key = NoKey
<1>1. PathOK(r) /\ FlowOK(r) /\ NewDoc(r) \in Docs
  BY KnownPath, Known, NewDocGood
<1>2. /\ req[r].op \in Inserters /\ ~Inserted(r)
      /\ req[r].op = "clone" \/ (req[r].op = "register" /\ req[r].key \in Templated) => req[r].doc \in Docs
  BY <1>1, Known DEF PathOK, FlowOK, Ahead, Heading, AfterCheck, Inserters
<1>3. mongo[r] = NoDoc
  <2>1. r \in Ids
    BY DEF Ids
  <2> QED BY <1>2, <2>1 DEF PathInv, FitsOK, Fits, KeyFits
<1>4. CASE req[r].op = "clone"
  <2>1. NewDoc(r) = [req[r].doc EXCEPT !.id = r, !.key = req[r].id]
    BY <1>4 DEF NewDoc, ClonedSession
  <2>2. req[r].id \in Sessions
    BY <1>1, <1>4 DEF PathOK, Active
  <2> QED BY <1>1, <1>2, <1>3, <1>4, <2>1, <2>2 DEF Docs
<1>5. CASE req[r].op = "register" /\ req[r].key \in Templated
  <2>1. NewDoc(r) = [req[r].doc EXCEPT !.id = r, !.key = NoKey]
    BY <1>5 DEF NewDoc, CopiedAgent
  <2> QED BY <1>1, <1>2, <1>3, <1>5, <2>1 DEF Docs
<1>6. CASE req[r].op = "register" /\ req[r].key \notin Templated
  BY <1>1, <1>2, <1>3, <1>6 DEF NewDoc, FreshAgent
<1>7. CASE req[r].op \in {"sync", "resolve", "create", "save"}
  BY <1>1, <1>2, <1>3, <1>7 DEF NewDoc, SyncedAgent, NewMetadata, SavedSession
<1> QED BY <1>2, <1>4, <1>5, <1>6, <1>7 DEF Inserters

LEMMA InsertPath == ASSUME DocInv, PathInv, NEW r \in Reqs, Insert(r), DocInv' PROVE PathInv'
<1>1. req[r].at = "insert" /\ cache' = cache /\ PathOK(r) /\ FlowOK(r)
  BY KnownPath, Known, InsertMoves
<1>2. CASE mongo' = mongo /\ Moved(r, "failed")
  BY <1>1, <1>2, BrokenPath
<1>3. CASE /\ mongo' = [mongo EXCEPT ![r] = NewDoc(r)]
           /\ Becomes(r, CASE req[r].op \in {"save", "clone"} -> "done"
                           [] req[r].op = "register" -> IF req[r].key \in Templated THEN "byId" ELSE "write"
                           [] OTHER -> "fill",
                      IF req[r].op = "resolve" THEN "check" ELSE "done", r, NewDoc(r), req[r].todo)
  <2>0. PICK d, then : d = NewDoc(r) /\ then = IF req[r].op = "resolve" THEN "check" ELSE "done"
    OBVIOUS
  <2> DEFINE at == CASE req[r].op \in {"save", "clone"} -> "done"
                     [] req[r].op = "register" -> IF req[r].key \in Templated THEN "byId" ELSE "write"
                     [] OTHER -> "fill"
  <2>1. Becomes(r, at, then, r, d, req[r].todo) /\ mongo' = [mongo EXCEPT ![r] = d]
    BY <1>3, <2>0
  <2>2. /\ req[r].op \in {"save", "clone"} => at = "done"
        /\ req[r].op = "register" => at \in {"byId", "write"}
        /\ req[r].op \notin {"save", "clone", "register"} => at = "fill"
        /\ then = IF req[r].op = "resolve" THEN "check" ELSE "done"
    BY <2>0
  <2>3. /\ d \in Docs /\ d.id = r /\ ~Inserted(r) /\ mongo[r] = NoDoc
        /\ req[r].op \in Inserters
        /\ req[r].op \in {"sync", "resolve", "create", "save"} => d.key = req[r].key
        /\ req[r].op = "clone" => d.key = req[r].id /\ req[r].id \in Sessions
        /\ req[r].op = "register" => d.key = NoKey
    BY <1>1, <2>0, NewDocFits
  <2> HIDE DEF at
  <2>4. \A q \in Reqs \ {r} : req'[q] = req[q]
    BY <2>1 DEF Becomes
  <2>5. KeyFits(r, d.key)'
    BY <2>1, <2>3 DEF Becomes, KeyFits, Inserted, Inserters
  <2>6. \A i, k : KeyFits(i, k) => KeyFits(i, k)'
    BY <2>3, <2>4, KeyFitsLasts
  <2>7. r \in Ids /\ mongo \in [Ids -> Docs \cup {NoDoc}]
    BY Known DEF Ids
  <2>8. MongoStep(r)
    <3> SUFFICES ASSUME NEW i \in Ids, mongo'[i] # NoDoc
                 PROVE  /\ mongo'[i].id = i /\ mongo'[i].key \in KeysFor(i)'
                        /\ mongo[i] = NoDoc => i = r /\ ~Inserted(r)
                        /\ mongo[i] # NoDoc /\ mongo[i].key # NoKey => mongo'[i].key = mongo[i].key
      BY DEF MongoStep
    <3>1. CASE i = r
      <4>1. mongo'[i] = d /\ d.key \in Keys \cup {NoKey}
        BY <2>1, <2>3, <2>7, <3>1 DEF Docs
      <4> QED BY <2>3, <2>5, <3>1, <4>1 DEF KeysFor
    <3>2. CASE i # r
      <4>1. mongo'[i] = mongo[i] /\ mongo[i] \in Docs /\ mongo[i].id = i /\ KeyFits(i, mongo[i].key)
        BY <2>1, <2>7, <3>2 DEF PathInv, FitsOK, Fits
      <4> QED BY <2>6, <4>1 DEF KeysFor, Docs
    <3> QED BY <3>1, <3>2
  <2>9. d \in Fitting'
    <3>1. mongo'[r] = d
      BY <2>1, <2>7
    <3>2. Fits(d)'
      BY <2>3, <2>5, <3>1 DEF Fits
    <3> QED BY <2>3, <3>2 DEF Fitting
  <2>10. d # NoDoc
    BY <2>3
  <2>11. PathOK(r)'
    BY <1>1, <2>1, <2>2, <2>3, <2>10
       DEF PathOK, Becomes, Ahead, Heading, AfterCheck, Inserted, Inserters, Changers, Active, TouchedBy, Touched
  <2>12. req'[r].doc \in Fitting' /\ req'[r].todo = req[r].todo
    BY <2>1, <2>9 DEF Becomes
  <2> QED BY <1>1, <2>3, <2>4, <2>8, <2>11, <2>12, PathStep
<1> QED BY <1>2, <1>3, InsertMoves

\* An update sets a key only where there is none.
LEMMA UpdatedKey ==
  ASSUME DocInv, NEW r \in Reqs, req[r].op \in {"save", "change", "update", "register"}, NEW d \in Docs
  PROVE  /\ Updated(r, d).id = d.id
         /\ req[r].op \in {"save", "change"} => Updated(r, d).key = d.key
         /\ req[r].op = "register" => Updated(r, d).key = r
         /\ req[r].op = "update" => Updated(r, d).key = IF d.key = NoKey THEN d.id ELSE d.key
<1>1. CASE req[r].op = "save"
  BY <1>1 DEF Updated, SessionSaved, Docs
<1>2. CASE req[r].op = "change"
  BY <1>2 DEF Updated, MetadataUpdated, SetField, Docs
<1>3. CASE req[r].op = "register"
  <2>1. Updated(r, d) \in {[d EXCEPT !.key = r], [d EXCEPT !.key = r, !.a = r]}
    BY <1>3 DEF Updated, Applied, Stamped
  <2> QED BY <1>3, <2>1 DEF Docs
<1>4. CASE req[r].op = "update"
  <2> DEFINE k == IF d.key = NoKey THEN d.id ELSE d.key
  <2>1. Updated(r, d) = SetField(r, [d EXCEPT !.key = k])
    BY <1>4 DEF Updated, AgentUpdated
  <2>2. SetField(r, [d EXCEPT !.key = k]) \in {[d EXCEPT !.key = k, !.a = r], [d EXCEPT !.key = k, !.b = r]}
    BY DEF SetField
  <2>3. /\ [d EXCEPT !.key = k, !.a = r].id = d.id /\ [d EXCEPT !.key = k, !.a = r].key = k
        /\ [d EXCEPT !.key = k, !.b = r].id = d.id /\ [d EXCEPT !.key = k, !.b = r].key = k
    BY DEF Docs
  <2> QED BY <1>4, <2>1, <2>2, <2>3
<1> QED BY <1>1, <1>2, <1>3, <1>4

\* The _id and the key of a request that writes, and those of what it writes.
LEMMA WriterFits ==
  ASSUME DocInv, PathInv, NEW r \in Reqs, req[r].at = "write"
  PROVE  /\ req[r].op \in {"save", "change", "update", "register"} /\ req[r].id \in Ids
         /\ req[r].doc \in Docs /\ req[r].doc.id = req[r].id
         /\ req[r].op = "register" => req[r].id = r
         /\ req[r].op # "register" => KeyFits(req[r].id, req[r].key)
         /\ req[r].op \in {"save", "change"} => req[r].doc.key = req[r].key
         /\ \A d \in Docs : d.id = req[r].id /\ Fits(d) /\ req[r].op \in {"update", "register"} =>
              KeyFits(d.id, Updated(r, d).key) /\ Updated(r, d).key = (IF req[r].op = "update" THEN req[r].key ELSE r)
                /\ (d.key # NoKey => Updated(r, d).key = d.key)
<1>1. PathOK(r) /\ FlowOK(r) /\ (req[r].doc # NoDoc => req[r].doc \in Fitting)
  BY KnownPath, Known
<1>2. /\ req[r].op \in {"save", "change", "update", "register"} /\ req[r].doc # NoDoc
      /\ req[r].op = "register" => req[r].id = r
  BY <1>1 DEF FlowOK, Ahead, Heading, Changers
<1>3. req[r].doc \in Docs /\ req[r].id \in Ids /\ Fits(req[r].doc)
  BY <1>1, <1>2, Known DEF Fitting
<1>4. req[r].doc.id = req[r].id /\ (req[r].op \in {"save", "change"} => req[r].doc.key = req[r].key)
  BY <1>1, <1>2 DEF PathOK, Ahead, Heading, AfterCheck
<1>5. req[r].op # "register" => KeyFits(req[r].id, req[r].key)
  BY <1>1, <1>2, <1>3, <1>4 DEF PathOK, Fits
<1>6. ASSUME NEW d \in Docs, d.id = req[r].id, Fits(d), req[r].op \in {"update", "register"}
      PROVE  /\ KeyFits(d.id, Updated(r, d).key) /\ Updated(r, d).key = (IF req[r].op = "update" THEN req[r].key ELSE r)
             /\ d.key # NoKey => Updated(r, d).key = d.key
  <2>1. KeyFits(d.id, d.key) /\ d.id \in Ids
    BY <1>6 DEF Fits, Docs
  <2>2. CASE req[r].op = "register"
    <3>1. Updated(r, d).key = r /\ d.id = r
      BY <1>2, <1>6, <2>2, UpdatedKey
    <3>2. Inserted(r) /\ d.key \in {r, NoKey}
      BY <2>1, <2>2, <3>1 DEF KeyFits
    <3> QED BY <2>2, <3>1, <3>2 DEF KeyFits
  <2>3. CASE req[r].op = "update"
    <3>1. Updated(r, d).key = IF d.key = NoKey THEN d.id ELSE d.key
      BY <1>6, <2>3, UpdatedKey
    <3>2. KeyFits(d.id, req[r].key) /\ req[r].key \in Agents \cup Reqs
      BY <1>1, <1>5, <1>6, <2>3 DEF FlowOK, KeysOf
    <3>3. CASE d.id \in Reqs
      <4>1. req[d.id].op \in Inserters
        BY <2>1, <3>3 DEF KeyFits, Inserted
      <4>2. req[r].key # NoKey
        BY Known, Apart
      <4>3. req[d.id].op = "clone" => FALSE
        BY <3>2, <3>3, Apart DEF KeyFits
      <4>4. d.key = req[r].key \/ (d.key = NoKey /\ req[r].key = d.id)
        BY <2>1, <3>2, <3>3, <4>1, <4>2, <4>3 DEF KeyFits, Inserters
      <4> QED BY <2>1, <2>3, <3>1, <3>2, <4>4, <4>2
    <3>4. CASE d.id \notin Reqs
      <4>1. d.key = d.id /\ req[r].key = d.id
        BY <2>1, <3>2, <3>4 DEF KeyFits
      <4> QED BY <2>1, <2>3, <3>1, <4>1
    <3> QED BY <3>3, <3>4
  <2> QED BY <1>6, <2>2, <2>3
<1> QED BY <1>2, <1>3, <1>4, <1>5, <1>6

LEMMA WritePath == ASSUME DocInv, PathInv, NEW r \in Reqs, Write(r), DocInv' PROVE PathInv'
<1>1. req[r].at = "write" /\ cache' = cache /\ PathOK(r) /\ FlowOK(r)
  BY KnownPath, Known, WriteMoves
<1>2. CASE mongo' = mongo /\ Moved(r, "failed")
  BY <1>1, <1>2, BrokenPath
<1>3. CASE /\ mongo' = [mongo EXCEPT ![req[r].id] = IF @ = NoDoc THEN NoDoc ELSE Updated(r, @)]
           /\ IF req[r].op = "save" THEN Moved(r, "done")
              ELSE Becomes(r, "fill", "done", req[r].id, Updated(r, req[r].doc), req[r].todo)
  <2>1. PICK i, k, b, u : /\ i \in Ids /\ k \in Keys /\ b \in Docs
                         /\ i = req[r].id /\ k = req[r].key /\ b = req[r].doc /\ u = Updated(r, b)
    BY <1>1, WriterFits, Known
  <2>2. /\ req[r].op \in {"save", "change", "update", "register"} /\ b.id = i /\ Fits(b)
        /\ req[r].op = "register" => i = r
        /\ req[r].op # "register" => KeyFits(i, k)
        /\ req[r].op \in {"save", "change"} => b.key = k
    BY <1>1, <2>1, WriterFits DEF PathInv, FitsOK
  <2>3. u \in Docs /\ u.id = i
    <3>1. Good(b)
      BY <2>1, <2>2, Known
    <3> QED BY <2>1, <2>2, <3>1, UpdatedGood, UpdatedKey
  <2>4. /\ req'[r].op = req[r].op /\ req'[r].key = k /\ req'[r].field = req[r].field /\ req'[r].id = i
        /\ req'[r].todo = req[r].todo
        /\ IF req[r].op = "save" THEN req'[r].at = "done" /\ req'[r].doc = b
           ELSE req'[r].at = "fill" /\ req'[r].then = "done" /\ req'[r].doc = u
        /\ \A q \in Reqs \ {r} : req'[q] = req[q]
    BY <1>3, <2>1 DEF Moved, Becomes
  <2>5. mongo' = [mongo EXCEPT ![i] = IF @ = NoDoc THEN NoDoc ELSE Updated(r, @)]
    BY <1>3, <2>1
  <2>6. Inserted(r) => Inserted(r)' /\ req'[r].op = req[r].op /\ req'[r].key = req[r].key
    BY <2>1, <2>4 DEF Inserted
  <2>7. \A j, c : KeyFits(j, c) => KeyFits(j, c)'
    BY <2>4, <2>6, KeyFitsLasts
  <2>8. mongo \in [Ids -> Docs \cup {NoDoc}] /\ \A j \in Ids : mongo[j] # NoDoc => mongo[j].id = j /\ Fits(mongo[j])
    BY Known DEF PathInv, FitsOK
  <2>9. /\ req[r].op \in {"save", "change"} => u.key = k
        /\ req[r].op = "update" => u.key = k
        /\ req[r].op = "register" => u.key = r
        /\ KeyFits(i, u.key)
    <3>1. CASE req[r].op \in {"save", "change"}
      BY <2>1, <2>2, <3>1, UpdatedKey
    <3>2. CASE req[r].op \in {"update", "register"}
      BY <1>1, <2>1, <2>2, <3>2, WriterFits
    <3> QED BY <2>2, <3>1, <3>2
  <2>10. ASSUME mongo[i] # NoDoc
         PROVE  /\ mongo'[i] = Updated(r, mongo[i]) /\ mongo'[i].id = i /\ mongo'[i].key = u.key
                /\ mongo[i].key # NoKey => mongo'[i].key = mongo[i].key
    <3>1. mongo[i] \in Docs /\ mongo[i].id = i /\ Fits(mongo[i]) /\ mongo'[i] = Updated(r, mongo[i])
      BY <2>1, <2>5, <2>8, <2>10
    <3>2. mongo'[i].id = i
      BY <2>2, <3>1, UpdatedKey
    <3>3. CASE req[r].op \in {"save", "change"}
      <4>1. mongo'[i].key = mongo[i].key
        BY <3>1, <3>3, UpdatedKey
      <4>2. b.key = mongo[i].key
        BY <2>1, <2>2, <2>10, <3>3, Apart DEF Fits
      <4> QED BY <2>1, <2>2, <2>9, <3>1, <3>2, <3>3, <4>1, <4>2
    <3>4. CASE req[r].op \in {"update", "register"}
      <4>1. /\ mongo'[i].key = (IF req[r].op = "update" THEN k ELSE r)
            /\ mongo[i].key # NoKey => mongo'[i].key = mongo[i].key
        BY <1>1, <2>1, <3>1, <3>4, WriterFits
      <4> QED BY <2>9, <3>1, <3>2, <3>4, <4>1
    <3> QED BY <2>2, <3>3, <3>4
  <2>11. MongoStep(r)
    <3> SUFFICES ASSUME NEW j \in Ids, mongo'[j] # NoDoc
                 PROVE  /\ mongo'[j].id = j /\ mongo'[j].key \in KeysFor(j)'
                        /\ mongo[j] = NoDoc => j = r /\ ~Inserted(r)
                        /\ mongo[j] # NoDoc /\ mongo[j].key # NoKey => mongo'[j].key = mongo[j].key
      BY DEF MongoStep
    <3>1. mongo[j] # NoDoc
      BY <2>5, <2>8
    <3>2. CASE j = i
      <4>1. u.key \in Keys \cup {NoKey}
        BY <2>3 DEF Docs
      <4> QED BY <2>7, <2>9, <2>10, <3>1, <3>2, <4>1 DEF KeysFor
    <3>3. CASE j # i
      <4>1. mongo'[j] = mongo[j] /\ mongo[j] \in Docs /\ mongo[j].id = j /\ KeyFits(j, mongo[j].key)
        BY <2>5, <2>8, <3>1, <3>3 DEF Fits
      <4> QED BY <2>7, <3>1, <4>1 DEF KeysFor, Docs
    <3> QED BY <3>2, <3>3
  <2>12. u \in Fitting'
    <3>1. KeyFits(i, u.key)'
      BY <2>7, <2>9
    <3>2. mongo'[i] # NoDoc => mongo'[i].key = u.key
      BY <2>5, <2>8, <2>10
    <3>3. Fits(u)'
      BY <2>3, <3>1, <3>2 DEF Fits
    <3> QED BY <2>3, <3>3 DEF Fitting
  <2>13. PathOK(r)'
    <3>1. KeyFits(i, k) => KeyFits(i, k)'
      BY <2>7
    <3>2. req[r].op # "save" => u.key \in TouchedBy(r)'
      BY <2>2, <2>4, <2>9 DEF TouchedBy, Touched
    <3>3. req[r].op \in {"update", "legacy", "change"} => KeyFits(req[r].id, req[r].key)'
      BY <2>1, <2>2, <2>4, <3>1
    <3> QED BY <1>1, <2>1, <2>2, <2>4, <3>2, <3>3
         DEF PathOK, Ahead, Heading, AfterCheck, Inserted, Inserters, Changers, Active
  <2>14. req'[r].doc # NoDoc /\ req'[r].doc # req[r].doc => req'[r].doc \in Fitting'
    BY <2>1, <2>4, <2>12
  <2> QED BY <1>1, <2>4, <2>6, <2>11, <2>13, <2>14, PathStep
<1> QED BY <1>2, <1>3, WriteMoves

LEMMA RemovePath == ASSUME DocInv, PathInv, NEW r \in Reqs, Remove(r), DocInv' PROVE PathInv'
<1>1. req[r].at = "remove" /\ cache' = cache /\ PathOK(r) /\ FlowOK(r)
  BY KnownPath, Known, RemoveMoves
<1>2. CASE mongo' = mongo /\ Moved(r, "failed")
  BY <1>1, <1>2, BrokenPath
<1>3. CASE /\ mongo' = [mongo EXCEPT ![req[r].id] = NoDoc]
           /\ Moved(r, IF req[r].doc = NoDoc THEN "done" ELSE "drop")
  <2>1. PICK at : Moved(r, at) /\ at = IF req[r].doc = NoDoc THEN "done" ELSE "drop"
    BY <1>3
  <2>2. \A j, c : KeyFits(j, c) => KeyFits(j, c)'
    BY <2>1, MovedKeyFits
  <2>3. mongo \in [Ids -> Docs \cup {NoDoc}] /\ \A j \in Ids : mongo[j] # NoDoc => mongo[j].id = j /\ Fits(mongo[j])
    BY Known DEF PathInv, FitsOK
  <2>4. MongoStep(r)
    <3> SUFFICES ASSUME NEW j \in Ids, mongo'[j] # NoDoc
                 PROVE  /\ mongo'[j] = mongo[j] /\ mongo[j] # NoDoc
                        /\ mongo'[j].id = j /\ mongo'[j].key \in KeysFor(j)'
      BY DEF MongoStep
    <3>1. mongo'[j] = mongo[j]
      BY <1>3, <2>3
    <3>2. mongo[j] \in Docs /\ mongo[j].id = j /\ KeyFits(j, mongo[j].key)
      BY <2>3, <3>1 DEF Fits
    <3> QED BY <2>2, <3>1, <3>2 DEF KeysFor, Docs
  <2>5. PathOK(r)'
    BY <1>1, <2>1, <2>2 DEF PathOK, Moved, Becomes, Ahead, Heading, AfterCheck, Inserted, Changers, Active
  <2>6. Inserted(r) => Inserted(r)' /\ req'[r].op = req[r].op /\ req'[r].key = req[r].key
    BY <2>1 DEF Moved, Becomes, Inserted
  <2>7. req'[r].doc = req[r].doc /\ req'[r].todo = req[r].todo /\ \A q \in Reqs \ {r} : req'[q] = req[q]
    BY <2>1 DEF Moved, Becomes
  <2> QED BY <1>1, <2>4, <2>5, <2>6, <2>7, PathStep
<1> QED BY <1>2, <1>3, RemoveMoves

LEMMA DropPath == ASSUME DocInv, PathInv, NEW r \in Reqs, Drop(r), DocInv' PROVE PathInv'
<1>1. /\ req[r].at = "drop" /\ mongo' = mongo /\ Moved(r, "done") /\ PathOK(r) /\ FlowOK(r)
      /\ cache' = cache \/ \E k : cache' = [cache EXCEPT ![k] = NoDoc]
  BY KnownPath, Known, GoesMoved DEF Drop
<1>2. \A j, c : KeyFits(j, c) => KeyFits(j, c)'
  BY <1>1, MovedKeyFits
<1>3. PathOK(r)'
  BY <1>1, <1>2 DEF PathOK, Moved, Becomes, Ahead, Heading, AfterCheck, Inserted, Changers, Active
<1> QED BY <1>1, <1>3, MovedPath

LEMMA EnvelopePath == ASSUME DocInv, PathInv, NEW r \in Reqs, Envelope(r), DocInv' PROVE PathInv'
<1>1. /\ req[r].at = "envelope" /\ mongo' = mongo /\ Moved(r, "find") /\ PathOK(r) /\ FlowOK(r)
      /\ \/ cache' = cache
         \/ cache' = [cache EXCEPT ![req[r].key] = [Seed(req[r].key) EXCEPT !.a = r, !.b = r, !.tools = r]]
  BY KnownPath, Known, GoesMoved DEF Envelope
<1>2. req[r].op = "save" /\ req[r].key \in Sessions
  BY <1>1 DEF FlowOK, KeysOf
<1>3. PICK k, d : k = req[r].key /\ d = [Seed(k) EXCEPT !.a = r, !.b = r, !.tools = r]
  OBVIOUS
<1>4. d \in Docs /\ d.id = k /\ d.key = k
  BY <1>2, <1>3 DEF Seed, Docs, Ids, Keys, Named
<1>5. k \in Ids /\ KeyFits(k, k)
  BY <1>2, <1>3, Apart DEF KeyFits, Ids, Named
<1>6. mongo[k] # NoDoc => mongo[k].key = k
  BY <1>2, <1>3, <1>5, Apart DEF PathInv, FitsOK, Fits, KeyFits
<1>7. d \in Fitting
  BY <1>4, <1>5, <1>6 DEF Fitting, Fits
<1>8. PathOK(r)'
  BY <1>1, <1>2 DEF PathOK, Moved, Becomes, Ahead, Heading, AfterCheck, Inserted, Changers, Active
<1> QED BY <1>1, <1>3, <1>4, <1>7, <1>8, MovedPath

LEMMA ListAllPath == ASSUME DocInv, PathInv, NEW r \in Reqs, ListAll(r), DocInv' PROVE PathInv'
<1>1. req[r].at = "list" /\ mongo' = mongo /\ cache' = cache /\ PathOK(r) /\ FlowOK(r) /\ req[r].op = "list"
  BY KnownPath, Known, ListAllMoves DEF FlowOK
<1>2. CASE Moved(r, "done")
  <2>1. PathOK(r)'
    BY <1>1, <1>2 DEF PathOK, Moved, Becomes, Ahead, Heading, AfterCheck, Inserted, Changers, Active
  <2> QED BY <1>1, <1>2, <2>1, MovedPath
<1>3. CASE Becomes(r, "each", req[r].then, req[r].id, req[r].doc, UNION {Stored(k) : k \in Collection(req[r].key)})
  <2>1. PICK c : c = Collection(req[r].key)
    OBVIOUS
  <2>2. PICK todo : todo = UNION {Stored(k) : k \in c}
    OBVIOUS
  <2>3. \A d \in todo : d.key \in c /\ Fits(d)
    <3> TAKE d \in todo
    <3>1. PICK k \in c : d \in Stored(k)
      BY <2>2
    <3>2. PICK j \in Ids : mongo[j] # NoDoc /\ mongo[j].key = k /\ d = mongo[j]
      BY <3>1 DEF Stored
    <3> QED BY <3>2 DEF PathInv, FitsOK
  <2>4. Becomes(r, "each", req[r].then, req[r].id, req[r].doc, todo)
    BY <1>3, <2>1, <2>2
  <2>5. TouchedBy(r)' = c
    BY <1>1, <2>1, <2>4 DEF Becomes, TouchedBy, Touched
  <2>6. PathOK(r)'
    BY <1>1, <2>3, <2>4, <2>5 DEF PathOK, Becomes, Ahead, Heading, AfterCheck, Inserted, Changers, Active
  <2>7. Inserted(r) => Inserted(r)' /\ req'[r].op = req[r].op /\ req'[r].key = req[r].key
    BY <2>4 DEF Becomes, Inserted
  <2>8. req'[r].doc = req[r].doc /\ req'[r].todo = todo /\ \A q \in Reqs \ {r} : req'[q] = req[q]
    BY <2>4 DEF Becomes
  <2> QED BY <1>1, <2>3, <2>6, <2>7, <2>8, CachePath
<1> QED BY <1>2, <1>3, ListAllMoves

\* What a request still needs lies under a key that it touches.
LEMMA NeededPath ==
  ASSUME DocInv, PathInv, NEW r \in Reqs, req[r].op \in Checked, NEW d \in Needed(r)
  PROVE  d \in Fitting /\ d.key \in TouchedBy(r) \cap {Template, AgentType}
<1>1. Template \in Ids /\ Template \notin Reqs
  BY Apart DEF Ids, Named
<1>2. CASE req[r].op \in {"create", "change"}
  <2>1. mongo[Template] # NoDoc /\ d = mongo[Template]
    BY <1>2 DEF Needed
  <2>2. d \in Fitting /\ d.key = Template
    BY <1>1, <2>1, KnownPath DEF Fitting, Fits, KeyFits
  <2> QED BY <1>2, <2>2 DEF TouchedBy, Touched
<1>3. CASE req[r].op \in {"resolve", "legacy"}
  <2>1. PICK i \in Ids : mongo[i] # NoDoc /\ mongo[i].key = AgentType /\ d = mongo[i]
    BY <1>3 DEF Needed, Stored
  <2> QED BY <1>3, <2>1, KnownPath DEF TouchedBy, Touched
<1> QED BY <1>2, <1>3 DEF Checked

LEMMA CheckPath == ASSUME DocInv, PathInv, NEW r \in Reqs, Check(r), DocInv' PROVE PathInv'
<1>1. /\ req[r].at = "check" /\ mongo' = mongo /\ cache' = cache /\ PathOK(r) /\ FlowOK(r)
      /\ req[r].op \in Checked
  BY KnownPath, Known, CheckMoves DEF FlowOK, Ahead
<1>2. ASSUME NEW at \in {AfterCheck(r), "failed"}, Moved(r, at) PROVE PathInv'
  <2>1. \A i, k : KeyFits(i, k) => KeyFits(i, k)'
    BY <1>2, MovedKeyFits
  <2>2. PathOK(r)'
    BY <1>1, <1>2, <2>1
       DEF PathOK, Checked, Moved, Becomes, Ahead, Heading, AfterCheck, Inserted, Changers, Active
  <2> QED BY <1>1, <1>2, <2>2, MovedPath
<1>3. ASSUME NEW d \in Needed(r), Becomes(r, "each", req[r].then, req[r].id, req[r].doc, {d})
      PROVE  PathInv'
  <2>1. d \in Fitting /\ d.key \in TouchedBy(r)
    BY <1>1, NeededPath
  <2>2. TouchedBy(r)' = TouchedBy(r)
    BY <1>3 DEF Becomes, TouchedBy
  <2>3. Inserted(r) => Inserted(r)' /\ req'[r].op = req[r].op /\ req'[r].key = req[r].key
    BY <1>3 DEF Becomes, Inserted
  <2>4. \A i, k : KeyFits(i, k) => KeyFits(i, k)'
    BY <1>3, <2>3, KeyFitsLasts DEF Becomes
  <2>5. PathOK(r)'
    BY <1>1, <1>3, <2>1, <2>2, <2>4 DEF PathOK, Becomes, Ahead, Heading, AfterCheck, Inserted, Changers, Active
  <2>6. req'[r].doc = req[r].doc /\ req'[r].todo = {d} /\ \A q \in Reqs \ {r} : req'[q] = req[q]
    BY <1>3 DEF Becomes
  <2>7. \A e \in req'[r].todo : e \in req[r].todo \/ Fits(e)
    BY <2>1, <2>6 DEF Fitting
  <2> QED BY <1>1, <2>3, <2>5, <2>6, <2>7, CachePath
<1> QED BY <1>1, <1>2, <1>3, BrokenPath, CheckMoves

LEMMA CacheEachPath == ASSUME DocInv, PathInv, NEW r \in Reqs, CacheEach(r), DocInv' PROVE PathInv'
<1>1. req[r].at = "each" /\ mongo' = mongo /\ PathOK(r) /\ FlowOK(r) /\ req[r].op \in Checked \cup {"list"}
  BY KnownPath, Known, CacheEachMoves DEF FlowOK
<1>2. CASE Moved(r, AfterCheck(r)) /\ cache' = cache
  <2>0. \A i, k : KeyFits(i, k) => KeyFits(i, k)'
    BY <1>2, MovedKeyFits
  <2>1. PathOK(r)'
    BY <1>1, <1>2, <2>0 DEF PathOK, Checked, Moved, Becomes, Ahead, Heading, AfterCheck, Inserted, Changers, Active
  <2> QED BY <1>1, <1>2, <2>1, MovedPath
<1>3. ASSUME NEW d \in req[r].todo, cache' = cache \/ cache' = [cache EXCEPT ![d.key] = d],
             Becomes(r, "each", req[r].then, req[r].id, req[r].doc, req[r].todo \ {d})
      PROVE  PathInv'
  <2>1. TouchedBy(r)' = TouchedBy(r)
    BY <1>3 DEF Becomes, TouchedBy
  <2>3. Inserted(r) => Inserted(r)' /\ req'[r].op = req[r].op /\ req'[r].key = req[r].key
    BY <1>3 DEF Becomes, Inserted
  <2>6. \A i, k : KeyFits(i, k) => KeyFits(i, k)'
    BY <1>3, <2>3, KeyFitsLasts DEF Becomes
  <2>2. PathOK(r)'
    BY <1>1, <1>3, <2>1, <2>6 DEF PathOK, Becomes, Ahead, Heading, AfterCheck, Inserted, Changers, Active
  <2>4. req'[r].doc = req[r].doc /\ req'[r].todo \subseteq req[r].todo /\ \A q \in Reqs \ {r} : req'[q] = req[q]
    BY <1>3 DEF Becomes
  <2>5. d \in Fitting
    BY KnownPath
  <2> QED BY <1>1, <1>3, <2>2, <2>3, <2>4, <2>5, CachePath
<1> QED BY <1>2, <1>3, CacheEachMoves

LEMMA ExpirePath == ASSUME DocInv, PathInv, NEW k \in Keys, Expire(k) PROVE PathInv'
<1>1. cache' = [cache EXCEPT ![k] = NoDoc] /\ mongo' = mongo /\ req' = req
  BY DEF Expire
<1>2. \A j \in Keys : cache'[j] \in {cache[j], NoDoc}
  BY <1>1 DEF DocInv, TypeOK
<1>3. \A j, c : KeyFits(j, c)' <=> KeyFits(j, c)
  BY <1>1 DEF KeyFits, Inserted
<1>4. \A d : Fits(d)' <=> Fits(d)
  BY <1>1, <1>3 DEF Fits
<1>5. \A r \in Reqs : PathOK(r)'
  BY <1>1 DEF PathInv, PathOK, KeyFits, Ahead, Heading, AfterCheck, Inserted, Active, TouchedBy
<1>6. FitsOK'
  BY <1>1, <1>2, <1>4 DEF PathInv, FitsOK, Fits, KeyFits, Inserted
<1> QED BY <1>5, <1>6 DEF PathInv

LEMMA PathInductive == DocInv /\ PathInv /\ [Next]_vars /\ DocInv' => PathInv'
<1> SUFFICES ASSUME DocInv, PathInv, [Next]_vars, DocInv' PROVE PathInv'
  OBVIOUS
<1>1. ASSUME NEW r \in Reqs, Step(r) PROVE PathInv'
  BY <1>1, StartPath, CacheGetPath, FindByKeyPath, FindByIdPath, FillPath, FetchPath, InsertPath,
     WritePath, RemovePath, DropPath, EnvelopePath, CheckPath, ListAllPath, CacheEachPath DEF Step
<1>2. ASSUME NEW k \in Keys, Expire(k) PROVE PathInv'
  BY <1>2, ExpirePath
<1>3. CASE UNCHANGED vars
  BY <1>3 DEF vars, PathInv, FitsOK, Fits, PathOK, KeyFits, Inserted, Ahead, Heading, AfterCheck, Active, TouchedBy
<1> QED BY <1>1, <1>2, <1>3 DEF Next

LEMMA PathInitially == Init => PathInv
<1> SUFFICES ASSUME Init PROVE PathInv
  OBVIOUS
<1>1. PICK present \in SUBSET (Agents \cup Types) :
        /\ mongo = [i \in Ids |-> IF i \in present THEN Seed(i) ELSE NoDoc]
        /\ cache \in {[k \in Keys |-> NoDoc],
                      [k \in Keys |-> IF k \in present THEN Seed(k) ELSE NoDoc]}
  BY DEF Init
<1>2. req = [r \in Reqs |-> [op |-> "get", key |-> Template, field |-> "a", at |-> "idle",
                            then |-> "idle", id |-> Template, doc |-> NoDoc, todo |-> {}]]
  BY DEF Init
<1>3. \A i \in present : i \in Ids /\ i \notin Reqs /\ Seed(i).id = i /\ Seed(i).key = i
  BY Apart DEF Seed, Ids, Named
<1>4. \A i \in present : mongo[i] = Seed(i) /\ KeyFits(i, i)
  BY <1>1, <1>3 DEF KeyFits
<1>5. \A i \in present : Fits(Seed(i))
  BY <1>3, <1>4 DEF Fits
<1>6. FitsOK
  <2>1. \A i \in Ids : mongo[i] # NoDoc => mongo[i].id = i /\ Fits(mongo[i])
    BY <1>1, <1>3, <1>5
  <2>2. \A k \in Keys : cache[k] # NoDoc => cache[k].key = k /\ Fits(cache[k])
    BY <1>1, <1>3, <1>5
  <2> QED BY <1>2, <2>1, <2>2 DEF FitsOK
<1>7. \A r \in Reqs : PathOK(r)
  BY <1>2 DEF PathOK, Ahead, Heading, AfterCheck, Active, Changers
<1> QED BY <1>6, <1>7 DEF PathInv

LEMMA PathInvariant == Spec => []PathInv
BY DocInvariant, PathInitially, PathInductive, PTL DEF Spec

-----------------------------------------------------------------------------
\* A request that has written stays one that has, with what it wrote; and
\* only by a write has it changed a field.
Lasting(r) ==
  /\ \A q \in Reqs \ {r} : req'[q] = req[q]
  /\ written' \in {written, written \cup {r}}
  /\ r \in written => req'[r].op = req[r].op /\ req'[r].id = req[r].id /\ req'[r].field = req[r].field
  /\ req'[r].op \in {"update", "change"} /\ written' # written => Write(r)

LEMMA StepLasting == ASSUME DocInv, PathInv, NEW r \in Reqs, Step(r) PROVE Lasting(r)
<1>0. PathOK(r) /\ FlowOK(r)
  BY KnownPath, Known
<1>1. CASE Start(r)
  <2>1. r \notin written /\ written' = written
    BY <1>0, <1>1 DEF Start, FlowOK, Early, Heading, Ahead
  <2>2. PICK x : req' = [req EXCEPT ![r] = x]
    BY <1>1 DEF Start
  <2>3. \A q \in Reqs \ {r} : req'[q] = req[q]
    BY <2>2 DEF DocInv, TypeOK
  <2> QED BY <2>1, <2>3 DEF Lasting
<1>2. CASE CacheGet(r)
  <2>1. r \notin written /\ written' = written
    BY <1>2, CacheGetMoves, Lookups DEF CacheGet
  <2>2. \A q \in Reqs \ {r} : req'[q] = req[q]
    BY <1>2, CacheGetMoves DEF Moved, Becomes
  <2> QED BY <2>1, <2>2 DEF Lasting
<1>3. CASE FindByKey(r)
  <2>1. r \notin written /\ written' = written
    BY <1>3, FindByKeyMoves, Lookups DEF FindByKey
  <2>2. \A q \in Reqs \ {r} : req'[q] = req[q]
    BY <1>3, FindByKeyMoves DEF Moved, Becomes
  <2> QED BY <2>1, <2>2 DEF Lasting
<1>4. CASE FindById(r)
  <2>1. written' = written
    BY <1>4 DEF FindById
  <2>2. /\ \A q \in Reqs \ {r} : req'[q] = req[q]
        /\ req'[r].op = req[r].op /\ req'[r].id = req[r].id /\ req'[r].field = req[r].field
    BY <1>4, FindByIdMoves DEF Becomes
  <2> QED BY <2>1, <2>2 DEF Lasting
<1>5. CASE Fill(r) \/ Fetch(r) \/ Drop(r) \/ Envelope(r)
  <2>1. PICK at : Goes(r, at)
    BY <1>5 DEF Fill, Fetch, Drop, Envelope
  <2>2. Moved(r, at) /\ written' = written
    BY <1>5, <2>1, GoesMoved DEF Fill, Fetch, Drop, Envelope
  <2> QED BY <2>2 DEF Lasting, Moved, Becomes
<1>6. CASE Insert(r)
  <2>1. r \notin written /\ req[r].op \in Inserters
    BY <1>0, <1>6, InsertMoves, NewDocFits DEF FlowOK, Early, Heading, Ahead
  <2>2. req'[r].op = req[r].op /\ \A q \in Reqs \ {r} : req'[q] = req[q]
    BY <1>6, InsertMoves DEF Moved, Becomes
  <2>3. written' \in {written, written \cup {r}}
    BY <1>6, InsertMoves
  <2> QED BY <2>1, <2>2, <2>3 DEF Lasting, Inserters
<1>7. CASE Write(r)
  <2>1. /\ \A q \in Reqs \ {r} : req'[q] = req[q]
        /\ req'[r].op = req[r].op /\ req'[r].id = req[r].id /\ req'[r].field = req[r].field
    BY <1>7, WriteMoves DEF Moved, Becomes
  <2>2. written' \in {written, written \cup {r}}
    BY <1>7, WriteMoves
  <2> QED BY <1>7, <2>1, <2>2 DEF Lasting
<1>8. CASE Remove(r)
  <2>1. PICK at : Moved(r, at)
    BY <1>8, RemoveMoves
  <2>2. written' = written
    BY <1>8, RemoveMoves
  <2> QED BY <2>1, <2>2 DEF Lasting, Moved, Becomes
<1>9. CASE Check(r) \/ ListAll(r) \/ CacheEach(r)
  <2>1. written' = written
    BY <1>9 DEF Check, ListAll, CacheEach
  <2>2. /\ \A q \in Reqs \ {r} : req'[q] = req[q]
        /\ req'[r].op = req[r].op /\ req'[r].id = req[r].id /\ req'[r].field = req[r].field
    BY <1>9, CheckMoves, ListAllMoves, CacheEachMoves DEF Moved, Becomes
  <2> QED BY <2>1, <2>2 DEF Lasting
<1> QED BY <1>1, <1>2, <1>3, <1>4, <1>5, <1>6, <1>7, <1>8, <1>9 DEF Step

LEMMA UpdatedFields ==
  ASSUME DocInv, NEW r \in Reqs, req[r].op \in {"save", "change", "update", "register"}, NEW d \in Docs
  PROVE  /\ req[r].op \in {"change", "update"} =>
              /\ Updated(r, d).a = IF req[r].field = "a" THEN r ELSE d.a
              /\ Updated(r, d).b = IF req[r].field = "a" THEN d.b ELSE r
         /\ req[r].op = "register" => Updated(r, d).a \in {d.a, r} /\ Updated(r, d).b = d.b
         /\ req[r].op = "save" => Updated(r, d).a = r /\ Updated(r, d).b = r
<1>1. CASE req[r].op = "save"
  BY <1>1 DEF Updated, SessionSaved, Docs
<1>2. CASE req[r].op = "change"
  BY <1>2 DEF Updated, MetadataUpdated, SetField, Docs
<1>3. CASE req[r].op = "register"
  <2>1. Updated(r, d) \in {[d EXCEPT !.key = r], [d EXCEPT !.key = r, !.a = r]}
    BY <1>3 DEF Updated, Applied, Stamped
  <2> QED BY <1>3, <2>1 DEF Docs
<1>4. CASE req[r].op = "update"
  <2> DEFINE k == IF d.key = NoKey THEN d.id ELSE d.key
  <2>1. Updated(r, d) = SetField(r, [d EXCEPT !.key = k])
    BY <1>4 DEF Updated, AgentUpdated
  <2>2. SetField(r, [d EXCEPT !.key = k]) =
          IF req[r].field = "a" THEN [d EXCEPT !.key = k, !.a = r] ELSE [d EXCEPT !.key = k, !.b = r]
    BY DEF SetField
  <2>3. /\ [d EXCEPT !.key = k, !.a = r].a = r /\ [d EXCEPT !.key = k, !.a = r].b = d.b
        /\ [d EXCEPT !.key = k, !.b = r].a = d.a /\ [d EXCEPT !.key = k, !.b = r].b = r
    BY DEF Docs
  <2> QED BY <1>4, <2>1, <2>2, <2>3
<1> QED BY <1>1, <1>2, <1>3, <1>4

\* The requests that wrote the field that q wrote, and the one whose value it has.
Writers(q) == {v \in written : req[v].id = req[q].id /\ req[v].field = req[q].field}
Holder(q)  == IF req[q].field = "a" THEN mongo[req[q].id].a ELSE mongo[req[q].id].b

LEMMA SurvivesAs ==
  UpdatesSurvive <=>
    \A q \in Reqs : req[q].op \in {"update", "change"} /\ q \in written /\ mongo[req[q].id] # NoDoc =>
      Holder(q) \in Writers(q)
BY DEF UpdatesSurvive, Holder, Writers

\* A document that an update wrote is not a session's.
LEMMA UpdaterKey ==
  ASSUME DocInv, PathInv, NEW q \in Reqs, req[q].op \in {"update", "change"}, q \in written
  PROVE  KeyFits(req[q].id, req[q].key) /\ req[q].key \in Agents \cup Types \cup Reqs
<1>1. PathOK(q) /\ FlowOK(q)
  BY KnownPath, Known
<1> QED BY <1>1 DEF PathOK, FlowOK, KeysOf

LEMMA NoSessionThere ==
  ASSUME DocInv, PathInv, NEW i, NEW k \in Sessions, NEW j \in Agents \cup Types \cup Reqs,
         KeyFits(i, k), KeyFits(i, j)
  PROVE  FALSE
<1>1. j \notin Sessions /\ k \notin Reqs /\ k # NoKey
  BY Apart DEF Keys, Named
<1>2. CASE i \in Reqs
  <2>1. req[i].op \in Inserters
    BY <1>2 DEF KeyFits, Inserted
  <2> QED BY <1>1, <1>2, <2>1 DEF KeyFits, Inserters
<1>3. CASE i \notin Reqs
  BY <1>1, <1>3 DEF KeyFits
<1> QED BY <1>2, <1>3

LEMMA WriteSurvives ==
  ASSUME DocInv, PathInv, UpdatesSurvive, DocInv', NEW r \in Reqs, Write(r), mongo' # mongo \/ written' # written,
         NEW q \in Reqs, req'[q].op \in {"update", "change"}, q \in written',
         req'[q].id = req[r].id, mongo'[req[r].id] # NoDoc
  PROVE  (Holder(q) \in Writers(q))'
<1>1. PICK i : i = req[r].id
  OBVIOUS
<1>2. /\ req[r].op \in {"save", "change", "update", "register"} /\ i \in Ids
      /\ req[r].op = "register" => i = r
      /\ req[r].op # "register" => KeyFits(i, req[r].key)
      /\ Lasting(r)
  BY <1>1, WriteMoves, WriterFits, StepLasting DEF Step
<1>3. /\ mongo' = [mongo EXCEPT ![i] = IF @ = NoDoc THEN NoDoc ELSE Updated(r, @)]
      /\ written' = IF mongo[i] = NoDoc THEN written ELSE written \cup {r}
      /\ req'[r].op = req[r].op /\ req'[r].id = i /\ req'[r].field = req[r].field
  BY <1>1, WriteMoves DEF Moved, Becomes
<1>4. PICK d \in Docs : d = mongo[i] /\ mongo'[i] = Updated(r, d)
  <2>1. mongo[i] \in Docs \cup {NoDoc}
    BY <1>2, Known
  <2> QED BY <1>1, <1>2, <1>3, <2>1, Known
<1>5. written' = written \cup {r}
  BY <1>3, <1>4
<1>6. req'[q].field \in {"a", "b"} /\ req'[q].id = i
  BY <1>1 DEF DocInv, TypeOK, Request
<1>7. q # r => /\ req'[q] = req[q] /\ q \in written
               /\ IF req[q].field = "a" THEN d.a \in Writers(q) ELSE d.b \in Writers(q)
  <2> SUFFICES ASSUME q # r
               PROVE  /\ req'[q] = req[q] /\ q \in written
                      /\ IF req[q].field = "a" THEN d.a \in Writers(q) ELSE d.b \in Writers(q)
    OBVIOUS
  <2>1. req'[q] = req[q] /\ q \in written
    BY <1>2, <1>5 DEF Lasting
  <2>2. mongo[req[q].id] # NoDoc /\ mongo[req[q].id] = d
    BY <1>1, <1>4, <2>1
  <2>3. Holder(q) \in Writers(q)
    BY <2>1, <2>2, SurvivesAs
  <2> QED BY <2>1, <2>2, <2>3 DEF Holder
<1>8. ASSUME q # r, NEW v \in Writers(q) PROVE v \in Writers(q)'
  <2>1. v \in Reqs /\ v \in written
    BY Known DEF Writers
  <2>2. req'[v].id = req[v].id /\ req'[v].field = req[v].field
    BY <1>2, <2>1 DEF Lasting
  <2> QED BY <1>5, <1>7, <1>8, <2>1, <2>2 DEF Writers
<1>9. req[r].field = req'[q].field => r \in Writers(q)'
  BY <1>3, <1>5, <1>6 DEF Writers
<1>10. Holder(q)' = IF req'[q].field = "a" THEN Updated(r, d).a ELSE Updated(r, d).b
  BY <1>4, <1>6 DEF Holder
<1>11. CASE req[r].op = "save"
  <2>1. q # r
    BY <1>3, <1>11
  <2>2. KeyFits(i, req[q].key) /\ req[q].key \in Agents \cup Types \cup Reqs
    BY <1>6, <1>7, <2>1, UpdaterKey
  <2>3. req[r].key \in Sessions
    BY <1>11, Known DEF FlowOK, KeysOf
  <2> QED BY <1>2, <1>11, <2>2, <2>3, NoSessionThere
<1>12. CASE req[r].op \in {"change", "update"}
  <2>1. /\ Updated(r, d).a = IF req[r].field = "a" THEN r ELSE d.a
        /\ Updated(r, d).b = IF req[r].field = "a" THEN d.b ELSE r
    BY <1>12, UpdatedFields
  <2>2. req[r].field \in {"a", "b"}
    BY Known
  <2>3. CASE req[r].field = req'[q].field
    BY <1>5, <1>6, <1>9, <1>10, <1>12, <2>1, <2>3
  <2>4. CASE req[r].field # req'[q].field
    <3>1. q # r
      BY <1>3, <2>4
    <3> QED BY <1>6, <1>7, <1>8, <1>10, <2>1, <2>2, <2>4, <3>1
  <2> QED BY <2>3, <2>4
<1>13. CASE req[r].op = "register"
  <2>1. q # r
    BY <1>3, <1>13
  <2>2. Updated(r, d).a \in {d.a, r} /\ Updated(r, d).b = d.b
    BY <1>13, UpdatedFields
  <2>3. req[r].field = "a"
    BY <1>13, KnownPath, Known DEF PathOK
  <2> QED BY <1>5, <1>6, <1>7, <1>8, <1>9, <1>10, <1>13, <2>1, <2>2, <2>3
<1> QED BY <1>2, <1>11, <1>12, <1>13

LEMMA StepSurvives ==
  ASSUME DocInv, PathInv, UpdatesSurvive, DocInv', NEW r \in Reqs, Step(r)
  PROVE  UpdatesSurvive'
<1> SUFFICES ASSUME NEW q \in Reqs, req'[q].op \in {"update", "change"}, q \in written',
                    mongo'[req'[q].id] # NoDoc
             PROVE  (Holder(q) \in Writers(q))'
  BY DEF UpdatesSurvive, Holder, Writers
<1>1. Lasting(r)
  BY StepLasting
<1>2. PICK i : i = req'[q].id
  OBVIOUS
<1>3. mongo \in [Ids -> Docs \cup {NoDoc}] /\ i \in Ids
  BY <1>2 DEF DocInv, TypeOK, Request
<1>4. CASE q \in written /\ mongo'[i] = mongo[i]
  <2>1. req'[q].op = req[q].op /\ req'[q].id = req[q].id /\ req'[q].field = req[q].field
    BY <1>1, <1>4 DEF Lasting
  <2>2. Holder(q) \in Writers(q)
    BY <1>2, <1>4, <2>1, SurvivesAs
  <2>3. Holder(q)' = Holder(q)
    BY <1>2, <1>4, <2>1 DEF Holder
  <2>4. \A v \in Writers(q) : v \in Writers(q)'
    <3> TAKE v \in Writers(q)
    <3>1. v \in Reqs /\ v \in written
      BY Known DEF Writers
    <3>2. v \in written' /\ req'[v].id = req[v].id /\ req'[v].field = req[v].field
      BY <1>1, <3>1 DEF Lasting
    <3> QED BY <2>1, <3>2 DEF Writers
  <2> QED BY <2>2, <2>3, <2>4
<1>5. CASE q \notin written
  <2>1. q = r /\ Write(r) /\ written' # written
    BY <1>1, <1>5 DEF Lasting
  <2>2. req'[r].id = req[r].id
    BY <2>1, WriteMoves DEF Moved, Becomes
  <2> QED BY <1>2, <2>1, <2>2, WriteSurvives
<1>6. CASE q \in written /\ mongo'[i] # mongo[i]
  <2>1. CASE Write(r)
    <3>1. req[r].id = i
      BY <1>3, <1>6, <2>1, WriteMoves DEF Moved, Becomes
    <3> QED BY <1>2, <1>6, <2>1, <3>1, WriteSurvives
  <2>2. CASE Insert(r)
    <3>1. i = r /\ req[r].op \in Inserters /\ ~Inserted(r)
      BY <1>3, <1>6, <2>2, InsertMoves, NewDocFits
    <3>2. req'[q].id = req[q].id /\ req'[q].op = req[q].op
      BY <1>1, <1>6 DEF Lasting
    <3>3. KeyFits(req[q].id, req[q].key)
      BY <1>6, <3>2, UpdaterKey
    <3> QED BY <1>2, <3>1, <3>2, <3>3 DEF KeyFits
  <2>3. CASE Remove(r)
    <3>1. mongo'[i] = NoDoc
      BY <1>3, <1>6, <2>3, RemoveMoves
    <3> QED BY <1>2, <3>1
  <2>4. CASE mongo' = mongo
    BY <1>6, <2>4
  <2> QED BY <2>1, <2>2, <2>3, <2>4 DEF Step, Start, CacheGet, FindByKey, FindById, Fill, Fetch, Drop,
         Envelope, Check, ListAll, CacheEach
<1> QED BY <1>4, <1>5, <1>6

LEMMA SurvivesInductive == DocInv /\ PathInv /\ UpdatesSurvive /\ [Next]_vars /\ DocInv' => UpdatesSurvive'
<1> SUFFICES ASSUME DocInv, PathInv, UpdatesSurvive, [Next]_vars, DocInv' PROVE UpdatesSurvive'
  OBVIOUS
<1>1. ASSUME NEW r \in Reqs, Step(r) PROVE UpdatesSurvive'
  BY <1>1, StepSurvives
<1>2. ASSUME NEW k \in Keys, Expire(k) PROVE UpdatesSurvive'
  BY <1>2 DEF Expire, UpdatesSurvive
<1>3. CASE UNCHANGED vars
  BY <1>3 DEF vars, UpdatesSurvive
<1> QED BY <1>1, <1>2, <1>3 DEF Next

-----------------------------------------------------------------------------
\* The key a document is known by, or will be when it has been stamped.
Home(d) == IF d.key = NoKey THEN d.id ELSE d.key

\* A step of r changes what is under the keys that r touches, and Mongo only
\* when it is an operation that changes something.
Confined(r) ==
  /\ \A k \in Keys \ TouchedBy(r) : cache'[k] = cache[k]
  /\ \A i \in Ids : mongo'[i] # mongo[i] =>
       /\ Changes(req[r].op)
       /\ mongo[i] # NoDoc => Home(mongo[i]) \in TouchedBy(r)
       /\ mongo'[i] # NoDoc => Home(mongo'[i]) \in TouchedBy(r)

Same(k) ==
  \A i \in Ids : (mongo[i] # NoDoc /\ Home(mongo[i]) = k) \/ (mongo'[i] # NoDoc /\ Home(mongo'[i]) = k) =>
    mongo'[i] = mongo[i]

LEMMA SameKept ==
  ASSUME NEW k \in Keys, Same(k)
  PROVE  /\ None(k) => None(k)'
         /\ Sole(k) => Sole(k)'
         /\ \A d \in Docs : Home(d) = k /\ Current(d) => Current(d)'
<1>1. k # NoKey
  BY Apart
<1>2. \A i \in Ids : (mongo[i] # NoDoc /\ mongo[i].key = k) \/ (mongo'[i] # NoDoc /\ mongo'[i].key = k) =>
        mongo'[i] = mongo[i]
  BY <1>1 DEF Same, Home
<1>3. \A d \in Docs : Home(d) = k /\ Current(d) => Current(d)'
  BY DEF Same, Current, Docs
<1>4. None(k) => None(k)'
  BY <1>2 DEF None
<1>5. Sole(k) => Sole(k)'
  BY <1>2 DEF Sole
<1> QED BY <1>3, <1>4, <1>5

LEMMA SameOutside ==
  ASSUME NEW r \in Reqs, Confined(r), NEW k, k \notin TouchedBy(r) \/ ~Changes(req[r].op)
  PROVE  Same(k)
BY DEF Confined, Same

\* What a request is about is in what it touches.
LEMMA TouchedOwn ==
  ASSUME DocInv, PathInv, NEW r \in Reqs
  PROVE  /\ req[r].op # "list" => req[r].key \in TouchedBy(r)
         /\ req[r].op = "clone" => req[r].id \in TouchedBy(r)
         /\ req[r].op = "register" => r \in TouchedBy(r)
         /\ TouchedBy(r) \subseteq Keys
         /\ \A k : Refreshes(r, k) \/ Saving(r, k) => k \in TouchedBy(r) /\ Changes(req[r].op) /\ Active(r)
<1>1. PathOK(r) /\ req[r].key \in Keys /\ req[r].id \in Ids
  BY KnownPath, Known
<1>2. /\ req[r].op # "list" => req[r].key \in TouchedBy(r)
      /\ req[r].op = "clone" => req[r].id \in TouchedBy(r)
      /\ req[r].op = "register" => r \in TouchedBy(r)
  BY DEF TouchedBy, Touched
<1>3. TouchedBy(r) \subseteq Keys
  BY <1>1, TouchedTyped DEF TouchedBy
<1>4. \A k : Refreshes(r, k) => k \in TouchedBy(r) /\ Changes(req[r].op) /\ Active(r)
  BY <1>1, <1>2 DEF PathOK, Refreshes, Active
<1>5. \A k : Saving(r, k) => k \in TouchedBy(r) /\ Changes(req[r].op) /\ Active(r)
  BY <1>2 DEF Saving, Active, Changes
<1> QED BY <1>2, <1>3, <1>4, <1>5

LEMMA HomeOf ==
  ASSUME NEW k \in Agents \cup Types \cup Reqs, NEW d, KeyFits(d.id, k), KeyFits(d.id, d.key)
  PROVE  Home(d) = k
<1>1. k # NoKey /\ k \notin Sessions
  BY Apart DEF Keys, Named
<1>2. CASE d.id \notin Reqs
  BY <1>1, <1>2 DEF KeyFits, Home
<1>3. CASE d.id \in Reqs
  <2>1. req[d.id].op \in Inserters
    BY <1>3 DEF KeyFits, Inserted
  <2> QED BY <1>1, <1>3, <2>1 DEF KeyFits, Inserters, Home
<1> QED BY <1>2, <1>3

\* What another request has read of an undisturbed key stays what is there.
LEMMA OthersView ==
  ASSUME DocInv, PathInv, CopiesInv, NEW r \in Reqs, Active(r), Confined(r), disturbed \subseteq disturbed',
         NEW q \in Reqs \ {r}, req'[q] = req[q]
  PROVE  Views(q)'
<1>1. /\ Views(q) /\ PathOK(q) /\ FlowOK(q)
      /\ req[q].doc \in Docs \cup {NoDoc} /\ req[q].todo \subseteq Docs /\ req[q].key \in Keys /\ req[q].id \in Ids
      /\ req[q].doc # NoDoc => Fits(req[q].doc)
      /\ \A d \in req[q].todo : Fits(d)
  BY KnownPath, Known DEF CopiesInv, Fitting
<1>2. \A k \in TouchedBy(q) \ disturbed : Active(q) =>
        Same(k) /\ (Changes(req[q].op) => cache'[k] = cache[k])
  <2> SUFFICES ASSUME NEW k \in TouchedBy(q) \ disturbed, Active(q)
               PROVE  Same(k) /\ (Changes(req[q].op) => cache'[k] = cache[k])
    OBVIOUS
  <2>1. k \in Keys /\ Alone(k)
    BY TouchedOwn DEF CopiesInv, KeyOK
  <2>2. k \in TouchedBy(r) => ~Changes(req[r].op) /\ ~Changes(req[q].op)
    BY <2>1 DEF Alone
  <2> QED BY <2>1, <2>2, SameOutside DEF Confined
<1>3. /\ \A k \in TouchedBy(q) \ disturbed : Active(q) /\ None(k) => None(k)'
      /\ \A d \in Docs : Home(d) \in TouchedBy(q) \ disturbed /\ Active(q) /\ Current(d) => Current(d)'
  <2>1. TouchedBy(q) \subseteq Keys
    BY TouchedOwn
  <2> QED BY <1>2, <2>1, SameKept
<1>4. /\ req[q].op # "list" => req[q].key \in TouchedBy(q)
      /\ req[q].op = "clone" => req[q].id \in TouchedBy(q)
      /\ req[q].op = "register" => q \in TouchedBy(q)
      /\ TouchedBy(q) \subseteq Keys
  BY TouchedOwn
<1>5. \A p \in {"fetch", "insert", "write", "byId", "remove"} : Heading(q, p) \/ Ahead(q, p) => Active(q)
  BY DEF Heading, Ahead, Active
<1>6. NoKey \notin Keys
  BY Apart
<1>7. req[q].at = "fill" /\ req[q].doc # NoDoc /\ req[q].doc.key \notin disturbed => Current(req[q].doc)'
  BY <1>1, <1>3, <1>4, <1>6 DEF Views, PathOK, Home, Active
<1>8. req[q].at = "each" => \A d \in req[q].todo : d.key \notin disturbed => Current(d)'
  BY <1>1, <1>3, <1>4, <1>6 DEF Views, PathOK, Home, Active
<1>9. (Ahead(q, "fetch") \/ Heading(q, "insert")) /\ req[q].op \in {"sync", "resolve", "create", "save"}
       /\ req[q].key \notin disturbed => None(req[q].key)'
  BY <1>1, <1>3, <1>4, <1>5 DEF Views
<1>10. req[q].op = "clone" /\ Active(q) /\ req[q].id \notin disturbed => None(req[q].id)'
  BY <1>1, <1>3, <1>4 DEF Views
<1>11. Heading(q, "write") /\ req[q].op # "register" /\ req[q].key \notin disturbed => Current(req[q].doc)'
  <2> SUFFICES ASSUME Heading(q, "write"), req[q].op # "register", req[q].key \notin disturbed
               PROVE  Current(req[q].doc)'
    OBVIOUS
  <2>1. req[q].op \in Changers /\ req[q].doc \in Docs
    BY <1>1 DEF FlowOK
  <2>2. req[q].doc.id = req[q].id /\ Current(req[q].doc)
    BY <1>1 DEF PathOK, Views
  <2>3. Home(req[q].doc) = req[q].key
    <3>1. CASE req[q].op # "update"
      BY <1>1, <1>4, <1>6, <3>1 DEF PathOK, Home
    <3>2. CASE req[q].op = "update"
      <4>1. req[q].key \in Agents \cup Reqs /\ KeyFits(req[q].id, req[q].key)
        BY <1>1, <3>2 DEF PathOK, FlowOK, KeysOf
      <4> QED BY <1>1, <2>1, <2>2, <4>1, HomeOf DEF Fits
    <3> QED BY <3>1, <3>2
  <2> QED BY <1>3, <1>4, <1>5, <2>1, <2>2, <2>3 DEF Changers
<1>12. (Ahead(q, "write") \/ Ahead(q, "byId")) /\ req[q].op = "register" /\ req[q].id = q
         /\ q \notin disturbed => Current(req[q].doc)'
  <2> SUFFICES ASSUME Ahead(q, "write") \/ Ahead(q, "byId"), req[q].op = "register", req[q].id = q, q \notin disturbed
               PROVE  Current(req[q].doc)'
    OBVIOUS
  <2>1. req[q].doc \in Docs /\ req[q].doc.id = q /\ Current(req[q].doc)
    BY <1>1 DEF PathOK, Views
  <2>2. Home(req[q].doc) = q
    BY <1>1, <2>1 DEF Fits, KeyFits, Home
  <2> QED BY <1>3, <1>4, <1>5, <2>1, <2>2
<1>13. (Ahead(q, "byId") \/ Ahead(q, "remove")) /\ req[q].op = "delete"
         /\ req[q].key \notin disturbed => req[q].doc # NoDoc /\ Current(req[q].doc)'
  <2> SUFFICES ASSUME Ahead(q, "byId") \/ Ahead(q, "remove"), req[q].op = "delete", req[q].key \notin disturbed
               PROVE  req[q].doc # NoDoc /\ Current(req[q].doc)'
    OBVIOUS
  <2>1. req[q].doc \in Docs /\ req[q].doc.key = req[q].key /\ Current(req[q].doc)
    BY <1>1 DEF PathOK, Views
  <2>2. Home(req[q].doc) = req[q].key
    BY <1>4, <1>6, <2>1 DEF Home
  <2> QED BY <1>1, <1>3, <1>4, <1>5, <2>1, <2>2
<1>14. req[q].at = "drop" /\ req[q].key \notin disturbed => None(req[q].key)'
  BY <1>1, <1>3, <1>4 DEF Views, PathOK, Active
<1>15. Saving(q, req[q].key) /\ req[q].key \notin disturbed /\ cache'[req[q].key] # NoDoc =>
         cache'[req[q].key].a = q /\ cache'[req[q].key].b = q
  <2>1. ASSUME Saving(q, req[q].key), req[q].key \notin disturbed PROVE cache'[req[q].key] = cache[req[q].key]
    BY <1>2, <2>1, TouchedOwn
  <2> QED BY <1>1, <2>1 DEF Views
<1>16. /\ \A p : (Ahead(q, p)' <=> Ahead(q, p)) /\ (Heading(q, p)' <=> Heading(q, p))
       /\ Active(q)' <=> Active(q)
       /\ \A k : Saving(q, k)' <=> Saving(q, k)
  BY DEF Ahead, Heading, AfterCheck, Active, Saving
<1> QED BY <1>7, <1>8, <1>9, <1>10, <1>11, <1>12, <1>13, <1>14, <1>15, <1>16 DEF Views

\* An entry whose documents stay, like the requests that may refresh it.
LEMMA SameEntry ==
  ASSUME DocInv, PathInv, NEW k \in Keys, Sole(k), EntryOK(k), Same(k), cache'[k] = cache[k],
         \A q \in Reqs : (Refreshes(q, k) => Refreshes(q, k)') /\ (Saving(q, k) => Saving(q, k)')
  PROVE  Sole(k)' /\ EntryOK(k)'
<1>1. Sole(k)'
  BY SameKept
<1>2. k # NoKey
  BY Apart
<1>3. CASE k \in Sessions
  <2>1. \A i \in Ids : mongo[i] # NoDoc /\ mongo[i].key = k => mongo'[i] = mongo[i]
    BY <1>2 DEF Same, Home
  <2> QED BY <1>1, <1>3, <2>1 DEF EntryOK, Mirrors
<1>4. CASE k \notin Sessions
  <2>1. cache[k] # NoDoc => cache[k] \in Docs /\ Home(cache[k]) = k
    <3>1. cache \in [Keys -> Docs \cup {NoDoc}] /\ (cache[k] # NoDoc => cache[k].key = k)
      BY DEF DocInv, TypeOK, PathInv, FitsOK
    <3> QED BY <1>2, <3>1 DEF Home
  <2>2. cache[k] # NoDoc /\ Current(cache[k]) => Current(cache[k])'
    <3> SUFFICES ASSUME cache[k] # NoDoc, Current(cache[k]) PROVE mongo'[cache'[k].id] = cache'[k]
      BY DEF Current
    <3> QED BY <2>1 DEF Same, Current, Docs
  <2> QED BY <1>1, <1>4, <2>2 DEF EntryOK
<1> QED BY <1>3, <1>4

\* A step of a request keeps what holds of undisturbed keys, when it does of
\* those it touches.
LEMMA CopiesStep ==
  ASSUME DocInv, PathInv, CopiesInv, DocInv', NEW r \in Reqs, Active(r), Confined(r), disturbed \subseteq disturbed',
         \A q \in Reqs \ {r} : req'[q] = req[q],
         req'[r].op = req[r].op, Active(r)' => TouchedBy(r)' \subseteq TouchedBy(r),
         \A k \in TouchedBy(r) \ disturbed' : Sole(k)' /\ EntryOK(k)',
         Views(r)'
  PROVE  CopiesInv'
<1>1. \A q \in Reqs : Views(q)'
  BY OthersView
<1>2. ASSUME NEW k \in Keys \ disturbed' PROVE Alone(k)'
  <2>1. Alone(k)
    BY <1>2 DEF CopiesInv, KeyOK
  <2>2. \A q \in Reqs : /\ req'[q].op = req[q].op
                        /\ Active(q)' /\ k \in TouchedBy(q)' => Active(q) /\ k \in TouchedBy(q)
    <3> TAKE q \in Reqs
    <3>1. CASE q = r
      BY <3>1
    <3>2. CASE q # r
      BY <3>2 DEF Active, TouchedBy
    <3> QED BY <3>1, <3>2
  <2> QED BY <2>1, <2>2 DEF Alone
<1>3. ASSUME NEW k \in Keys \ disturbed', k \notin TouchedBy(r) PROVE Sole(k)' /\ EntryOK(k)'
  <2>1. Sole(k) /\ EntryOK(k) /\ Same(k) /\ cache'[k] = cache[k]
    BY <1>3, SameOutside DEF CopiesInv, KeyOK, Confined
  <2>3. ASSUME NEW q \in Reqs, Refreshes(q, k) PROVE Refreshes(q, k)'
    <3>1. q # r
      BY <1>3, <2>3, TouchedOwn
    <3> QED BY <2>3, <3>1 DEF Refreshes
  <2>4. ASSUME NEW q \in Reqs, Saving(q, k) PROVE Saving(q, k)'
    <3>1. q # r
      BY <1>3, <2>4, TouchedOwn
    <3> QED BY <2>4, <3>1 DEF Saving
  <2> QED BY <2>1, <2>3, <2>4, SameEntry
<1> QED BY <1>1, <1>2, <1>3 DEF CopiesInv, KeyOK

\* What every step of a request after its first has in common.
LEMMA StepCommon ==
  ASSUME DocInv, PathInv, NEW r \in Reqs, Step(r), ~Start(r)
  PROVE  /\ Active(r) /\ req'[r].op = req[r].op /\ req'[r].key = req[r].key
         /\ \A q \in Reqs \ {r} : req'[q] = req[q]
         /\ Active(r)' => TouchedBy(r)' \subseteq TouchedBy(r)
         /\ NoFault \/ (Fault(r) /\ mongo' = mongo /\ cache' = cache)
<1> DEFINE Fixed == /\ req'[r].op = req[r].op /\ req'[r].key = req[r].key
                    /\ \A q \in Reqs \ {r} : req'[q] = req[q]
                    /\ req[r].op \in {"clone", "register"} /\ Active(r)' => req'[r].id \in {req[r].id, r}
                    /\ req[r].op = "clone" /\ Active(r)' => req'[r].id = req[r].id
<1>1. Active(r)
  BY DEF Step, CacheGet, FindByKey, FindById, Fill, Fetch, Insert, Write, Remove, Drop, Envelope,
         Check, ListAll, CacheEach, Active
<1>2. NoFault \/ (Fault(r) /\ mongo' = mongo /\ cache' = cache)
  BY DEF Step, CacheGet, FindByKey, FindById, Fill, Fetch, Insert, Write, Remove, Drop, Envelope, Check, ListAll,
         CacheEach, Breaks, NoFault
<1>3. ASSUME NEW at, Goes(r, at) PROVE Fixed
  BY <1>3, GoesMoved DEF Moved, Becomes
<1>4. ASSUME CacheGet(r) PROVE Fixed
  <2>1. req[r].op # "clone"
    BY <1>4, Known DEF CacheGet, FlowOK
  <2> QED BY <1>4, <2>1, CacheGetMoves DEF Moved, Becomes
<1>5. ASSUME FindByKey(r) PROVE Fixed
  BY <1>5, FindByKeyMoves DEF Moved, Becomes
<1>6. ASSUME FindById(r) PROVE Fixed
  BY <1>6, FindByIdMoves DEF Becomes
<1>7. ASSUME Insert(r) PROVE Fixed
  BY <1>7, InsertMoves DEF Moved, Becomes, Active
<1>8. ASSUME Write(r) PROVE Fixed
  BY <1>8, WriteMoves DEF Moved, Becomes
<1>9. ASSUME Check(r) \/ ListAll(r) \/ CacheEach(r) PROVE Fixed
  BY <1>9, CheckMoves, ListAllMoves, CacheEachMoves DEF Moved, Becomes
<1>10. Fixed
  <2>1. CASE Fill(r) \/ Fetch(r) \/ Remove(r) \/ Drop(r) \/ Envelope(r)
    <3>1. \E at : Goes(r, at)
      BY <2>1 DEF Fill, Fetch, Remove, Drop, Envelope, Breaks
    <3> HIDE DEF Fixed
    <3> QED BY <1>3, <3>1
  <2> HIDE DEF Fixed
  <2> QED BY <1>4, <1>5, <1>6, <1>7, <1>8, <1>9, <2>1 DEF Step
<1>11. Active(r)' => TouchedBy(r)' \subseteq TouchedBy(r)
  BY <1>10 DEF TouchedBy, Touched
<1> QED BY <1>1, <1>2, <1>10, <1>11

\* Where everything a request touches has been disturbed there is nothing to see.
LEMMA DisturbedViews ==
  ASSUME NEW r \in Reqs, PathOK(r)', FlowOK(r)', Active(r)' => TouchedBy(r)' \subseteq disturbed'
  PROVE  Views(r)'
<1>1. /\ req'[r].op # "list" => req'[r].key \in TouchedBy(r)'
      /\ req'[r].op = "clone" => req'[r].id \in TouchedBy(r)'
      /\ req'[r].op = "register" => r \in TouchedBy(r)'
  BY DEF TouchedBy, Touched
<1>2. \A p \in {"fetch", "insert", "write", "byId", "remove"} : (Heading(r, p) \/ Ahead(r, p))' => Active(r)'
  BY DEF Heading, Ahead, Active
<1>3. req'[r].at \in {"fill", "each", "drop"} \/ Saving(r, req[r].key)' => Active(r)'
  BY DEF Active, Saving
<1>4. req'[r].at = "fill" /\ req'[r].doc # NoDoc => req'[r].doc.key \in disturbed'
  BY <1>3 DEF PathOK
<1>5. req'[r].at = "each" => \A d \in req'[r].todo : d.key \in disturbed'
  BY <1>3 DEF PathOK
<1>6. (Ahead(r, "fetch") \/ Heading(r, "insert"))' /\ req'[r].op \in {"sync", "resolve", "create", "save"} =>
        req'[r].key \in disturbed'
  BY <1>1, <1>2
<1>7. req'[r].op = "clone" /\ Active(r)' => req'[r].id \in disturbed'
  BY <1>1
<1>8. Heading(r, "write")' /\ req'[r].op # "register" => req'[r].key \in disturbed'
  BY <1>1, <1>2 DEF FlowOK, Changers
<1>9. (Ahead(r, "write") \/ Ahead(r, "byId"))' /\ req'[r].op = "register" => r \in disturbed'
  BY <1>1, <1>2
<1>10. (Ahead(r, "byId") \/ Ahead(r, "remove"))' /\ req'[r].op = "delete" => req'[r].key \in disturbed'
  BY <1>1, <1>2
<1>11. req'[r].at = "drop" => req'[r].key \in disturbed'
  BY <1>1, <1>3 DEF PathOK
<1>12. Saving(r, req[r].key)' => req'[r].key \in disturbed'
  BY <1>1, <1>3 DEF Saving
<1> QED BY <1>4, <1>5, <1>6, <1>7, <1>8, <1>9, <1>10, <1>11, <1>12 DEF Views

LEMMA FaultCopies ==
  ASSUME DocInv, PathInv, CopiesInv, DocInv', PathInv', NEW r \in Reqs, Step(r), ~Start(r), ~NoFault
  PROVE  CopiesInv'
<1>1. /\ Active(r) /\ req'[r].op = req[r].op
      /\ \A q \in Reqs \ {r} : req'[q] = req[q]
      /\ Active(r)' => TouchedBy(r)' \subseteq TouchedBy(r)
      /\ Fault(r) /\ mongo' = mongo /\ cache' = cache
  BY StepCommon
<1>2. disturbed \subseteq disturbed' /\ TouchedBy(r) \subseteq disturbed'
  BY <1>1 DEF Fault
<1>3. Confined(r)
  BY <1>1 DEF Confined
<1>4. Views(r)'
  <2>1. PathOK(r)' /\ FlowOK(r)'
    BY DEF PathInv, DocInv
  <2> QED BY <1>1, <1>2, <2>1, DisturbedViews
<1> QED BY <1>1, <1>2, <1>3, <1>4, CopiesStep

\* Steps that only read.
LEMMA ReadCopies ==
  ASSUME DocInv, PathInv, CopiesInv, DocInv', PathInv', NEW r \in Reqs, Step(r), ~Start(r), NoFault,
         mongo' = mongo, cache' = cache, Views(r)',
         \A k : (Refreshes(r, k) => Refreshes(r, k)') /\ (Saving(r, k) => Saving(r, k)')
  PROVE  CopiesInv'
<1>1. /\ Active(r) /\ req'[r].op = req[r].op
      /\ \A q \in Reqs \ {r} : req'[q] = req[q]
      /\ Active(r)' => TouchedBy(r)' \subseteq TouchedBy(r)
      /\ disturbed' = disturbed
  BY StepCommon DEF NoFault
<1>2. Confined(r)
  BY <1>1 DEF Confined
<1>3. ASSUME NEW k \in TouchedBy(r) \ disturbed' PROVE Sole(k)' /\ EntryOK(k)'
  <2>1. Sole(k) /\ EntryOK(k)
    BY <1>1, <1>3, TouchedOwn DEF CopiesInv, KeyOK
  <2>2. \A q \in Reqs : (Refreshes(q, k) => Refreshes(q, k)') /\ (Saving(q, k) => Saving(q, k)')
    <3> TAKE q \in Reqs
    <3>1. CASE q = r
      BY <3>1
    <3>2. CASE q # r
      BY <1>1, <3>2 DEF Refreshes, Saving
    <3> QED BY <3>1, <3>2
  <2>3. Sole(k)'
    BY <2>1 DEF Sole
  <2> QED BY <2>1, <2>2, <2>3 DEF EntryOK, Mirrors, Current
<1> QED BY <1>1, <1>2, <1>3, CopiesStep

LEMMA StartCopies == ASSUME DocInv, PathInv, CopiesInv, NEW r \in Reqs, Start(r), DocInv', PathInv' PROVE CopiesInv'
<1> DEFINE Begins(o, k, i, f) ==
      /\ req' = [req EXCEPT ![r] = [op |-> o, key |-> k, field |-> f, at |-> Flow(o, k).first,
                   then |-> "idle", id |-> i, doc |-> NoDoc, todo |-> {}]]
      /\ disturbed' = disturbed \cup Overlapping(o, k, i, r)
           \cup {t \in {i} : o = "clone" /\ Stored(t) # {}}
<1>1. PICK o \in Ops : \E k \in KeysOf[o] : \E i \in FirstIds(o, k) : \E f \in {"a", "b"} : Begins(o, k, i, f)
  BY DEF Start
<1>2. PICK k \in KeysOf[o] : \E i \in FirstIds(o, k) : \E f \in {"a", "b"} : Begins(o, k, i, f)
  BY <1>1
<1>3. PICK i \in FirstIds(o, k) : \E f \in {"a", "b"} : Begins(o, k, i, f)
  BY <1>2
<1>4. PICK f \in {"a", "b"} : Begins(o, k, i, f)
  BY <1>3
<1>5. /\ req[r].at = "idle" /\ mongo' = mongo /\ cache' = cache
      /\ req'[r] = [op |-> o, key |-> k, field |-> f, at |-> Flow(o, k).first,
                    then |-> "idle", id |-> i, doc |-> NoDoc, todo |-> {}]
      /\ \A q \in Reqs \ {r} : req'[q] = req[q]
      /\ disturbed \subseteq disturbed'
  BY <1>4 DEF Start, DocInv, TypeOK
<1>6. /\ Flow(o, k).first \in {"lookup", "find", "byId", "envelope", "list"}
      /\ Flow(o, k).first = "find" => o = "clone"
      /\ Flow(o, k).first = "byId" => o \in {"update", "legacy"}
  BY DEF Flow, Ops, KeysOf, GetFlow, ListFlow, SyncFlow, ResolveFlow, LegacyFlow, CreateFlow, ChangeFlow,
         UpdateFlow, DeleteFlow, RegisterFlow, SaveFlow, LoadFlow, CloneFlow
<1>7. ~Active(r) /\ \A q \in Reqs \ {r} : Active(q)' = Active(q) /\ TouchedBy(q)' = TouchedBy(q)
  BY <1>5 DEF Active, TouchedBy
<1>8. ASSUME NEW j \in Keys \ disturbed' PROVE KeyOK(j)'
  <2>1. KeyOK(j)
    BY <1>5, <1>8 DEF CopiesInv
  <2>2. Sole(j)'
    BY <1>5, <2>1 DEF KeyOK, Sole
  <2>3. Alone(j)'
    <3>1. TouchedBy(r)' = Touched(o, k, i, r)
      BY <1>5 DEF TouchedBy
    <3>2. \A q \in Reqs \ {r} : Active(q) /\ j \in TouchedBy(q) /\ j \in TouchedBy(r)' =>
            ~Changes(o) /\ ~Changes(req[q].op)
      <4>1. j \notin Overlapping(o, k, i, r)
        BY <1>4, <1>8
      <4> QED BY <3>1, <4>1 DEF Overlapping
    <3>3. \A p, q \in Reqs \ {r} : p # q /\ Active(p) /\ Active(q) /\ j \in TouchedBy(p) /\ j \in TouchedBy(q) =>
            ~Changes(req[p].op)
      BY <2>1 DEF KeyOK, Alone
    <3>4. \A p, q \in Reqs : p # q /\ Active(p)' /\ Active(q)' /\ j \in TouchedBy(p)' /\ j \in TouchedBy(q)' =>
            ~Changes(req'[p].op)
      <4> SUFFICES ASSUME NEW p \in Reqs, NEW q \in Reqs, p # q, Active(p)', Active(q)',
                          j \in TouchedBy(p)', j \in TouchedBy(q)'
                   PROVE  ~Changes(req'[p].op)
        OBVIOUS
      <4>1. CASE p = r
        BY <1>5, <1>7, <3>2, <4>1
      <4>2. CASE q = r
        BY <1>5, <1>7, <3>2, <4>2
      <4>3. CASE p # r /\ q # r
        BY <1>5, <1>7, <3>3, <4>3
      <4> QED BY <4>1, <4>2, <4>3
    <3> QED BY <3>4 DEF Alone, Changes
  <2>4. EntryOK(j)'
    <3>1. \A q \in Reqs : (Refreshes(q, j) => Refreshes(q, j)') /\ (Saving(q, j) => Saving(q, j)')
      <4> TAKE q \in Reqs
      <4>1. CASE q = r
        BY <1>5, <4>1 DEF Refreshes, Saving
      <4>2. CASE q # r
        BY <1>5, <4>2 DEF Refreshes, Saving
      <4> QED BY <4>1, <4>2
    <3> QED BY <1>5, <2>1, <3>1 DEF KeyOK, EntryOK, Mirrors, Current
  <2> QED BY <2>2, <2>3, <2>4 DEF KeyOK
<1>9. ASSUME NEW q \in Reqs, q # r PROVE Views(q)'
  <2>1. Views(q) /\ req'[q] = req[q]
    BY <1>5, <1>9 DEF CopiesInv
  <2> QED BY <1>5, <2>1 DEF Views, Ahead, Heading, AfterCheck, Active, Current, None, Saving
<1>10. Views(r)'
  <2>1. o = "clone" /\ i \notin disturbed' => None(i)'
    BY <1>4, <1>5 DEF None, Stored
  <2>2. req'[r].id = i /\ req'[r].op = o /\ req'[r].at = Flow(o, k).first
    BY <1>5
  <2> QED BY <1>6, <2>1, <2>2 DEF Views, Ahead, Heading, AfterCheck, Saving
<1> QED BY <1>8, <1>9, <1>10 DEF CopiesInv

\* An entry nobody is about to refresh is the document.
LEMMA EntryCurrent ==
  ASSUME DocInv, PathInv, CopiesInv, NEW r \in Reqs, Active(r), NEW k \in TouchedBy(r) \ disturbed,
         k \notin Sessions, cache[k] # NoDoc, ~Refreshes(r, k)
  PROVE  Current(cache[k])
<1>1. k \in Keys /\ KeyOK(k)
  BY TouchedOwn DEF CopiesInv
<1>2. \A q \in Reqs : ~Refreshes(q, k)
  <2> SUFFICES ASSUME NEW q \in Reqs, Refreshes(q, k) PROVE FALSE
    OBVIOUS
  <2>1. q # r /\ k \in TouchedBy(q) /\ Changes(req[q].op) /\ Active(q)
    BY TouchedOwn
  <2> QED BY <1>1, <2>1 DEF KeyOK, Alone
<1> QED BY <1>1, <1>2 DEF KeyOK, EntryOK

LEMMA CacheGetCopies ==
  ASSUME DocInv, PathInv, CopiesInv, NEW r \in Reqs, CacheGet(r), NoFault, DocInv', PathInv'
  PROVE  CopiesInv'
<1>1. /\ req[r].at = "lookup" /\ mongo' = mongo /\ cache' = cache /\ disturbed' = disturbed
      /\ PathOK(r) /\ FlowOK(r) /\ req[r].key \in Keys
  BY CacheGetMoves, KnownPath, Known DEF NoFault
<1>2. Step(r) /\ ~Start(r) /\ Active(r)
  BY <1>1 DEF Step, Start, Active
<1>3. ~Inserted(r) /\ req[r].op \notin {"save", "clone", "update", "legacy", "list"}
  BY <1>1 DEF PathOK, FlowOK, Ahead, Heading, AfterCheck
<1>4. \A k : ~Refreshes(r, k) /\ ~Saving(r, k)
  BY <1>1 DEF Refreshes, Saving
<1>5. CASE Moved(r, "find")
  <2>1. Views(r)'
    BY <1>3, <1>5 DEF Views, Ahead, Heading, AfterCheck, Saving, Moved, Becomes
  <2> QED BY <1>1, <1>2, <1>4, <2>1, ReadCopies
<1>6. CASE /\ cache[req[r].key] # NoDoc
           /\ Becomes(r, AfterLookup(r, cache[req[r].key]), req[r].then,
                      IF req[r].op = "register" THEN req[r].id ELSE cache[req[r].key].id,
                      cache[req[r].key], req[r].todo)
  <2>1. PICK k, d, at : k = req[r].key /\ d = cache[k] /\ at = AfterLookup(r, d)
    OBVIOUS
  <2>2. /\ d # NoDoc
        /\ req'[r].op = req[r].op /\ req'[r].key = k /\ req'[r].at = at /\ req'[r].doc = d
        /\ req[r].op = "register" => req'[r].id = req[r].id
    BY <1>6, <2>1 DEF Becomes
  <2>3. /\ at \in {"done", "failed", "check", "byId", "insert"}
        /\ at = "insert" => req[r].op = "register"
        /\ at = "check" => req[r].op \in {"resolve", "change"}
        /\ at = "byId" => req[r].op \in {"delete", "register"}
    BY <1>1, <1>3, <2>1, <2>2, Leads
  <2>4. req[r].op \in {"change", "delete"} /\ k \notin disturbed' => Current(d)'
    <3> SUFFICES ASSUME req[r].op \in {"change", "delete"}, k \notin disturbed PROVE Current(d)'
      BY <1>1
    <3>1. k \in TouchedBy(r)
      BY <1>3, <2>1, TouchedOwn
    <3>2. k \notin Sessions
      BY <1>1, <2>1, Apart DEF FlowOK, KeysOf
    <3>3. Current(d)
      BY <1>2, <1>4, <2>1, <2>2, <3>1, <3>2, EntryCurrent
    <3> QED BY <1>1, <3>3 DEF Current
  <2>5. req[r].op = "register" => req[r].id # r
    BY <1>3 DEF Inserted, Inserters
  <2>6. Views(r)'
    BY <1>3, <2>2, <2>3, <2>4, <2>5 DEF Views, Ahead, Heading, AfterCheck, Saving
  <2> QED BY <1>1, <1>2, <1>4, <2>6, ReadCopies
<1> QED BY <1>5, <1>6, CacheGetMoves

LEMMA FindByKeyCopies ==
  ASSUME DocInv, PathInv, CopiesInv, NEW r \in Reqs, FindByKey(r), NoFault, DocInv', PathInv'
  PROVE  CopiesInv'
<1>1. /\ req[r].at = "find" /\ mongo' = mongo /\ cache' = cache /\ disturbed' = disturbed
      /\ PathOK(r) /\ FlowOK(r) /\ req[r].key \in Keys /\ Views(r)
  BY FindByKeyMoves, KnownPath, Known DEF NoFault, CopiesInv
<1>2. Step(r) /\ ~Start(r) /\ Active(r)
  BY <1>1 DEF Step, Start, Active
<1>3. ~Inserted(r) /\ req[r].op \notin {"update", "legacy", "list"}
  BY <1>1 DEF PathOK, Ahead, Heading, AfterCheck
<1>4. PICK d \in IF Stored(req[r].key) = {} THEN {NoDoc} ELSE Stored(req[r].key) :
        Becomes(r, IF req[r].key \in Sessions THEN AfterLookup(r, d) ELSE "fill", AfterLookup(r, d),
                IF d = NoDoc \/ req[r].op \in {"register", "clone"} THEN req[r].id ELSE d.id, d, req[r].todo)
  <2>1. ~Fault(r)
    <3>1. faults \in Nat
      BY DEF DocInv, TypeOK
    <3> QED BY <3>1 DEF Fault, NoFault
  <2> QED BY <2>1, FindByKeyMoves
<1>5. d # NoDoc => Current(d) /\ d.key = req[r].key
  <2> SUFFICES ASSUME d # NoDoc PROVE Current(d) /\ d.key = req[r].key
    OBVIOUS
  <2>1. PICK j \in Ids : mongo[j] # NoDoc /\ mongo[j].key = req[r].key /\ d = mongo[j]
    BY <1>4 DEF Stored
  <2> QED BY <2>1, KnownPath DEF Current
<1>6. d = NoDoc => None(req[r].key)
  <2> SUFFICES ASSUME d = NoDoc, NEW j \in Ids, mongo[j] # NoDoc, mongo[j].key = req[r].key PROVE FALSE
    BY DEF None
  <2>1. mongo[j] \in Stored(req[r].key)
    BY DEF Stored
  <2>2. d \in Stored(req[r].key)
    BY <1>4, <2>1
  <2> QED BY <2>2 DEF Stored
<1>7. PICK at, next :
        /\ next = AfterLookup(r, d) /\ at = (IF req[r].key \in Sessions THEN next ELSE "fill")
        /\ req'[r].op = req[r].op /\ req'[r].key = req[r].key /\ req'[r].at = at /\ req'[r].then = next
        /\ req'[r].doc = d
        /\ req[r].op \in {"register", "clone"} => req'[r].id = req[r].id
  BY <1>4 DEF Becomes
<1>8. /\ next \in {"done", "failed", "fetch", "insert", "write", "byId", "check"}
      /\ next = "fetch" => d = NoDoc
      /\ next = "insert" => (req[r].op = "save" /\ d = NoDoc) \/ req[r].op \in {"clone", "register"}
      /\ next = "check" => (req[r].op = "create" /\ d = NoDoc) \/ (req[r].op \in {"resolve", "change"} /\ d # NoDoc)
      /\ next = "write" => d # NoDoc
      /\ next = "byId" => d # NoDoc
      /\ req[r].op = "save" => next = IF d = NoDoc THEN "insert" ELSE "write"
  <2>1. req[r].op = "save" => next = IF d = NoDoc THEN "insert" ELSE "write"
    BY <1>7 DEF AfterLookup, Flow, SaveFlow
  <2> QED BY <1>1, <1>7, <2>1, Leads
<1>9. req[r].op = "register" => req[r].id # r
  BY <1>3 DEF Inserted, Inserters
<1>10. \A k : ~Refreshes(r, k) /\ (Saving(r, k) => Saving(r, k)')
  <2>1. req[r].op = "save" => req[r].key \in Sessions
    BY <1>1 DEF FlowOK, KeysOf
  <2> QED BY <1>1, <1>7, <1>8, <2>1 DEF Refreshes, Saving
<1>11. /\ d # NoDoc => Current(d)'
       /\ d = NoDoc => None(req[r].key)'
       /\ req[r].op = "clone" /\ req[r].id \notin disturbed' => None(req[r].id)'
  <2>1. d # NoDoc => Current(d)'
    BY <1>1, <1>5 DEF Current
  <2>2. \A k : None(k) <=> None(k)'
    BY <1>1 DEF None
  <2> QED BY <1>1, <1>2, <1>6, <1>7, <2>1, <2>2 DEF Views
<1>12. Saving(r, req[r].key)' /\ req[r].key \notin disturbed' /\ cache'[req[r].key] # NoDoc =>
         cache'[req[r].key].a = r /\ cache'[req[r].key].b = r
  BY <1>1, <1>7 DEF Views, Saving
<1>13. Views(r)'
  BY <1>7, <1>8, <1>9, <1>11, <1>12 DEF Views, Ahead, Heading, AfterCheck, Saving
<1> QED BY <1>1, <1>2, <1>10, <1>13, ReadCopies

LEMMA FindByIdCopies ==
  ASSUME DocInv, PathInv, CopiesInv, NEW r \in Reqs, FindById(r), NoFault, DocInv', PathInv'
  PROVE  CopiesInv'
<1>1. /\ req[r].at = "byId" /\ mongo' = mongo /\ cache' = cache /\ disturbed' = disturbed
      /\ PathOK(r) /\ FlowOK(r) /\ req[r].id \in Ids /\ Views(r)
  BY FindByIdMoves, KnownPath, Known DEF NoFault, CopiesInv
<1>2. Step(r) /\ ~Start(r) /\ req[r].op \in {"update", "legacy", "delete", "register"}
  BY <1>1, ById DEF Step, Start
<1>3. PICK d, next, at :
        /\ d = mongo[req[r].id] /\ next = AfterById(r, d) /\ (at = next \/ (at = "fill" /\ req'[r].then = next))
        /\ req'[r].op = req[r].op /\ req'[r].key = req[r].key /\ req'[r].at = at /\ req'[r].doc = d
        /\ req'[r].id = req[r].id
  <2>1. ~Fault(r)
    <3>1. faults \in Nat
      BY DEF DocInv, TypeOK
    <3> QED BY <3>1 DEF Fault, NoFault
  <2> QED BY <2>1, FindByIdMoves DEF Becomes
<1>4. /\ next \in {"remove", "failed", "insert", "write", "check"}
      /\ next = "check" => req[r].op = "legacy"
      /\ next = "insert" => req[r].op = "register" /\ req[r].id # r
      /\ next = "write" => d # NoDoc
      /\ next = "remove" => req[r].op = "delete"
  BY <1>2, <1>3 DEF AfterById
<1>5. d # NoDoc => Current(d)'
  BY <1>1, <1>3, KnownPath DEF Current
<1>6. req[r].op = "delete" /\ req[r].key \notin disturbed => d # NoDoc
  <2> SUFFICES ASSUME req[r].op = "delete", req[r].key \notin disturbed PROVE d # NoDoc
    OBVIOUS
  <2>1. req[r].doc # NoDoc /\ req[r].doc.id = req[r].id /\ Current(req[r].doc)
    BY <1>1 DEF Views, PathOK, Ahead, Heading, AfterCheck
  <2> QED BY <1>3, <2>1 DEF Current
<1>7. \A k : ~Refreshes(r, k) /\ ~Saving(r, k)
  BY <1>1 DEF Refreshes, Saving
<1>8. Views(r)'
  BY <1>1, <1>2, <1>3, <1>4, <1>5, <1>6 DEF Views, Ahead, Heading, AfterCheck, Saving
<1> QED BY <1>1, <1>2, <1>7, <1>8, ReadCopies

LEMMA FetchCopies ==
  ASSUME DocInv, PathInv, CopiesInv, NEW r \in Reqs, Fetch(r), DocInv', PathInv'
  PROVE  CopiesInv'
<1>1. /\ req[r].at = "fetch" /\ mongo' = mongo /\ cache' = cache /\ NoFault /\ disturbed' = disturbed
      /\ req[r].op \in {"sync", "resolve"} /\ Views(r)
  BY Known DEF Fetch, NoFault, CopiesInv, FlowOK, Ahead
<1>2. Step(r) /\ ~Start(r)
  BY <1>1 DEF Step, Start
<1>3. PICK at \in {"insert", "failed"} : Moved(r, at)
  BY GoesMoved DEF Fetch
<1>4. \A k : ~Refreshes(r, k) /\ ~Saving(r, k)
  BY <1>1 DEF Refreshes, Saving
<1>5. Views(r)'
  <2>1. req[r].key \notin disturbed => None(req[r].key)
    BY <1>1 DEF Views, Ahead, Heading, AfterCheck
  <2>2. req'[r].key = req[r].key /\ req'[r].op = req[r].op /\ req'[r].at = at
    BY <1>3 DEF Moved, Becomes
  <2>3. None(req[r].key) => None(req[r].key)'
    BY <1>1, <2>2 DEF None
  <2> QED BY <1>1, <2>1, <2>2, <2>3 DEF Views, Ahead, Heading, AfterCheck, Saving
<1> QED BY <1>1, <1>2, <1>4, <1>5, ReadCopies

LEMMA ListAllCopies ==
  ASSUME DocInv, PathInv, CopiesInv, NEW r \in Reqs, ListAll(r), NoFault, DocInv', PathInv'
  PROVE  CopiesInv'
<1>1. req[r].at = "list" /\ mongo' = mongo /\ cache' = cache /\ req[r].op = "list"
  BY ListAllMoves, Known DEF FlowOK
<1>2. Step(r) /\ ~Start(r)
  BY <1>1 DEF Step, Start
<1>3. PICK todo : todo = UNION {Stored(k) : k \in Collection(req[r].key)}
  OBVIOUS
<1>4. req'[r].op = "list" /\ (req'[r].at = "each" => req'[r].todo = todo) /\ req'[r].at \in {"each", "done"}
  BY <1>1, <1>3, ListAllMoves DEF Moved, Becomes
<1>5. \A d \in todo : mongo'[d.id] = d
  <2> TAKE d \in todo
  <2>1. PICK j \in Ids : mongo[j] # NoDoc /\ d = mongo[j]
    BY <1>3 DEF Stored
  <2> QED BY <1>1, <2>1, KnownPath
<1>6. \A k : ~Refreshes(r, k) /\ ~Saving(r, k)
  BY <1>1 DEF Refreshes, Saving
<1>7. Views(r)'
  BY <1>4, <1>5 DEF Views, Ahead, Heading, AfterCheck, Saving, Current
<1> QED BY <1>1, <1>2, <1>6, <1>7, ReadCopies

\* Steps that set or delete one entry, of key c.
LEMMA EntryCopies ==
  ASSUME DocInv, PathInv, CopiesInv, DocInv', PathInv', NEW r \in Reqs, Step(r), ~Start(r), NoFault,
         mongo' = mongo, NEW c \in TouchedBy(r), \A k \in Keys \ {c} : cache'[k] = cache[k],
         c \notin disturbed => EntryOK(c)', Views(r)',
         \A k \in Keys \ {c} : (Refreshes(r, k) => Refreshes(r, k)') /\ (Saving(r, k) => Saving(r, k)')
  PROVE  CopiesInv'
<1>1. /\ Active(r) /\ req'[r].op = req[r].op
      /\ \A q \in Reqs \ {r} : req'[q] = req[q]
      /\ Active(r)' => TouchedBy(r)' \subseteq TouchedBy(r)
      /\ disturbed' = disturbed
  BY StepCommon DEF NoFault
<1>2. Confined(r)
  BY <1>1 DEF Confined
<1>3. ASSUME NEW k \in TouchedBy(r) \ disturbed' PROVE Sole(k)' /\ EntryOK(k)'
  <2>1. Sole(k) /\ EntryOK(k) /\ k \in Keys
    BY <1>1, <1>3, TouchedOwn DEF CopiesInv, KeyOK
  <2>2. Sole(k)'
    BY <2>1 DEF Sole
  <2>3. CASE k = c
    BY <1>1, <1>3, <2>2, <2>3
  <2>4. CASE k # c
    <3>1. \A q \in Reqs : (Refreshes(q, k) => Refreshes(q, k)') /\ (Saving(q, k) => Saving(q, k)')
      <4> TAKE q \in Reqs
      <4>1. CASE q = r
        BY <2>1, <2>4, <4>1
      <4>2. CASE q # r
        BY <1>1, <4>2 DEF Refreshes, Saving
      <4> QED BY <4>1, <4>2
    <3>2. cache'[k] = cache[k]
      BY <2>1, <2>4
    <3> QED BY <2>1, <2>2, <3>1, <3>2 DEF EntryOK, Mirrors, Current
  <2> QED BY <2>3, <2>4
<1> QED BY <1>1, <1>2, <1>3, CopiesStep

LEMMA FaultOrNot == ASSUME DocInv, NEW r \in Reqs PROVE ~(Fault(r) /\ NoFault)
<1>1. faults \in Nat
  BY DEF DocInv, TypeOK
<1> QED BY <1>1 DEF Fault, NoFault

\* The agents, metadata and registered agents are no sessions.
LEMMA NoSessionTouched ==
  ASSUME DocInv, PathInv, NEW r \in Reqs, req[r].op \notin {"save", "load", "clone"}, NEW k \in TouchedBy(r)
  PROVE  k \notin Sessions
<1>1. PathOK(r) /\ FlowOK(r) /\ req[r].op \in Ops
  BY KnownPath, Known
<1>2. req[r].op # "list" => req[r].key \in Agents \cup Types \cup Reqs
  BY <1>1 DEF FlowOK, KeysOf, Ops
<1>3. k \in Agents \cup Types \cup Reqs
  BY <1>1, <1>2, Apart DEF TouchedBy, Touched, Collection, PathOK
<1> QED BY <1>3, Apart

LEMMA FillCopies ==
  ASSUME DocInv, PathInv, CopiesInv, NEW r \in Reqs, Fill(r), NoFault, DocInv', PathInv'
  PROVE  CopiesInv'
<1>1. /\ req[r].at = "fill" /\ mongo' = mongo /\ Moved(r, req[r].then) /\ disturbed' = disturbed
      /\ cache' = [cache EXCEPT ![FillKey(r)] = req[r].doc]
      /\ PathOK(r) /\ FlowOK(r) /\ Views(r) /\ cache \in [Keys -> Docs \cup {NoDoc}]
  BY KnownPath, Known, GoesMoved, FaultOrNot DEF Fill, NoFault, CopiesInv
<1>2. Step(r) /\ ~Start(r)
  BY <1>1 DEF Step, Start
<1>3. req[r].op \notin {"save", "load", "clone", "list"}
  BY <1>1 DEF PathOK
<1>4. PICK c, d : c = FillKey(r) /\ d = req[r].doc
  OBVIOUS
<1>5. c \in TouchedBy(r) /\ c \in Keys /\ (d # NoDoc => d.key = c)
  BY <1>1, <1>3, <1>4, TouchedOwn DEF FillKey, PathOK
<1>6. cache' = [cache EXCEPT ![c] = d]
  BY <1>1, <1>4
<1>7. (\A k \in Keys \ {c} : cache'[k] = cache[k]) /\ cache'[c] = d
  BY <1>1, <1>5, <1>6
<1>8. c \notin disturbed => EntryOK(c)'
  <2>1. c \notin disturbed /\ d # NoDoc => Current(d)
    BY <1>1, <1>4, <1>5 DEF Views
  <2>2. c \notin Sessions
    BY <1>3, <1>5, NoSessionTouched
  <2>3. Current(d) => mongo'[d.id] = d
    BY <1>1 DEF Current
  <2>4. c \notin disturbed /\ cache'[c] # NoDoc => Current(cache[c])'
    BY <1>7, <2>1, <2>3 DEF Current
  <2> QED BY <2>2, <2>4 DEF EntryOK
<1>9. \A k \in Keys \ {c} : ~Refreshes(r, k) /\ ~Saving(r, k)
  BY <1>3, <1>4, <1>5 DEF Refreshes, Saving
<1>10. Views(r)'
  <2>1. /\ req'[r].at = req[r].then /\ req'[r].op = req[r].op /\ req'[r].key = req[r].key
        /\ req'[r].id = req[r].id /\ req'[r].doc = req[r].doc
    BY <1>1 DEF Moved, Becomes
  <2>2. req[r].then \in {"done", "failed", "fetch", "insert", "write", "byId", "remove", "check"}
    BY <1>1 DEF FlowOK
  <2>3. \A p : (Ahead(r, p)' => Ahead(r, p)) /\ (Heading(r, p)' => Heading(r, p))
    BY <1>1, <2>1, <2>2 DEF Ahead, Heading, AfterCheck
  <2>4. \A k : None(k) => None(k)'
    BY <1>1 DEF None
  <2>5. \A e : Current(e) => mongo'[e.id] = e
    BY <1>1 DEF Current
  <2>6. Current(req[r].doc) => Current(req[r].doc)'
    BY <2>1, <2>5 DEF Current
  <2>7. (Ahead(r, "fetch") \/ Heading(r, "insert"))' /\ req'[r].op \in {"sync", "resolve", "create", "save"}
           /\ req'[r].key \notin disturbed' => None(req[r].key)'
    BY <1>1, <2>1, <2>3, <2>4 DEF Views
  <2>8. Heading(r, "write")' /\ req'[r].op # "register" /\ req'[r].key \notin disturbed' => Current(req[r].doc)'
    BY <1>1, <2>1, <2>3, <2>6 DEF Views
  <2>9. (Ahead(r, "write") \/ Ahead(r, "byId"))' /\ req'[r].op = "register" /\ req'[r].id = r
          /\ r \notin disturbed' => Current(req[r].doc)'
    BY <1>1, <2>1, <2>3, <2>6 DEF Views
  <2>10. (Ahead(r, "byId") \/ Ahead(r, "remove"))' /\ req'[r].op = "delete"
           /\ req'[r].key \notin disturbed' => req'[r].doc # NoDoc /\ Current(req[r].doc)'
    BY <1>1, <2>1, <2>3, <2>6 DEF Views
  <2> QED BY <1>3, <2>1, <2>2, <2>7, <2>8, <2>9, <2>10 DEF Views, Saving
<1> QED BY <1>1, <1>2, <1>5, <1>7, <1>8, <1>9, <1>10, EntryCopies

LEMMA DropCopies ==
  ASSUME DocInv, PathInv, CopiesInv, NEW r \in Reqs, Drop(r), NoFault, DocInv', PathInv'
  PROVE  CopiesInv'
<1>1. /\ req[r].at = "drop" /\ mongo' = mongo /\ Moved(r, "done")
      /\ cache' = [cache EXCEPT ![req[r].doc.key] = NoDoc]
      /\ PathOK(r) /\ cache \in [Keys -> Docs \cup {NoDoc}]
  BY KnownPath, Known, GoesMoved, FaultOrNot DEF Drop
<1>2. Step(r) /\ ~Start(r)
  BY <1>1 DEF Step, Start
<1>3. PICK c : c = req[r].key /\ c = req[r].doc.key /\ req[r].op = "delete"
  BY <1>1 DEF PathOK
<1>4. c \in TouchedBy(r) /\ c \in Keys
  BY <1>3, TouchedOwn
<1>5. (\A k \in Keys \ {c} : cache'[k] = cache[k]) /\ cache'[c] = NoDoc
  BY <1>1, <1>3, <1>4
<1>6. \A k \in Keys \ {c} : ~Refreshes(r, k) /\ ~Saving(r, k)
  BY <1>3 DEF Refreshes, Saving
<1>7. EntryOK(c)'
  BY <1>5 DEF EntryOK
<1>8. Views(r)'
  BY <1>1, <1>3 DEF Views, Ahead, Heading, AfterCheck, Saving, Moved, Becomes
<1> QED BY <1>1, <1>2, <1>4, <1>5, <1>6, <1>7, <1>8, EntryCopies

LEMMA EnvelopeCopies ==
  ASSUME DocInv, PathInv, CopiesInv, NEW r \in Reqs, Envelope(r), NoFault, DocInv', PathInv'
  PROVE  CopiesInv'
<1>1. /\ req[r].at = "envelope" /\ mongo' = mongo /\ Moved(r, "find") /\ req[r].op = "save"
      /\ cache' = [cache EXCEPT ![req[r].key] = [Seed(req[r].key) EXCEPT !.a = r, !.b = r, !.tools = r]]
      /\ req[r].key \in Sessions /\ cache \in [Keys -> Docs \cup {NoDoc}]
  BY Known, GoesMoved, FaultOrNot DEF Envelope, FlowOK, KeysOf
<1>2. Step(r) /\ ~Start(r)
  BY <1>1 DEF Step, Start
<1>3. PICK c : c = req[r].key
  OBVIOUS
<1>4. c \in TouchedBy(r) /\ c \in Keys
  BY <1>1, <1>3, TouchedOwn
<1>5. (\A k \in Keys \ {c} : cache'[k] = cache[k]) /\ cache'[c].a = r /\ cache'[c].b = r
  BY <1>1, <1>3, <1>4 DEF Seed
<1>6. \A k : ~Refreshes(r, k) /\ ~Saving(r, k)
  BY <1>1 DEF Refreshes, Saving
<1>7. req'[r].op = "save" /\ req'[r].key = c /\ req'[r].at = "find"
  BY <1>1, <1>3 DEF Moved, Becomes
<1>8. EntryOK(c)'
  <2>1. Saving(r, c)'
    BY <1>7 DEF Saving
  <2> QED BY <1>1, <1>3, <2>1 DEF EntryOK
<1>9. Views(r)'
  BY <1>5, <1>7 DEF Views, Ahead, Heading, AfterCheck, Saving
<1> QED BY <1>1, <1>2, <1>4, <1>5, <1>6, <1>8, <1>9, EntryCopies

LEMMA CheckCopies ==
  ASSUME DocInv, PathInv, CopiesInv, NEW r \in Reqs, Check(r), NoFault, DocInv', PathInv'
  PROVE  CopiesInv'
<1>1. /\ req[r].at = "check" /\ mongo' = mongo /\ cache' = cache /\ disturbed' = disturbed
      /\ req[r].op \in Checked /\ Views(r)
  BY CheckMoves, Known DEF FlowOK, Ahead, NoFault, CopiesInv
<1>2. Step(r) /\ ~Start(r)
  BY <1>1 DEF Step, Start
<1>3. \A k : ~Refreshes(r, k) /\ ~Saving(r, k)
  BY <1>1 DEF Refreshes, Saving
<1>4. PICK at \in {AfterCheck(r), "failed", "each"} :
        /\ req'[r].op = req[r].op /\ req'[r].key = req[r].key /\ req'[r].at = at /\ req'[r].doc = req[r].doc
        /\ at = "each" => \E d \in Needed(r) : req'[r].todo = {d}
  BY CheckMoves, FaultOrNot DEF Moved, Becomes, AfterCheck
<1>5. at = "each" => \A d \in req'[r].todo : mongo'[d.id] = d
  BY <1>1, <1>4, NeededGood DEF Current
<1>6. /\ req[r].op = "create" /\ req[r].key \notin disturbed => None(req[r].key)
      /\ req[r].op = "change" /\ req[r].key \notin disturbed => Current(req[r].doc)
  BY <1>1 DEF Views, Ahead, Heading, AfterCheck
<1>7. Views(r)'
  BY <1>1, <1>4, <1>5, <1>6
     DEF Views, Ahead, Heading, AfterCheck, Checked, Saving, None, Current
<1> QED BY <1>1, <1>2, <1>3, <1>7, ReadCopies

LEMMA CacheEachCopies ==
  ASSUME DocInv, PathInv, CopiesInv, NEW r \in Reqs, CacheEach(r), NoFault, DocInv', PathInv'
  PROVE  CopiesInv'
<1>1. /\ req[r].at = "each" /\ mongo' = mongo /\ disturbed' = disturbed /\ req[r].op \in Checked \cup {"list"}
      /\ \A d \in req[r].todo : d.key \in TouchedBy(r)
      /\ Views(r) /\ cache \in [Keys -> Docs \cup {NoDoc}]
  BY CacheEachMoves, KnownPath, Known DEF PathOK, FlowOK, NoFault, CopiesInv
<1>2. Step(r) /\ ~Start(r)
  BY <1>1 DEF Step, Start
<1>3. \A k : ~Refreshes(r, k) /\ ~Saving(r, k)
  BY <1>1 DEF Refreshes, Saving
<1>4. CASE cache' = cache /\ Moved(r, AfterCheck(r))
  <2>0. /\ \A k : None(k) => None(k)'
        /\ \A d : Current(d) => Current(d)'
    BY <1>1 DEF None, Current
  <2>1. Views(r)'
    BY <1>1, <1>4, <2>0 DEF Checked, None, Current, Views, Ahead, Heading, AfterCheck, Saving, Moved, Becomes
  <2> QED BY <1>1, <1>2, <1>3, <1>4, <2>1, ReadCopies
<1>5. ASSUME NEW d \in req[r].todo, cache' = [cache EXCEPT ![d.key] = d],
             Becomes(r, "each", req[r].then, req[r].id, req[r].doc, req[r].todo \ {d})
      PROVE  CopiesInv'
  <2>1. PICK c : c = d.key
    OBVIOUS
  <2>2. c \in TouchedBy(r) /\ c \in Keys
    BY <1>1, <2>1, TouchedOwn
  <2>3. (\A k \in Keys \ {c} : cache'[k] = cache[k]) /\ cache'[c] = d
    BY <1>1, <1>5, <2>1, <2>2
  <2>4. c \notin Sessions
    BY <1>1, <2>2, NoSessionTouched DEF Checked
  <2>5. \A e \in req[r].todo : e.key \notin disturbed' => mongo'[e.id] = e
    BY <1>1 DEF Views, Current
  <2>6. c \notin disturbed => Current(cache[c])'
    BY <1>1, <2>1, <2>3, <2>5 DEF Current
  <2>7. c \notin disturbed => EntryOK(c)'
    BY <2>4, <2>6 DEF EntryOK
  <2>8. Views(r)'
    <3>1. /\ \A k : None(k) => None(k)'
          /\ \A e : Current(e) => Current(e)'
      BY <1>1 DEF None, Current
    <3>2. /\ req'[r].at = "each" /\ req'[r].op = req[r].op /\ req'[r].key = req[r].key
          /\ req'[r].id = req[r].id /\ req'[r].doc = req[r].doc /\ req'[r].todo = req[r].todo \ {d}
      BY <1>5 DEF Becomes
    <3>3. \A e \in req'[r].todo : e.key \notin disturbed' => Current(e)'
      BY <2>5, <3>2 DEF Current
    <3>4. /\ req[r].op = "create" /\ req[r].key \notin disturbed => None(req[r].key)
          /\ req[r].op = "change" /\ req[r].key \notin disturbed => Current(req[r].doc)
      BY <1>1 DEF Views, Heading, AfterCheck
    <3> QED BY <1>1, <3>1, <3>2, <3>3, <3>4 DEF Views, Ahead, Heading, AfterCheck, Saving, Checked
  <2> QED BY <1>1, <1>2, <1>3, <2>2, <2>3, <2>7, <2>8, EntryCopies
<1> QED BY <1>4, <1>5, CacheEachMoves, FaultOrNot

LEMMA ExpireCopies ==
  ASSUME DocInv, PathInv, CopiesInv, NEW k \in Keys, Expire(k)
  PROVE  CopiesInv'
<1>1. /\ mongo' = mongo /\ req' = req /\ disturbed' = disturbed
      /\ \A c \in Keys : cache'[c] = IF c = k THEN NoDoc ELSE cache[c]
  BY DEF Expire, DocInv, TypeOK
<1>2. ASSUME NEW c \in Keys \ disturbed' PROVE KeyOK(c)'
  <2>1. KeyOK(c)
    BY <1>1, <1>2 DEF CopiesInv
  <2>2. Sole(c)' /\ Alone(c)'
    BY <1>1, <2>1 DEF KeyOK, Sole, Alone, Active, TouchedBy
  <2>3. EntryOK(c)'
    BY <1>1, <2>1 DEF KeyOK, EntryOK, Mirrors, Current, Refreshes, Saving
  <2> QED BY <2>2, <2>3 DEF KeyOK
<1>3. ASSUME NEW q \in Reqs PROVE Views(q)'
  <2>1. Views(q) /\ req[q].key \in Keys
    BY Known DEF CopiesInv
  <2> QED BY <1>1, <2>1 DEF Views, Ahead, Heading, AfterCheck, Active, Current, None, Saving
<1> QED BY <1>2, <1>3 DEF CopiesInv

\* Steps that change one document, known by key h.
LEMMA StoreCopies ==
  ASSUME DocInv, PathInv, CopiesInv, DocInv', PathInv', NEW r \in Reqs, Step(r), ~Start(r), NoFault,
         cache' = cache, Confined(r), NEW h, h \in Keys \ disturbed => Sole(h)' /\ EntryOK(h)', Views(r)',
         \A k \in Keys \ {h} : /\ Same(k)
                               /\ Refreshes(r, k) => Refreshes(r, k)'
                               /\ Saving(r, k) => Saving(r, k)'
  PROVE  CopiesInv'
<1>1. /\ Active(r) /\ req'[r].op = req[r].op
      /\ \A q \in Reqs \ {r} : req'[q] = req[q]
      /\ Active(r)' => TouchedBy(r)' \subseteq TouchedBy(r)
      /\ disturbed' = disturbed
  BY StepCommon DEF NoFault
<1>2. ASSUME NEW k \in TouchedBy(r) \ disturbed' PROVE Sole(k)' /\ EntryOK(k)'
  <2>1. k \in Keys /\ Sole(k) /\ EntryOK(k)
    BY <1>1, <1>2, TouchedOwn DEF CopiesInv, KeyOK
  <2>2. CASE k = h
    BY <1>1, <1>2, <2>1, <2>2
  <2>3. CASE k # h
    <3>1. \A q \in Reqs : (Refreshes(q, k) => Refreshes(q, k)') /\ (Saving(q, k) => Saving(q, k)')
      <4> TAKE q \in Reqs
      <4>1. CASE q = r
        BY <2>1, <2>3, <4>1
      <4>2. CASE q # r
        BY <1>1, <4>2 DEF Refreshes, Saving
      <4> QED BY <4>1, <4>2
    <3>2. Same(k) /\ cache'[k] = cache[k]
      BY <2>1, <2>3
    <3> QED BY <2>1, <3>1, <3>2, SameEntry
  <2> QED BY <2>2, <2>3
<1> QED BY <1>1, <1>2, CopiesStep

\* The agent_id of a registered agent is its own.
LEMMA OwnKey ==
  ASSUME DocInv, NEW i, NEW k \in Reqs, KeyFits(i, k)
  PROVE  i = k /\ Inserted(k)
<1>1. i \in Reqs /\ Inserted(i)
  BY Apart DEF KeyFits
<1>2. req[i].key \in KeysOf[req[i].op] /\ req[i].op \in Inserters
  BY <1>1, Known DEF FlowOK, Inserted
<1>3. req[i].op \in {"sync", "resolve", "create", "save"} => req[i].key \notin Reqs
  BY <1>2, Apart DEF KeysOf
<1> QED BY <1>1, <1>2, <1>3, Apart DEF KeyFits, Inserters

LEMMA InsertCopies ==
  ASSUME DocInv, PathInv, CopiesInv, NEW r \in Reqs, Insert(r), NoFault, DocInv', PathInv'
  PROVE  CopiesInv'
<1>1. /\ req[r].at = "insert" /\ cache' = cache /\ disturbed' = disturbed /\ Views(r)
      /\ mongo \in [Ids -> Docs \cup {NoDoc}]
  BY InsertMoves, Known DEF NoFault, CopiesInv
<1>2. Step(r) /\ ~Start(r) /\ Active(r) /\ r \in Ids
  BY <1>1 DEF Step, Start, Active, Ids
<1>3. PICK d : d = NewDoc(r)
  OBVIOUS
<1>4. /\ d \in Docs /\ d.id = r /\ ~Inserted(r) /\ mongo[r] = NoDoc
      /\ req[r].op \in Inserters
      /\ req[r].op \in {"sync", "resolve", "create", "save"} => d.key = req[r].key
      /\ req[r].op = "clone" => d.key = req[r].id /\ req[r].id \in Sessions
      /\ req[r].op = "register" => d.key = NoKey
  BY <1>1, <1>3, NewDocFits
<1>5. PICK at :
        /\ req'[r].at = at /\ req'[r].then \in {"done", "check"} /\ req'[r].doc = d /\ req'[r].id = r
        /\ req'[r].op = req[r].op /\ req'[r].key = req[r].key
        /\ req[r].op \in {"save", "clone"} => at = "done"
        /\ req[r].op = "register" => at \in {"byId", "write"}
        /\ req[r].op \notin {"save", "clone", "register"} => at = "fill"
        /\ req'[r].then = "check" => req[r].op = "resolve"
  BY <1>3, InsertMoves, FaultOrNot DEF Becomes
<1>6. mongo' = [mongo EXCEPT ![r] = d]
  BY <1>3, InsertMoves, FaultOrNot
<1>7. mongo'[r] = d /\ \A i \in Ids \ {r} : mongo'[i] = mongo[i]
  BY <1>1, <1>2, <1>6
<1>8. PICK h : h = Home(d)
  OBVIOUS
<1>9. h \in TouchedBy(r) /\ h \in Keys
  <2>1. req[r].op \in {"sync", "resolve", "create", "save"} => h = req[r].key
    BY <1>4, <1>8, Known, Apart DEF Home
  <2>2. req[r].op = "clone" => h = req[r].id
    BY <1>4, <1>8, Apart DEF Home, Keys, Named
  <2>3. req[r].op = "register" => h = r
    BY <1>4, <1>8 DEF Home
  <2> QED BY <1>4, <2>1, <2>2, <2>3, TouchedOwn DEF Inserters
<1>10. d # NoDoc
  BY <1>4
<1>11. Confined(r)
  BY <1>1, <1>4, <1>7, <1>8, <1>9 DEF Confined, Inserters, Changes
<1>12. \A k \in Keys \ {h} : Same(k) /\ ~Refreshes(r, k) /\ ~Saving(r, k)
  <2> TAKE k \in Keys \ {h}
  <2>1. Same(k)
    BY <1>4, <1>7, <1>8, <1>10 DEF Same
  <2>2. Saving(r, k) => h = k
    BY <1>4, <1>8, Known, Apart DEF Saving, Home
  <2> QED BY <1>1, <2>1, <2>2 DEF Refreshes
<1>13. h \notin disturbed => None(h)
  <2> SUFFICES ASSUME h \notin disturbed PROVE None(h)
    OBVIOUS
  <2>1. CASE req[r].op \in {"sync", "resolve", "create", "save"}
    <3>1. h = req[r].key
      BY <1>4, <1>8, <2>1, Known, Apart DEF Home
    <3> QED BY <1>1, <2>1, <3>1 DEF Views, Ahead, Heading, AfterCheck
  <2>2. CASE req[r].op = "clone"
    <3>1. h = req[r].id
      BY <1>4, <1>8, <2>2, Apart DEF Home, Keys, Named
    <3> QED BY <1>1, <1>2, <2>2, <3>1 DEF Views
  <2>3. CASE req[r].op = "register"
    <3>1. h = r
      BY <1>4, <1>8, <2>3 DEF Home
    <3> SUFFICES ASSUME NEW i \in Ids, mongo[i] # NoDoc, mongo[i].key = r PROVE FALSE
      BY <3>1 DEF None
    <3>2. KeyFits(i, r)
      BY DEF PathInv, FitsOK, Fits
    <3> QED BY <1>4, <3>2, OwnKey
  <2> QED BY <1>4, <2>1, <2>2, <2>3 DEF Inserters
<1>14. ASSUME h \notin disturbed PROVE Sole(h)'
  BY <1>7, <1>13, <1>14 DEF None, Sole
<1>15. ASSUME h \notin disturbed PROVE EntryOK(h)'
  <2> SUFFICES ASSUME cache[h] # NoDoc PROVE EntryOK(h)'
    BY <1>1 DEF EntryOK
  <2>1. cache[h].key = h /\ Fits(cache[h]) /\ cache[h] \in Docs
    BY <1>9, KnownPath, Known DEF PathInv, FitsOK
  <2>2. CASE req[r].op \in {"sync", "resolve", "create"}
    <3>1. h \notin Sessions
      BY <1>9, <2>2, NoSessionTouched
    <3>2. ~Refreshes(r, h)
      BY <1>1 DEF Refreshes
    <3>3. Current(cache[h])
      BY <1>2, <1>9, <1>15, <3>1, <3>2, EntryCurrent
    <3>4. mongo[cache[h].id] = cache[h] /\ cache[h].id \in Ids
      BY <2>1, <3>3 DEF Current, Docs
    <3> QED BY <1>13, <1>15, <2>1, <3>4 DEF None
  <2>3. CASE req[r].op = "register"
    <3>1. h = r
      BY <1>4, <1>8, <2>3 DEF Home
    <3>2. KeyFits(cache[h].id, r)
      BY <2>1, <3>1 DEF Fits
    <3> QED BY <1>4, <3>2, OwnKey
  <2>4. CASE req[r].op = "clone"
    <3>1. h = req[r].id /\ h \in Sessions
      BY <1>4, <1>8, <2>4, Apart DEF Home, Keys, Named
    <3>2. EntryOK(h) /\ Alone(h)
      BY <1>9, <1>15 DEF CopiesInv, KeyOK
    <3>3. PICK q \in Reqs : Saving(q, h)
      BY <1>13, <1>15, <3>1, <3>2 DEF EntryOK, None
    <3>4. q # r
      BY <2>4, <3>3 DEF Saving
    <3>5. h \in TouchedBy(q) /\ Changes(req[q].op) /\ Active(q)
      BY <3>3, TouchedOwn
    <3> QED BY <1>2, <1>9, <3>2, <3>4, <3>5 DEF Alone
  <2>5. CASE req[r].op = "save"
    <3>1. h = req[r].key /\ d.key = h /\ h \in Sessions
      BY <1>4, <1>8, <2>5, Known, Apart DEF Home, FlowOK, KeysOf
    <3>2. cache[h].a = r /\ cache[h].b = r
      BY <1>1, <1>15, <2>5, <3>1 DEF Views, Saving
    <3>3. d.a = r /\ d.b = r
      BY <1>3, <2>5 DEF NewDoc, SavedSession
    <3>4. mongo'[r] # NoDoc /\ mongo'[r].key = h /\ mongo'[r].a = cache'[h].a /\ mongo'[r].b = cache'[h].b
      BY <1>1, <1>7, <1>10, <3>1, <3>2, <3>3
    <3> QED BY <1>2, <3>1, <3>4 DEF EntryOK, Mirrors
  <2> QED BY <1>4, <2>2, <2>3, <2>4, <2>5 DEF Inserters
<1>16. Views(r)'
  <2>1. mongo'[d.id] = d
    BY <1>4, <1>7
  <2> QED BY <1>4, <1>5, <2>1 DEF Views, Ahead, Heading, AfterCheck, Saving, Active, Current, Inserters
<1> QED BY <1>1, <1>2, <1>11, <1>12, <1>14, <1>15, <1>16, StoreCopies

LEMMA RemoveCopies ==
  ASSUME DocInv, PathInv, CopiesInv, NEW r \in Reqs, Remove(r), NoFault, DocInv', PathInv'
  PROVE  CopiesInv'
<1>1. /\ req[r].at = "remove" /\ cache' = cache /\ disturbed' = disturbed /\ Views(r)
      /\ mongo \in [Ids -> Docs \cup {NoDoc}] /\ req[r].id \in Ids /\ PathOK(r) /\ FlowOK(r)
  BY RemoveMoves, KnownPath, Known DEF NoFault, CopiesInv
<1>2. Step(r) /\ ~Start(r)
  BY <1>1 DEF Step, Start
<1>3. PICK h, i : h = req[r].key /\ i = req[r].id /\ i \in Ids
  BY <1>1
<1>4. /\ req[r].op = "delete" /\ KeyFits(i, h) /\ h \in Agents \cup Reqs /\ h \in Keys /\ h \in TouchedBy(r)
      /\ req[r].doc # NoDoc => req[r].doc.id = i /\ req[r].doc.key = h
  BY <1>1, <1>3, Known, TouchedOwn DEF PathOK, FlowOK, KeysOf, Ahead, Heading, AfterCheck
<1>5. /\ req'[r].op = "delete" /\ req'[r].key = h /\ req'[r].doc = req[r].doc
      /\ req'[r].at = IF req[r].doc = NoDoc THEN "done" ELSE "drop"
      /\ mongo' = [mongo EXCEPT ![i] = NoDoc]
  BY <1>3, <1>4, RemoveMoves, FaultOrNot DEF Moved, Becomes
<1>6. \A j \in Ids : mongo'[j] = IF j = i THEN NoDoc ELSE mongo[j]
  BY <1>1, <1>5
<1>7. mongo[i] # NoDoc => Home(mongo[i]) = h
  <2> SUFFICES ASSUME mongo[i] # NoDoc PROVE Home(mongo[i]) = h
    OBVIOUS
  <2>1. PICK d : d = mongo[i]
    OBVIOUS
  <2>2. d.id = i /\ KeyFits(d.id, d.key)
    BY <1>3, <2>1 DEF PathInv, FitsOK, Fits
  <2> QED BY <1>4, <2>1, <2>2, HomeOf
<1>8. Confined(r)
  BY <1>1, <1>4, <1>6, <1>7 DEF Confined, Changes
<1>9. \A k \in Keys \ {h} : Same(k) /\ ~Refreshes(r, k) /\ ~Saving(r, k)
  BY <1>1, <1>6, <1>7 DEF Same, Refreshes, Saving
<1>10. ASSUME h \notin disturbed PROVE req[r].doc # NoDoc /\ mongo[i] = req[r].doc
  BY <1>1, <1>3, <1>4, <1>10 DEF Views, Ahead, Heading, AfterCheck, Current
<1>11. ASSUME h \notin disturbed PROVE Sole(h)' /\ None(h)'
  <2>1. Sole(h)
    BY <1>4, <1>11 DEF CopiesInv, KeyOK
  <2>2. mongo[i] # NoDoc /\ mongo[i].key = h /\ i \in Ids
    BY <1>3, <1>4, <1>10, <1>11
  <2>3. \A j \in Ids \ {i} : mongo[j] # NoDoc => mongo[j].key # h
    BY <2>1, <2>2 DEF Sole
  <2> QED BY <1>6, <2>3 DEF Sole, None
<1>12. ASSUME h \notin disturbed PROVE EntryOK(h)'
  <2>1. Refreshes(r, h)'
    BY <1>4, <1>5, <1>10, <1>12 DEF Refreshes, Changes
  <2>2. h \notin Sessions
    BY <1>4, NoSessionTouched
  <2> QED BY <2>1, <2>2 DEF EntryOK
<1>13. Views(r)'
  BY <1>1, <1>5, <1>11 DEF Views, Ahead, Heading, AfterCheck, Saving
<1> QED BY <1>1, <1>2, <1>8, <1>9, <1>11, <1>12, <1>13, StoreCopies

LEMMA WriteCopies ==
  ASSUME DocInv, PathInv, CopiesInv, NEW r \in Reqs, Write(r), NoFault, DocInv', PathInv'
  PROVE  CopiesInv'
<1>1. /\ req[r].at = "write" /\ cache' = cache /\ disturbed' = disturbed /\ Views(r)
      /\ mongo \in [Ids -> Docs \cup {NoDoc}] /\ PathOK(r) /\ FlowOK(r) /\ req[r].key \in Keys
  BY WriteMoves, KnownPath, Known DEF NoFault, CopiesInv
<1>2. Step(r) /\ ~Start(r)
  BY <1>1 DEF Step, Start
<1>3. PICK i, k, b, u : i = req[r].id /\ k = req[r].key /\ b = req[r].doc /\ u = Updated(r, b)
  OBVIOUS
<1>4. /\ req[r].op \in {"save", "change", "update", "register"} /\ i \in Ids /\ b \in Docs /\ b.id = i
      /\ req[r].op = "register" => i = r
      /\ req[r].op # "register" => KeyFits(i, k)
      /\ req[r].op \in {"save", "change"} => b.key = k
      /\ \A d \in Docs : d.id = i /\ Fits(d) /\ req[r].op \in {"update", "register"} =>
              Updated(r, d).key = (IF req[r].op = "update" THEN k ELSE r)
                /\ (d.key # NoKey => Updated(r, d).key = d.key)
  BY <1>1, <1>3, WriterFits
<1>5. PICK h : h = IF req[r].op = "register" THEN r ELSE k
  OBVIOUS
<1>6. h \in TouchedBy(r) /\ h \in Keys /\ h # NoKey
  BY <1>1, <1>3, <1>4, <1>5, TouchedOwn, Apart
<1>7. \A d \in Docs : d.id = i /\ Fits(d) /\ req[r].op \in {"update", "register"} => Home(d) = h
  <2> SUFFICES ASSUME NEW d \in Docs, d.id = i, Fits(d), req[r].op \in {"update", "register"} PROVE Home(d) = h
    OBVIOUS
  <2>1. KeyFits(d.id, d.key)
    BY DEF Fits
  <2>2. CASE req[r].op = "register"
    BY <1>4, <1>5, <2>1, <2>2 DEF KeyFits, Home
  <2>3. CASE req[r].op = "update"
    <3>1. k \in Agents \cup Reqs
      BY <1>1, <1>3, <2>3 DEF FlowOK, KeysOf
    <3> QED BY <1>4, <1>5, <2>1, <2>3, <3>1, HomeOf
  <2> QED BY <2>2, <2>3
<1>8. ASSUME NEW d \in Docs, d.id = i, Fits(d), req[r].op \in {"save", "change"} => d.key = k
      PROVE  Home(d) = h /\ Updated(r, d).key = h /\ Updated(r, d).id = i /\ (d.key # NoKey => d.key = h)
  <2>1. CASE req[r].op \in {"save", "change"}
    BY <1>5, <1>6, <1>8, <2>1, UpdatedKey DEF Home
  <2>2. CASE req[r].op \in {"update", "register"}
    BY <1>4, <1>5, <1>7, <1>8, <2>2, UpdatedKey
  <2> QED BY <1>4, <2>1, <2>2
<1>9. Fits(b) /\ u.key = h /\ u.id = i /\ u \in Docs
  <2>1. Fits(b)
    BY <1>1, <1>3, <1>4, KnownPath DEF PathInv, FitsOK
  <2>2. u \in Docs
    <3>1. Good(b)
      BY <1>3, <1>4, Known
    <3> QED BY <1>3, <1>4, <3>1, UpdatedGood
  <2> QED BY <1>3, <1>4, <1>8, <2>1, <2>2
<1>10. /\ req'[r].op = req[r].op /\ req'[r].key = k /\ req'[r].id = i
       /\ IF req[r].op = "save" THEN req'[r].at = "done"
          ELSE req'[r].at = "fill" /\ req'[r].then = "done" /\ req'[r].doc = u
  BY <1>3, WriteMoves, FaultOrNot DEF Moved, Becomes
<1>11. mongo' = [mongo EXCEPT ![i] = IF @ = NoDoc THEN NoDoc ELSE Updated(r, @)]
  BY <1>3, WriteMoves, FaultOrNot
<1>12. \A j \in Ids : mongo'[j] = IF j = i /\ mongo[j] # NoDoc THEN Updated(r, mongo[j]) ELSE mongo[j]
  BY <1>1, <1>11
<1>13. ASSUME mongo[i] # NoDoc
       PROVE  /\ Home(mongo[i]) = h /\ mongo'[i] # NoDoc /\ mongo'[i].key = h /\ Home(mongo'[i]) = h
              /\ mongo[i].key # NoKey => mongo[i].key = h
  <2>1. mongo[i] \in Docs /\ mongo[i].id = i /\ Fits(mongo[i])
    BY <1>1, <1>4, <1>13 DEF PathInv, FitsOK
  <2>2. req[r].op \in {"save", "change"} => mongo[i].key = k
    BY <1>4, <1>6, <1>5, <1>9, <1>13 DEF Fits
  <2>3. mongo'[i] = Updated(r, mongo[i])
    BY <1>4, <1>12, <1>13
  <2>4. PICK d \in Docs : d = mongo[i]
    BY <2>1
  <2>5. Home(d) = h /\ Updated(r, d).key = h /\ Updated(r, d).id = i /\ (d.key # NoKey => d.key = h)
    BY <1>8, <2>1, <2>2, <2>4
  <2>6. Updated(r, d) \in Docs
    <3>1. Good(d)
      BY <1>4, <1>13, <2>4, Known
    <3> QED BY <1>4, <3>1, UpdatedGood
  <2>7. Home(mongo'[i]) = h
    BY <1>6, <2>3, <2>4, <2>5 DEF Home
  <2> QED BY <2>3, <2>4, <2>5, <2>6, <2>7
<1>14. Confined(r)
  BY <1>1, <1>4, <1>6, <1>12, <1>13 DEF Confined, Changes
<1>15. \A c \in Keys \ {h} : Same(c) /\ ~Refreshes(r, c) /\ ~Saving(r, c)
  BY <1>1, <1>3, <1>5, <1>12, <1>13 DEF Same, Refreshes, Saving
<1>16. ASSUME h \notin disturbed PROVE mongo[i] = b
  <2>1. CASE req[r].op = "register"
    BY <1>1, <1>3, <1>4, <1>5, <1>16, <2>1 DEF Views, Ahead, Heading, AfterCheck, Current
  <2>2. CASE req[r].op # "register"
    BY <1>1, <1>3, <1>4, <1>5, <1>16, <2>2 DEF Views, Ahead, Heading, AfterCheck, Current
  <2> QED BY <2>1, <2>2
<1>17. ASSUME h \notin disturbed PROVE Sole(h)'
  <2>1. Sole(h) /\ b # NoDoc
    BY <1>4, <1>6, <1>17 DEF CopiesInv, KeyOK
  <2>2. mongo[i].key = NoKey => i \in Reqs /\ h = i
    <3>1. KeyFits(i, mongo[i].key)
      BY <1>4, <1>9, <1>16, <1>17 DEF Fits
    <3>2. mongo[i].key = NoKey => i \in Reqs
      BY <1>4, <3>1, Apart DEF KeyFits, Ids, Named
    <3>3. Home(mongo[i]) = h
      BY <1>13, <1>16, <1>17, <2>1
    <3> QED BY <1>4, <1>16, <1>17, <3>2, <3>3 DEF Home
  <2>3. \A j \in Ids \ {i} : mongo[j] # NoDoc => mongo[j].key # h
    <3> SUFFICES ASSUME NEW j \in Ids \ {i}, mongo[j] # NoDoc, mongo[j].key = h PROVE FALSE
      OBVIOUS
    <3>1. CASE mongo[i].key = NoKey
      <4>1. KeyFits(j, h) /\ h \in Reqs /\ h = i
        BY <2>2, <3>1 DEF PathInv, FitsOK, Fits
      <4> QED BY <4>1, OwnKey
    <3>2. CASE mongo[i].key # NoKey
      <4>1. mongo[i] # NoDoc /\ mongo[i].key = h
        BY <1>13, <1>16, <1>17, <2>1, <3>2
      <4> QED BY <1>4, <2>1, <4>1 DEF Sole
    <3> QED BY <3>1, <3>2
  <2> QED BY <1>12, <2>3 DEF Sole
<1>18. ASSUME h \notin disturbed PROVE EntryOK(h)'
  <2>1. CASE req[r].op = "save"
    <3>1. h = k /\ h \in Sessions
      BY <1>1, <1>3, <1>5, <2>1 DEF FlowOK, KeysOf
    <3>2. cache[h] # NoDoc => cache[h].a = r /\ cache[h].b = r
      BY <1>1, <1>3, <1>18, <2>1, <3>1 DEF Views, Saving
    <3>3. mongo'[i].a = r /\ mongo'[i].b = r /\ mongo'[i].key = h /\ mongo'[i] # NoDoc
      <4>1. mongo'[i] = Updated(r, b) /\ mongo[i] # NoDoc
        BY <1>4, <1>12, <1>16, <1>18
      <4>2. Updated(r, b).a = r /\ Updated(r, b).b = r
        BY <1>4, <2>1 DEF Updated, SessionSaved, Docs
      <4> QED BY <1>13, <4>1, <4>2
    <3> QED BY <1>1, <1>4, <3>1, <3>2, <3>3 DEF EntryOK, Mirrors
  <2>2. CASE req[r].op # "save"
    <3>1. Refreshes(r, h)'
      BY <1>4, <1>9, <1>10, <2>2 DEF Refreshes, Changes
    <3>2. h \notin Sessions
      BY <1>4, <1>6, <2>2, NoSessionTouched
    <3> QED BY <3>1, <3>2 DEF EntryOK
  <2> QED BY <2>1, <2>2
<1>19. Views(r)'
  <2>1. h \notin disturbed => mongo'[u.id] = u
    BY <1>3, <1>4, <1>9, <1>12, <1>16
  <2> QED BY <1>1, <1>4, <1>9, <1>10, <2>1 DEF Views, Ahead, Heading, AfterCheck, Saving, Current
<1> QED BY <1>1, <1>2, <1>6, <1>14, <1>15, <1>17, <1>18, <1>19, StoreCopies

\* The copies, in every reachable state.
LEMMA CopiesInductive == DocInv /\ PathInv /\ CopiesInv /\ [Next]_vars /\ DocInv' /\ PathInv' => CopiesInv'
<1> SUFFICES ASSUME DocInv, PathInv, CopiesInv, [Next]_vars, DocInv', PathInv' PROVE CopiesInv'
  OBVIOUS
<1>1. CASE UNCHANGED vars
  <2>1. mongo' = mongo /\ cache' = cache /\ req' = req /\ disturbed' = disturbed
    BY <1>1 DEF vars
  <2> QED BY <2>1 DEF CopiesInv, KeyOK, Sole, Alone, EntryOK, Mirrors, Current, Refreshes, Saving, Views, Ahead, Heading, AfterCheck,
                      Active, TouchedBy, None
<1>2. ASSUME NEW r \in Reqs, Step(r) PROVE CopiesInv'
  <2>1. CASE Start(r)
    BY <2>1, StartCopies
  <2>2. CASE ~Start(r) /\ ~NoFault
    BY <1>2, <2>2, FaultCopies
  <2>3. CASE ~Start(r) /\ NoFault
    BY <1>2, <2>3, CacheGetCopies, FindByKeyCopies, FindByIdCopies, FillCopies, FetchCopies, InsertCopies,
       WriteCopies, RemoveCopies, DropCopies, EnvelopeCopies, CheckCopies, ListAllCopies, CacheEachCopies DEF Step
  <2> QED BY <2>1, <2>2, <2>3
<1>3. ASSUME NEW k \in Keys, Expire(k) PROVE CopiesInv'
  BY <1>3, ExpireCopies
<1> QED BY <1>1, <1>2, <1>3 DEF Next

LEMMA CopiesInitially == Init => CopiesInv
<1> SUFFICES ASSUME Init PROVE CopiesInv
  OBVIOUS
<1>1. PICK present \in SUBSET (Agents \cup Types) :
        /\ mongo = [i \in Ids |-> IF i \in present THEN Seed(i) ELSE NoDoc]
        /\ cache \in {[k \in Keys |-> NoDoc], [k \in Keys |-> IF k \in present THEN Seed(k) ELSE NoDoc]}
  BY DEF Init
<1>2. \A r \in Reqs : req[r].at = "idle" /\ req[r].then = "idle"
  BY DEF Init
<1>3. \A i \in Ids : Seed(i) \in Docs /\ Seed(i) # NoDoc
  BY DEF Seed, Docs, Ids, Keys
<1>4. \A i \in Ids : mongo[i] # NoDoc => mongo[i].key = i
  BY <1>1 DEF Seed
<1>5. ASSUME NEW k \in Keys PROVE KeyOK(k)
  <2>1. Sole(k)
    BY <1>4 DEF Sole
  <2>2. Alone(k)
    BY <1>2 DEF Alone, Active
  <2>3. ASSUME cache[k] # NoDoc PROVE k \in present /\ cache[k] = Seed(k) /\ mongo[k] = Seed(k) /\ k \in Ids
    BY <1>1, <2>3 DEF Keys, Ids, Named
  <2>4. k \in present => k \notin Sessions
    BY <1>1, Apart
  <2>5. EntryOK(k)
    BY <2>3, <2>4 DEF EntryOK, Current, Seed
  <2> QED BY <2>1, <2>2, <2>5 DEF KeyOK
<1>6. ASSUME NEW r \in Reqs PROVE Views(r)
  BY <1>2 DEF Views, Ahead, Heading, AfterCheck, Active, Saving
<1> QED BY <1>5, <1>6 DEF CopiesInv

LEMMA CopiesInvariant == Spec => []CopiesInv
<1>1. Spec => []DocInv
  BY DocInvariant
<1>2. Spec => []PathInv
  BY PathInvariant
<1>3. Init => CopiesInv
  BY CopiesInitially
<1>4. DocInv /\ PathInv /\ CopiesInv /\ [Next]_vars /\ DocInv' /\ PathInv' => CopiesInv'
  BY CopiesInductive
<1> QED BY <1>1, <1>2, <1>3, <1>4, PTL DEF Spec

LEMMA SurvivesInvariant == Spec => []UpdatesSurvive
<1>1. Spec => []DocInv
  BY DocInvariant
<1>2. Spec => []PathInv
  BY PathInvariant
<1>3. Init => UpdatesSurvive
  BY DEF Init, UpdatesSurvive
<1>4. DocInv /\ PathInv /\ UpdatesSurvive /\ [Next]_vars /\ DocInv' => UpdatesSurvive'
  BY SurvivesInductive
<1> QED BY <1>1, <1>2, <1>3, <1>4, PTL DEF Spec

\* What is stored under an undisturbed key is one document.
LEMMA StoredSole ==
  ASSUME NEW k, Sole(k), NEW i \in Ids, mongo[i] # NoDoc, mongo[i].key = k
  PROVE  Stored(k) = {mongo[i]}
BY DEF Sole, Stored

LEMMA AgreesFromCopies == DocInv /\ PathInv /\ CopiesInv => CacheAgrees
<1> SUFFICES ASSUME DocInv, PathInv, CopiesInv, NEW k \in Keys \ (Sessions \cup disturbed),
                    Quiet(k), cache[k] # NoDoc
             PROVE  Stored(k) = {cache[k]}
  BY DEF CacheAgrees
<1>1. Sole(k) /\ EntryOK(k)
  BY DEF CopiesInv, KeyOK
<1>2. \A r \in Reqs : ~Refreshes(r, k)
  BY TouchedOwn DEF Quiet
<1>3. mongo[cache[k].id] = cache[k]
  BY <1>1, <1>2 DEF EntryOK, Current
<1>4. cache[k] \in Docs /\ cache[k].key = k
  BY DEF DocInv, TypeOK, PathInv, FitsOK
<1>5. cache[k].id \in Ids
  BY <1>4 DEF Docs
<1> QED BY <1>1, <1>3, <1>4, <1>5, StoredSole

LEMMA SessionsFromCopies == DocInv /\ PathInv /\ CopiesInv => SessionCopiesAgree
<1> SUFFICES ASSUME DocInv, PathInv, CopiesInv, NEW s \in Sessions \ disturbed, Quiet(s), cache[s] # NoDoc
             PROVE  /\ Cardinality(Stored(s)) = 1
                    /\ \A d \in Stored(s) : d.a = cache[s].a /\ d.b = cache[s].b
  BY DEF SessionCopiesAgree
<1>1. Sole(s) /\ EntryOK(s)
  BY DEF CopiesInv, KeyOK, Keys, Named
<1>2. \A r \in Reqs : ~Saving(r, s)
  BY TouchedOwn DEF Quiet
<1>3. PICK i \in Ids : mongo[i] # NoDoc /\ mongo[i].key = s /\ Mirrors(mongo[i], cache[s])
  BY <1>1, <1>2 DEF EntryOK
<1>4. Stored(s) = {mongo[i]}
  BY <1>1, <1>3, StoredSole
<1>5. Cardinality({mongo[i]}) = 1
  BY FS_Singleton
<1> QED BY <1>3, <1>4, <1>5 DEF Mirrors

\* An update of one field of a document is not undone by an update of the
\* other, in whatever order their finds, writes and cache fills come.
THEOREM UpdatesAreKept == Spec => []UpdatesSurvive
BY SurvivesInvariant

\* On a key that no failed command and no overlap has disturbed, an entry of
\* the cache is the one document that Mongo has.
THEOREM CacheIsStored == Spec => []CacheAgrees
<1>1. DocInv /\ PathInv /\ CopiesInv => CacheAgrees
  BY AgreesFromCopies
<1> QED BY <1>1, DocInvariant, PathInvariant, CopiesInvariant, PTL

\* A session saved without overlap is one document of Mongo, with the fields
\* that save_session copies of the envelope in Redis.
THEOREM SessionsAgree == Spec => []SessionCopiesAgree
<1>1. DocInv /\ PathInv /\ CopiesInv => SessionCopiesAgree
  BY SessionsFromCopies
<1> QED BY <1>1, DocInvariant, PathInvariant, CopiesInvariant, PTL
=============================================================================
