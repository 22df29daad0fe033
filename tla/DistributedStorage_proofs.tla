------------------------ MODULE DistributedStorage_proofs ------------------------
(***************************************************************************)
(* Proofs about the tables of the storage servers, and about what the      *)
(* manager's catalog says of them, for any set of nodes, any requests and  *)
(* any number of faults and retries.                                       *)
(***************************************************************************)
EXTENDS DistributedStorage, FiniteSetTheorems, TLAPS

\* A command at a node that is not answered yet
Handlers == {h \in HandlerType : h.pc # "answer"}
Commands == [req : Requests, try : Nat, handler : Handlers]

Tables ==
  /\ server \in [Nodes -> ServerType]
  /\ copies \in [Nodes -> SUBSET Commands]
  /\ tries \in [Requests -> [Nodes -> Nat]]

Named(s) ==
  /\ s.names2ids # NoIds => s.names2ids \in s.userSets
  /\ s.name2id # NoId => s.name2id \in s.dbs

\* No set is without a name, and no set has the ids that stand for none.
Kept(s) == s.userSets \subseteq {s.names2ids} /\ NoIds \notin s.userSets

\* What a handler has found in the tables still holds when it goes on.
Prepared(s, h) ==
  /\ h.pc = "insertSet" => h.ids # NoIds /\ s.names2ids = NoIds
  /\ h.pc = "eraseSet" => h.ids = s.names2ids

-----------------------------------------------------------------------------
(* One step of a handler *)

\* The ids that stand for none are ids.
LEMMA IdsFacts == NoIds \in Ids /\ NoId \in Nat /\ \A i, j \in Nat : <<i, j>> \in Ids
  BY DEF NoIds, NoId, Ids

\* The cases of step cover every handler that is not answered yet.
LEMMA StepCases ==
  ASSUME NEW s \in ServerType, NEW h \in Handlers
  PROVE  step(s, h) \in {addDatabase(s, h), insertDatabase(s, h), addSet(s, h), insertSet(s, h),
                         removeSet(s, h), eraseSet(s, h), removeDatabase(s, h)}
  BY DEF step, Handlers, HandlerType, Ops, Removals

\* An answer, or a further step, is a handler.
LEMMA HandlerKept ==
  ASSUME NEW h \in HandlerType, NEW ids \in Ids, NEW ok \in BOOLEAN
  PROVE  /\ Answer(h, ok) \in HandlerType
         /\ \A pc \in {"addSet", "insertDatabase", "insertSet", "eraseSet"} :
              Then(h, pc, ids) \in HandlerType
  BY IdsFacts DEF Answer, Then, HandlerType, Ops, Removals

\* A step keeps the types of the tables and of the handler.
LEMMA StepTyped ==
  ASSUME NEW s \in ServerType, NEW h \in Handlers
  PROVE  step(s, h).server \in ServerType /\ step(s, h).handler \in HandlerType
<1> DEFINE Ok(r) == r.server \in ServerType /\ r.handler \in HandlerType
<1>1. h \in HandlerType /\ h.ids \in Ids BY DEF Handlers, HandlerType
<1>2. h.ids[1] \in Nat BY <1>1 DEF Ids
<1>3. getSet(s) \in Ids BY IdsFacts DEF getSet, ServerType
<1>4. Ok(newDatabase(s, h))
  <2>1. <<s.dbSeq + 1, NoId>> \in Ids BY DEF ServerType, Ids, NoId
  <2>2. [s EXCEPT !.dbSeq = @ + 1] \in ServerType BY DEF ServerType
  <2> QED BY <1>1, <2>1, <2>2, HandlerKept DEF newDatabase, Result
<1>5. Ok(addDatabase(s, h)) BY <1>1, <1>4, HandlerKept, IdsFacts DEF addDatabase, Result
<1>6. Ok(insertDatabase(s, h))
  <2>1. [s EXCEPT !.dbs = @ \cup {h.ids[1]}, !.name2id = IF @ = NoId THEN h.ids[1] ELSE @]
          \in ServerType
    BY <1>2 DEF ServerType
  <2> QED BY <1>1, <2>1, HandlerKept, IdsFacts DEF insertDatabase, Result
<1>7. Ok(addSet(s, h))
  <2>1. [s EXCEPT !.setSeq = s.setSeq + 1] \in ServerType BY DEF ServerType
  <2>2. <<s.name2id, s.setSeq + 1>> \in Ids BY DEF ServerType, Ids
  <2> QED BY <1>1, <1>4, <2>1, <2>2, HandlerKept, IdsFacts DEF addSet, Result
<1>8. Ok(insertSet(s, h))
  <2>1. [s EXCEPT !.userSets = @ \cup {h.ids}, !.names2ids = IF @ = NoIds THEN h.ids ELSE @]
          \in ServerType
    BY <1>1 DEF ServerType
  <2> QED BY <1>1, <2>1, HandlerKept, IdsFacts DEF insertSet, Result
<1>9. Ok(removeSet(s, h)) BY <1>1, <1>3, HandlerKept, IdsFacts DEF removeSet, Result
<1>10. Ok(eraseSet(s, h))
  <2>1. erased(s, h.ids) \in ServerType BY IdsFacts DEF erased, ServerType
  <2> QED BY <1>1, <2>1, HandlerKept, IdsFacts DEF eraseSet, Result
<1>11. Ok(removeDatabase(s, h))
  <2>1. [s EXCEPT !.dbs = @ \ {s.name2id}, !.name2id = NoId, !.setSeq = 0] \in ServerType
    BY IdsFacts DEF ServerType
  <2> QED BY <1>1, <2>1, HandlerKept, IdsFacts DEF removeDatabase, Result
<1> QED BY <1>5, <1>6, <1>7, <1>8, <1>9, <1>10, <1>11, StepCases

\* Whatever a handler inserts or erases, and whichever handlers ran between its steps,
\* a name it leaves behind has its entry.
LEMMA StepNamed ==
  ASSUME NEW s \in ServerType, NEW h \in Handlers, Named(s)
  PROVE  Named(step(s, h).server)
<1> USE DEF Named, Result, ServerType
<1>1. Named(newDatabase(s, h).server) BY DEF newDatabase
<1>2. Named(addDatabase(s, h).server) BY <1>1 DEF addDatabase
<1>3. Named(insertDatabase(s, h).server) BY DEF insertDatabase
<1>4. Named(addSet(s, h).server) BY <1>1 DEF addSet
<1>5. Named(insertSet(s, h).server) BY DEF insertSet
<1>6. Named(removeSet(s, h).server) BY DEF removeSet
<1>7. Named(eraseSet(s, h).server) BY DEF eraseSet, erased
<1>8. Named(removeDatabase(s, h).server) BY DEF removeDatabase
<1> HIDE DEF Named
<1> QED BY <1>2, <1>3, <1>4, <1>5, <1>6, <1>7, <1>8, StepCases

\* A handler whose findings still hold leaves no set without a name.
LEMMA StepKept ==
  ASSUME NEW s \in ServerType, NEW h \in Handlers, Named(s), Kept(s), Prepared(s, h)
  PROVE  Kept(step(s, h).server) /\ Prepared(step(s, h).server, step(s, h).handler)
<1> DEFINE Ok(r) == Kept(r.server) /\ Prepared(r.server, r.handler)
<1> USE DEF Result, ServerType
<1>1. h \in HandlerType BY DEF Handlers
<1>2. \A ids, ok : /\ Answer(h, ok).pc = "answer"
                   /\ \A pc : Then(h, pc, ids).pc = pc /\ Then(h, pc, ids).ids = ids
  BY <1>1 DEF Answer, Then, HandlerType
<1>3. Ok(newDatabase(s, h)) BY <1>2 DEF newDatabase, Kept, Prepared
<1>4. Ok(addDatabase(s, h)) BY <1>2, <1>3 DEF addDatabase, Kept, Prepared
<1>5. Ok(insertDatabase(s, h))
  <2>1. insertDatabase(s, h).server.userSets = s.userSets
        /\ insertDatabase(s, h).server.names2ids = s.names2ids
    BY DEF insertDatabase
  <2>2. insertDatabase(s, h).handler.pc \in {"answer", "addSet"} BY <1>2 DEF insertDatabase
  <2> QED BY <2>1, <2>2 DEF Kept, Prepared
<1>6. Ok(addSet(s, h))
  <2>1. CASE s.name2id = NoId BY <1>3, <2>1 DEF addSet
  <2>2. CASE s.name2id # NoId /\ getSet(s) # NoIds BY <1>2, <2>2 DEF addSet, Kept, Prepared
  <2>3. CASE s.name2id # NoId /\ getSet(s) = NoIds
    <3>1. s.names2ids = NoIds BY <2>3 DEF getSet, Named
    <3>2. <<s.name2id, s.setSeq + 1>> # NoIds BY <2>3 DEF NoIds
    <3> QED BY <1>2, <2>3, <3>1, <3>2 DEF addSet, Kept, Prepared
  <2> QED BY <2>1, <2>2, <2>3
<1>7. CASE step(s, h) = insertSet(s, h) /\ h.pc = "insertSet"
  <2>1. s.names2ids = NoIds /\ s.userSets = {} /\ h.ids # NoIds BY <1>7 DEF Kept, Prepared
  <2>2. insertSet(s, h).server.userSets = {h.ids} /\ insertSet(s, h).server.names2ids = h.ids
    BY <2>1 DEF insertSet
  <2>3. insertSet(s, h).handler.pc = "answer" BY <1>2 DEF insertSet
  <2> QED BY <1>7, <2>1, <2>2, <2>3 DEF Kept, Prepared
<1>8. Ok(removeSet(s, h)) BY <1>2 DEF removeSet, getSet, Kept, Prepared
<1>9. CASE step(s, h) = eraseSet(s, h) /\ h.pc = "eraseSet"
  <2>1. h.ids = s.names2ids BY <1>9 DEF Prepared
  <2>2. erased(s, h.ids).userSets = {} BY <2>1 DEF erased, Kept
  <2>3. Kept(erased(s, h.ids)) BY <2>2 DEF Kept
  <2>4. eraseSet(s, h).server \in {erased(s, h.ids), s} BY DEF eraseSet
  <2>5. eraseSet(s, h).handler.pc \in {"answer", "addSet"} BY <1>2 DEF eraseSet
  <2> QED BY <1>9, <2>3, <2>4, <2>5 DEF Prepared
<1>10. Ok(removeDatabase(s, h)) BY <1>2 DEF removeDatabase, Kept, Prepared
<1>11. \/ step(s, h) \in {addDatabase(s, h), insertDatabase(s, h), addSet(s, h), removeSet(s, h),
                         removeDatabase(s, h)}
       \/ step(s, h) = insertSet(s, h) /\ h.pc = "insertSet"
       \/ step(s, h) = eraseSet(s, h) /\ h.pc = "eraseSet"
  BY DEF step, Handlers, HandlerType, Ops, Removals
<1> QED BY <1>4, <1>5, <1>6, <1>7, <1>8, <1>9, <1>10, <1>11

-----------------------------------------------------------------------------
(* The inductive invariant *)

NoNodeDangles == \A n \in Nodes : Named(server[n])

\* As long as no two handlers overlapped at a node, at most one is inside, and nobody
\* has changed what it found.
OneInside ==
  \A n \in Nodes \ overlap :
    /\ Kept(server[n])
    /\ \A c \in copies[n] : Prepared(server[n], c.handler)
    /\ \A c, d \in copies[n] : Inside(c.handler) /\ Inside(d.handler) => c = d

Inv == Tables /\ NoNodeDangles /\ OneInside

Fresh == {c \in Commands : ~ Inside(c.handler) /\ c.handler.pc \notin {"insertSet", "eraseSet"}}

\* A command that is sent has found nothing yet.
LEMMA CopyFresh ==
  ASSUME NEW r \in Requests, NEW k \in Nat
  PROVE  Copy(r, k) \in Fresh
<1>1. r.op \in Ops BY DistributedStorageAssumption
<1>2. newHandler(r.op) \in HandlerType BY <1>1, IdsFacts DEF newHandler, HandlerType
<1>3. newHandler(r.op).pc \in Ops /\ newHandler(r.op).op = newHandler(r.op).pc
  BY <1>1 DEF newHandler
<1>4. newHandler(r.op) \in Handlers BY <1>2, <1>3 DEF Handlers, Ops, Removals
<1> QED BY <1>3, <1>4 DEF Copy, Fresh, Commands, Inside, Ops, Removals

\* A handler that is not inside has found nothing yet.
LEMMA OutsidePrepared ==
  ASSUME NEW s, NEW h \in Handlers, ~ Inside(h)
  PROVE  Prepared(s, h)
  BY DEF Inside, Prepared, Handlers, HandlerType, Ops, Removals

\* The inductive invariant holds at first.
LEMMA Initial == Init => Inv
<1> SUFFICES ASSUME Init PROVE Inv OBVIOUS
<1>1. emptyServer \in ServerType BY IdsFacts DEF emptyServer, ServerType
<1>2. Named(emptyServer) /\ Kept(emptyServer) BY DEF emptyServer, Named, Kept
<1>3. Tables BY <1>1 DEF Init, Tables
<1>4. NoNodeDangles BY <1>2 DEF Init, NoNodeDangles
<1>5. OneInside BY <1>2 DEF Init, OneInside
<1> QED BY <1>3, <1>4, <1>5 DEF Inv

\* Steps that leave the tables alone and may bring new copies of commands
LEMMA TablesAlone ==
  ASSUME Inv, UNCHANGED <<server, overlap>>, tries' \in [Requests -> [Nodes -> Nat]],
         copies' \in [Nodes -> SUBSET Commands],
         \A n \in Nodes : copies'[n] \subseteq copies[n] \cup Fresh
  PROVE  Inv'
<1> USE DEF Inv
<1>1. Tables' BY DEF Tables
<1>2. NoNodeDangles' BY DEF NoNodeDangles
<1>3. OneInside'
  <2> SUFFICES ASSUME NEW n \in Nodes \ overlap
               PROVE  /\ Kept(server[n])
                      /\ \A c \in copies'[n] : Prepared(server[n], c.handler)
                      /\ \A c, d \in copies'[n] : Inside(c.handler) /\ Inside(d.handler) => c = d
    BY DEF OneInside
  <2>1. Kept(server[n]) BY DEF OneInside
  <2>2. \A c \in Fresh : Prepared(server[n], c.handler)
    BY OutsidePrepared DEF Fresh, Commands
  <2>3. \A c \in copies'[n] : Prepared(server[n], c.handler) BY <2>2 DEF OneInside
  <2>4. \A c, d \in copies'[n] : Inside(c.handler) /\ Inside(d.handler) => c = d
    BY DEF OneInside, Fresh
  <2> QED BY <2>1, <2>3, <2>4
<1> QED BY <1>1, <1>2, <1>3


\* Only node n changes, and what is there afterwards is in S.
OnlyAt(n, S) ==
  /\ copies' \in [Nodes -> SUBSET Commands]
  /\ \A m \in Nodes \ {n} : copies'[m] = copies[m]
  /\ copies'[n] \subseteq S

\* What a thread sends again, or leaves, at its node
LEMMA RetryCopies ==
  ASSUME Tables, NEW r \in Requests, NEW n \in Nodes, NEW rest \in SUBSET Commands,
         retry(r, n, rest)
  PROVE  tries' \in [Requests -> [Nodes -> Nat]] /\ OnlyAt(n, rest \cup Fresh)
<1>1. CASE tries[r][n] < MaxRetries
  <2>1. tries[r] \in [Nodes -> Nat] BY DEF Tables
  <2>2. Copy(r, tries[r][n] + 1) \in Fresh BY <2>1, CopyFresh
  <2>3. copies' = [copies EXCEPT ![n] = rest \cup {Copy(r, tries[r][n] + 1)}]
        /\ tries' = [tries EXCEPT ![r][n] = @ + 1]
    BY <1>1 DEF retry
  <2>4. [tries[r] EXCEPT ![n] = @ + 1] \in [Nodes -> Nat] BY <2>1
  <2>5. tries' \in [Requests -> [Nodes -> Nat]] BY <2>3, <2>4 DEF Tables
  <2>6. OnlyAt(n, rest \cup Fresh) BY <2>2, <2>3 DEF OnlyAt, Tables, Fresh
  <2> QED BY <2>5, <2>6
<1>2. CASE ~ (tries[r][n] < MaxRetries)
  <2>1. copies' = [copies EXCEPT ![n] = rest] /\ tries' = tries BY <1>2 DEF retry
  <2> QED BY <2>1 DEF OnlyAt, Tables
<1> QED BY <1>1, <1>2

\* The handlers of the manager
LEMMA ManagerStep ==
  ASSUME Inv, NEW r \in Requests, refuse(r) \/ catalogFails(r) \/ begin(r) \/ finish(r)
  PROVE  Inv'
<1>1. CASE begin(r)
  <2>1. Copy(r, 0) \in Fresh BY CopyFresh
  <2>2. copies' \in [Nodes -> SUBSET Commands] BY <1>1, <2>1 DEF begin, Inv, Tables, Fresh
  <2>3. \A n \in Nodes : copies'[n] \subseteq copies[n] \cup Fresh BY <1>1, <2>1 DEF begin
  <2> QED BY <1>1, <2>2, <2>3, TablesAlone DEF begin, Inv, Tables
<1>2. CASE refuse(r) \/ catalogFails(r) \/ finish(r)
  <2>1. UNCHANGED <<server, copies, tries, overlap>>
    BY <1>2 DEF refuse, catalogFails, finish, threadVars, historyVars
  <2> QED BY <2>1, TablesAlone DEF Inv, Tables
<1> QED BY <1>1, <1>2

\* The threads of a broadcast
LEMMA ThreadStep ==
  ASSUME Inv, NEW r \in Requests, NEW n \in Nodes, disconnect(r, n) \/ unreachable(r, n)
  PROVE  Inv'
<1> USE DEF Inv
<1>1. CASE disconnect(r, n)
  <2>1. PICK lost \in SUBSET {Copy(r, tries[r][n])} : retry(r, n, copies[n] \ lost)
    BY <1>1 DEF disconnect
  <2>2. PICK left \in SUBSET Commands : left = copies[n] \ lost BY DEF Tables
  <2>3. retry(r, n, left) BY <2>1, <2>2 DEF retry
  <2>4. tries' \in [Requests -> [Nodes -> Nat]] /\ OnlyAt(n, left \cup Fresh)
    BY <2>3, RetryCopies
  <2>5. copies' \in [Nodes -> SUBSET Commands] /\ \A m \in Nodes : copies'[m] \subseteq copies[m] \cup Fresh
    BY <2>2, <2>4 DEF OnlyAt
  <2> QED BY <1>1, <2>4, <2>5, TablesAlone DEF disconnect
<1>2. CASE unreachable(r, n)
  <2>1. PICK lost \in SUBSET {Copy(r, tries[r][n])} : copies' = [copies EXCEPT ![n] = @ \ lost]
    BY <1>2 DEF unreachable
  <2>2. copies' \in [Nodes -> SUBSET Commands] BY <2>1 DEF Tables
  <2>3. \A m \in Nodes : copies'[m] \subseteq copies[m] \cup Fresh BY <2>1 DEF Tables
  <2> QED BY <1>2, <2>2, <2>3, TablesAlone DEF unreachable, Tables
<1> QED BY <1>1, <1>2

\* A handler of a node
LEMMA HandleStep ==
  ASSUME Inv, NEW n \in Nodes, NEW c \in copies[n], handle(n, c)
  PROVE  Inv'
<1> USE DEF Inv
<1> DEFINE done == step(server[n], c.handler)
           rest == copies[n] \ {c}
           next == [c EXCEPT !.handler = done.handler]
<1>1. c \in Commands /\ c.req \in Requests /\ c.handler \in Handlers /\ server[n] \in ServerType
  BY DEF Tables, Commands
<1>2. done.server \in ServerType /\ done.handler \in HandlerType BY <1>1, StepTyped
<1>3. Named(done.server) BY <1>1, StepNamed DEF NoNodeDangles
<1>4. server' = [server EXCEPT ![n] = done.server] BY DEF handle
<1>5. rest \in SUBSET Commands BY DEF Tables
<1>6. next \in [req : Requests, try : Nat, handler : HandlerType] /\ next.handler = done.handler
  BY <1>1, <1>2 DEF Commands
<1>7. done.handler.pc # "answer" => next \in Commands
  BY <1>2, <1>6 DEF Commands, Handlers
<1> HIDE DEF done, rest, next
<1> DEFINE After == rest \cup Fresh \cup (IF done.handler.pc # "answer" THEN {next} ELSE {})
<1>8. tries' \in [Requests -> [Nodes -> Nat]] /\ OnlyAt(n, After)
  <2>1. CASE done.handler.pc # "answer" /\ copies' = [copies EXCEPT ![n] = rest \cup {next}]
             /\ UNCHANGED tries
    BY <1>5, <1>7, <2>1 DEF Tables, OnlyAt
  <2>2. CASE copies' = [copies EXCEPT ![n] = rest] /\ UNCHANGED tries
    BY <1>5, <2>2 DEF Tables, OnlyAt
  <2>3. CASE retry(c.req, n, rest)
    <3>1. PICK left \in SUBSET Commands : left = rest BY <1>5
    <3>2. retry(c.req, n, left) BY <2>3, <3>1 DEF retry
    <3>3. tries' \in [Requests -> [Nodes -> Nat]] /\ OnlyAt(n, left \cup Fresh)
      BY <1>1, <3>2, RetryCopies
    <3> QED BY <3>1, <3>3 DEF OnlyAt
  <2> QED BY <2>1, <2>2, <2>3 DEF handle, threadVars, done, rest, next
<1>9. Tables'
  <2>1. server' \in [Nodes -> ServerType] BY <1>2, <1>4 DEF Tables
  <2> QED BY <1>8, <2>1 DEF Tables, OnlyAt
<1>10. NoNodeDangles' BY <1>3, <1>4 DEF NoNodeDangles, Tables
<1>11. overlap' = IF \E d \in rest : Inside(d.handler) THEN overlap \cup {n} ELSE overlap
  BY DEF handle, rest
<1>12. OneInside'
  <2> SUFFICES ASSUME NEW m \in Nodes, m \notin overlap'
               PROVE  /\ Kept(server'[m])
                      /\ \A e \in copies'[m] : Prepared(server'[m], e.handler)
                      /\ \A e, d \in copies'[m] : Inside(e.handler) /\ Inside(d.handler) => e = d
    BY DEF OneInside
  <2>1. m \notin overlap BY <1>11
  <2>2. CASE m # n
    <3>1. server'[m] = server[m] /\ copies'[m] = copies[m] BY <1>4, <1>8, <2>2 DEF Tables, OnlyAt
    <3> QED BY <2>1, <3>1 DEF OneInside
  <2>3. CASE m = n
    <3>1. \A d \in rest : ~ Inside(d.handler) BY <1>11, <2>3
    <3>2. server'[m] = done.server /\ copies'[m] \subseteq rest \cup Fresh \cup {next}
      BY <1>4, <1>8, <2>3 DEF Tables, OnlyAt
    <3>3. Kept(server[n]) /\ Prepared(server[n], c.handler) BY <2>1, <2>3 DEF OneInside
    <3>4. Kept(done.server) /\ Prepared(done.server, done.handler)
      BY <1>1, <3>3, StepKept DEF NoNodeDangles, done
    <3>5. \A e \in rest \cup Fresh : ~ Inside(e.handler) /\ e.handler \in Handlers
      BY <1>5, <3>1 DEF Fresh, Commands
    <3>6. \A e \in copies'[m] : Prepared(server'[m], e.handler)
      BY <1>6, <3>2, <3>4, <3>5, OutsidePrepared
    <3>7. \A e, d \in copies'[m] : Inside(e.handler) /\ Inside(d.handler) => e = d
      BY <3>2, <3>5
    <3> QED BY <3>2, <3>4, <3>6, <3>7
  <2> QED BY <2>2, <2>3
<1> QED BY <1>9, <1>10, <1>12

\* The inductive invariant holds in every behaviour of the broadcasts and handlers.
THEOREM Invariance == Spec => []Inv
<1>1. Inv /\ UNCHANGED vars => Inv'
  <2> SUFFICES ASSUME Inv, UNCHANGED vars PROVE Inv' OBVIOUS
  <2>1. UNCHANGED <<server, copies, tries, overlap>> BY DEF vars, threadVars, historyVars
  <2> QED BY <2>1, TablesAlone DEF Inv, Tables
<1>2. Inv /\ [Next]_vars => Inv'
  BY <1>1, ManagerStep, ThreadStep, HandleStep DEF Next, NodeStep
<1> QED BY <1>2, Initial, PTL DEF Spec

\* No name of a storage server refers to a set or a database that is not there,
\* whatever handlers overlap, and whatever is sent twice or late.
THEOREM NoDanglingNameCorrect == Spec => []NoDanglingName
<1>1. Inv => NoDanglingName BY DEF Inv, NoNodeDangles, Named, NoDanglingName
<1> QED BY <1>1, Invariance, PTL

\* A set is without a name only on nodes where handlers overlapped.
THEOREM NoOrphansCorrect == Spec => []NoOrphans
<1>1. Inv => NoOrphans BY DEF Inv, OneInside, Kept, NoOrphans
<1> QED BY <1>1, Invariance, PTL

-----------------------------------------------------------------------------
(* What the catalog says of the nodes: the inductive invariant *)

ManagerTypes ==
  /\ catalog \in [db : BOOLEAN, set : BOOLEAN]
  /\ rpc \in [Requests -> {"unsent", "new", "broadcast", "done"}]
  /\ res \in [Requests -> BOOLEAN]
  /\ failureNodes \in [Requests -> SUBSET Nodes]
  /\ buzzed \in [Requests -> Nat]
  /\ thread \in [Requests -> [Nodes -> {"idle", "wait"}]]

idle(r) == {n \in Nodes : thread[r][n] = "idle"}
Waits(r, n) == thread[r][n] = "wait"

\* A broadcast runs as long as a thread of it waits; commands are sent by broadcasts.
Broadcasts ==
  /\ \A r \in Requests : rpc[r] \in {"unsent", "new"} => buzzed[r] = 0
  /\ \A r \in Requests : Running(r) => buzzed[r] = Cardinality(idle(r))
  /\ \A r \in Requests, n \in Nodes : Waits(r, n) => Running(r)
  /\ \A n \in Nodes : \A c \in copies[n] : rpc[c.req] \in {"broadcast", "done"}

\* The steps that a handler has.
Phase(h) ==
  \/ h.pc = h.op
  \/ h.pc = "insertDatabase" /\ h.op \in {"addDatabase", "addSet", "clearSet"}
  \/ h.pc \in {"addSet", "insertSet"} /\ h.op \in {"addSet", "clearSet"}
  \/ h.pc = "eraseSet" /\ h.op \in {"removeSet", "clearSet"}

Phases == \A n \in Nodes : \A c \in copies[n] : c.handler.op = c.req.op /\ Phase(c.handler)

\* Removals and other requests run at different times, and the catalog has what the others need.
Apart ==
  ~raced => \A r, q \in Requests : Running(r) /\ Running(q) => ~conflict(r, q)

CatalogHolds ==
  /\ catalog.set => catalog.db
  /\ ~raced => \A r \in Requests : Running(r) =>
       /\ r.op \in {"addDatabase", "addSet", "clearSet"} => catalog.db
       /\ r.op \in {"addSet", "clearSet"} => catalog.set

\* The set belongs to the database of the name, or to one that is gone for ever.
Sound(s) ==
  /\ s.name2id <= s.dbSeq /\ s.names2ids[1] <= s.dbSeq
  /\ s.names2ids # NoIds =>
       s.names2ids[1] # NoId /\ (s.names2ids[1] = s.name2id \/ s.names2ids[1] \notin s.dbs)

\* What a handler has found still holds, as far as it matters, though others overlap with it.
Found(s, h) ==
  /\ h.pc = "insertDatabase" =>
       h.ids[1] # NoId /\ h.ids[1] <= s.dbSeq /\ (h.ids[1] # s.names2ids[1] \/ s.names2ids[1] \in s.dbs)
  /\ h.pc = "insertSet" =>
       h.ids[1] = s.name2id /\ s.name2id # NoId /\ (s.names2ids = NoIds \/ s.names2ids[1] = s.name2id)
  /\ h.pc = "eraseSet" /\ h.op = "removeSet" => s.names2ids \in {h.ids, NoIds}

\* A node that has told a removal of its success has not got it any more.
Removed(r, n) ==
  Running(r) /\ r.op \in Removals /\ ~Waits(r, n) /\ n \notin failureNodes[r] =>
    /\ ~Usable(server[n])
    /\ r.op = "removeDatabase" => server[n].name2id = NoId

Undisturbed(n) == ~raced /\ n \notin missed \cup late

NodesSound ==
  \A n \in Nodes : Undisturbed(n) =>
    /\ Sound(server[n])
    /\ \A c \in copies[n] : Waits(c.req, n) => Found(server[n], c.handler)
    /\ \A r \in Requests : Removed(r, n)

\* A broadcast that is to change the node, or is to fail because it did not.
Changing(n) ==
  \E r \in Requests : /\ Running(r)
                      /\ \/ r.op \in Removals
                         \/ r.op = "addSet" /\ (Waits(r, n) \/ n \in failureNodes[r])

\* A handler of the node has found the set and is to insert it again.
Clearing(n) == \E c \in copies[n] : c.req.op = "clearSet" /\ c.handler.pc # "clearSet"

Follows(n) ==
  /\ ~catalog.db => server[n].name2id = NoId
  /\ catalog.db /\ server[n].name2id = NoId =>
       \E r \in Requests : /\ Running(r)
                           /\ r.op = "removeDatabase" \/ (r.op = "addDatabase" /\ Waits(r, n))
  /\ ~catalog.set => ~Usable(server[n])
  /\ catalog.set /\ ~Usable(server[n]) =>
       Changing(n) \/ (server[n].names2ids = NoIds /\ Clearing(n))

NodesFollow == Reported => \A n \in Nodes : Undisturbed(n) => Follows(n)

Namespaces ==
  /\ ManagerTypes /\ Broadcasts /\ Phases /\ Apart /\ CatalogHolds
  /\ NodesSound /\ NodesFollow

-----------------------------------------------------------------------------
(* What a step of a handler does to the tables, for the properties *)

SameNames(s, t) ==
  t.name2id = s.name2id /\ t.dbs = s.dbs /\ t.dbSeq = s.dbSeq /\ t.names2ids = s.names2ids

\* The cases of step(s, h), which leads to tables t and handler k.
Effect(s, h, t, k) ==
  \/ /\ h.pc = "addDatabase" /\ s.name2id # NoId
     /\ SameNames(s, t) /\ k.pc = "answer"
  \/ /\ h.pc \in {"addDatabase", "addSet"} /\ s.name2id = NoId
     /\ t.name2id = s.name2id /\ t.dbs = s.dbs /\ t.dbSeq = s.dbSeq + 1 /\ t.names2ids = s.names2ids
     /\ k.pc = "insertDatabase" /\ k.ids[1] = s.dbSeq + 1
  \/ /\ h.pc = "insertDatabase"
     /\ t.name2id = (IF s.name2id = NoId THEN h.ids[1] ELSE s.name2id)
     /\ t.dbs = s.dbs \cup {h.ids[1]} /\ t.dbSeq = s.dbSeq /\ t.names2ids = s.names2ids
     /\ k.pc = IF h.op = "addDatabase" THEN "answer" ELSE "addSet"
  \/ /\ h.pc = "addSet" /\ s.name2id # NoId /\ s.names2ids # NoIds
     /\ SameNames(s, t) /\ k.pc = "answer" /\ ~k.ans
  \/ /\ h.pc = "addSet" /\ s.name2id # NoId /\ s.names2ids = NoIds
     /\ SameNames(s, t) /\ k.pc = "insertSet" /\ k.ids[1] = s.name2id
  \/ /\ h.pc = "insertSet"
     /\ t.name2id = s.name2id /\ t.dbs = s.dbs /\ t.dbSeq = s.dbSeq
     /\ t.names2ids = (IF s.names2ids = NoIds THEN h.ids ELSE s.names2ids)
     /\ k.pc = "answer"
  \/ /\ h.pc \in {"removeSet", "clearSet"} /\ s.names2ids = NoIds
     /\ SameNames(s, t) /\ k.pc = "answer" /\ ~k.ans
  \/ /\ h.pc \in {"removeSet", "clearSet"} /\ s.names2ids # NoIds
     /\ SameNames(s, t) /\ k.pc = "eraseSet" /\ k.ids = s.names2ids
  \/ /\ h.pc = "eraseSet"
     /\ t.name2id = s.name2id /\ t.dbs = s.dbs /\ t.dbSeq = s.dbSeq
     /\ t.names2ids = (IF h.ids[1] \in s.dbs THEN NoIds ELSE s.names2ids)
     /\ k.pc = IF h.op = "removeSet" THEN "answer" ELSE "addSet"
  \/ /\ h.pc = "removeDatabase" /\ s.name2id = NoId
     /\ SameNames(s, t) /\ k.pc = "answer" /\ ~k.ans
  \/ /\ h.pc = "removeDatabase" /\ s.name2id # NoId
     /\ t.name2id = NoId /\ t.dbs = s.dbs \ {s.name2id} /\ t.dbSeq = s.dbSeq
     /\ t.names2ids = s.names2ids /\ k.pc = "answer"

\* A step has one of these effects, and leaves the operation as it is.
LEMMA StepEffect ==
  ASSUME NEW s \in ServerType, NEW h \in Handlers, Named(s)
  PROVE  step(s, h).handler.op = h.op /\ Effect(s, h, step(s, h).server, step(s, h).handler)
<1> DEFINE Ok(r) == r.handler.op = h.op /\ Effect(s, h, r.server, r.handler)
<1> USE DEF Result, ServerType
<1>1. h \in HandlerType BY DEF Handlers
<1>2. \A ids, ok : /\ Answer(h, ok).pc = "answer" /\ Answer(h, ok).ans = ok /\ Answer(h, ok).op = h.op
                   /\ \A pc : Then(h, pc, ids).pc = pc /\ Then(h, pc, ids).ids = ids /\ Then(h, pc, ids).op = h.op
  BY <1>1 DEF Answer, Then, HandlerType
<1>3. getSet(s) = s.names2ids BY DEF getSet, Named
<1>4. ASSUME s.name2id = NoId, h.pc \in {"addDatabase", "addSet"} PROVE Ok(newDatabase(s, h))
  <2> DEFINE t == newDatabase(s, h).server
             k == newDatabase(s, h).handler
  <2>1. t.name2id = s.name2id /\ t.dbs = s.dbs /\ t.dbSeq = s.dbSeq + 1 /\ t.names2ids = s.names2ids
    BY DEF newDatabase
  <2>2. k.op = h.op /\ k.pc = "insertDatabase" /\ k.ids[1] = s.dbSeq + 1 BY <1>2 DEF newDatabase
  <2> HIDE DEF t, k
  <2>3. Effect(s, h, t, k) BY <1>4, <2>1, <2>2 DEF Effect
  <2> QED BY <2>2, <2>3 DEF t, k
<1>5. ASSUME h.pc = "addDatabase" PROVE Ok(addDatabase(s, h))
  <2>1. CASE s.name2id = NoId BY <1>4, <1>5, <2>1 DEF addDatabase
  <2>2. CASE s.name2id # NoId BY <1>2, <1>5, <2>2 DEF addDatabase, Effect, SameNames
  <2> QED BY <2>1, <2>2
<1>6. ASSUME h.pc = "insertDatabase" PROVE Ok(insertDatabase(s, h))
  <2> DEFINE t == insertDatabase(s, h).server
             k == insertDatabase(s, h).handler
  <2>1. /\ t.name2id = (IF s.name2id = NoId THEN h.ids[1] ELSE s.name2id)
        /\ t.dbs = s.dbs \cup {h.ids[1]} /\ t.dbSeq = s.dbSeq /\ t.names2ids = s.names2ids
    BY DEF insertDatabase
  <2>2. k.op = h.op /\ k.pc = IF h.op = "addDatabase" THEN "answer" ELSE "addSet" BY <1>2 DEF insertDatabase
  <2> HIDE DEF t, k
  <2>3. Effect(s, h, t, k) BY <1>6, <2>1, <2>2 DEF Effect
  <2> QED BY <2>2, <2>3 DEF t, k
<1>7. ASSUME h.pc = "addSet" PROVE Ok(addSet(s, h))
  <2> DEFINE u == [s EXCEPT !.setSeq = s.setSeq + 1]
  <2>1. SameNames(s, u) BY DEF SameNames
  <2>2. CASE s.name2id = NoId BY <1>4, <1>7, <2>2 DEF addSet
  <2>3. CASE s.name2id # NoId /\ s.names2ids # NoIds
    <3>1. addSet(s, h) = Result(u, Answer(h, FALSE)) BY <1>3, <2>3 DEF addSet
    <3> HIDE DEF u
    <3>2. addSet(s, h).server = u /\ addSet(s, h).handler = Answer(h, FALSE) BY <3>1
    <3>3. Effect(s, h, u, Answer(h, FALSE)) BY <1>2, <1>7, <2>1, <2>3 DEF Effect
    <3> QED BY <1>2, <3>2, <3>3
  <2>4. CASE s.name2id # NoId /\ s.names2ids = NoIds
    <3>1. addSet(s, h) = Result(u, Then(h, "insertSet", <<s.name2id, s.setSeq + 1>>))
      BY <1>3, <2>4 DEF addSet
    <3> HIDE DEF u
    <3> QED BY <1>2, <1>7, <2>1, <2>4, <3>1 DEF Effect
  <2> QED BY <2>2, <2>3, <2>4
<1>8. ASSUME h.pc = "insertSet" PROVE Ok(insertSet(s, h))
  <2> DEFINE t == insertSet(s, h).server
             k == insertSet(s, h).handler
  <2>1. /\ t.name2id = s.name2id /\ t.dbs = s.dbs /\ t.dbSeq = s.dbSeq
        /\ t.names2ids = (IF s.names2ids = NoIds THEN h.ids ELSE s.names2ids)
    BY DEF insertSet
  <2>2. k.op = h.op /\ k.pc = "answer" BY <1>2 DEF insertSet
  <2> HIDE DEF t, k
  <2>3. Effect(s, h, t, k) BY <1>8, <2>1, <2>2 DEF Effect
  <2> QED BY <2>2, <2>3 DEF t, k
<1>9. ASSUME h.pc \in {"removeSet", "clearSet"} PROVE Ok(removeSet(s, h))
  <2>1. CASE s.names2ids = NoIds BY <1>2, <1>3, <1>9, <2>1 DEF removeSet, Effect, SameNames
  <2>2. CASE s.names2ids # NoIds BY <1>2, <1>3, <1>9, <2>2 DEF removeSet, Effect, SameNames
  <2> QED BY <2>1, <2>2
<1>10. ASSUME h.pc = "eraseSet" PROVE Ok(eraseSet(s, h))
  <2> DEFINE t == eraseSet(s, h).server
             k == eraseSet(s, h).handler
  <2>1. /\ t.name2id = s.name2id /\ t.dbs = s.dbs /\ t.dbSeq = s.dbSeq
        /\ t.names2ids = (IF h.ids[1] \in s.dbs THEN NoIds ELSE s.names2ids)
    BY DEF eraseSet, erased
  <2>2. k.op = h.op /\ k.pc = IF h.op = "removeSet" THEN "answer" ELSE "addSet" BY <1>2 DEF eraseSet
  <2> HIDE DEF t, k
  <2>3. Effect(s, h, t, k) BY <1>10, <2>1, <2>2 DEF Effect
  <2> QED BY <2>2, <2>3 DEF t, k
<1>11. ASSUME h.pc = "removeDatabase" PROVE Ok(removeDatabase(s, h))
  <2>1. CASE s.name2id = NoId BY <1>2, <1>11, <2>1 DEF removeDatabase, Effect, SameNames
  <2>2. CASE s.name2id # NoId
    <3> DEFINE t == removeDatabase(s, h).server
               k == removeDatabase(s, h).handler
    <3>1. /\ t.name2id = NoId /\ t.dbs = s.dbs \ {s.name2id} /\ t.dbSeq = s.dbSeq
          /\ t.names2ids = s.names2ids
      BY <2>2 DEF removeDatabase
    <3>2. k.op = h.op /\ k.pc = "answer" BY <1>2, <2>2 DEF removeDatabase
    <3> HIDE DEF t, k
    <3>3. Effect(s, h, t, k) BY <1>11, <2>2, <3>1, <3>2 DEF Effect
    <3> QED BY <3>2, <3>3 DEF t, k
  <2> QED BY <2>1, <2>2
<1>12. h.pc \in {"addDatabase", "insertDatabase", "addSet", "insertSet", "removeSet", "clearSet", "eraseSet",
                 "removeDatabase"}
  BY DEF Handlers, HandlerType, Ops, Removals
<1> HIDE DEF Ok
<1>13. Ok(step(s, h))
  BY <1>5, <1>6, <1>7, <1>8, <1>9, <1>10, <1>11, <1>12 DEF step
<1> QED BY <1>13 DEF Ok

\* The set is there if it has its name and the database of its id is there.
LEMMA UsableIs ==
  ASSUME NEW s \in ServerType, Named(s)
  PROVE  Usable(s) <=> s.names2ids # NoIds /\ s.names2ids[1] \in s.dbs
BY DEF Usable, getSet, Named

\* The step of a handler, and the kinds of requests that run it.
LEMMA StepPhase ==
  ASSUME NEW s, NEW t, NEW h \in Handlers, NEW k, k.op = h.op, Phase(h), Effect(s, h, t, k)
  PROVE  k.pc = "answer" \/ Phase(k)
<1>1. h.op \in Ops BY DEF Handlers, HandlerType
<1> QED BY <1>1 DEF Phase, Effect, Ops, Removals

\* A handler that finds things as it needs them leaves things so.
LEMMA StepSound ==
  ASSUME NEW s \in ServerType, NEW h \in Handlers, NEW t \in ServerType, NEW k, k.op = h.op, Named(s),
         Phase(h), Effect(s, h, t, k), Sound(s), Found(s, h)
  PROVE  Sound(t) /\ Found(t, k)
<1>1. /\ s.name2id \in Nat /\ s.dbSeq \in Nat /\ s.names2ids[1] \in Nat /\ h.ids[1] \in Nat
      /\ NoIds[1] = NoId /\ NoId = 0
  BY DEF ServerType, Ids, Handlers, HandlerType, NoIds, NoId
<1>2. s.name2id # NoId => s.name2id \in s.dbs BY DEF Named
<1>3. Sound(t)
  BY <1>1, <1>2 DEF Sound, Found, Effect, SameNames
<1>4. Found(t, k)
  BY <1>1, <1>2 DEF Sound, Found, Effect, SameNames
<1> QED BY <1>3, <1>4

\* It also leaves what another one of its kind has found.
LEMMA StepOthers ==
  ASSUME NEW s \in ServerType, NEW h \in Handlers, NEW t \in ServerType, NEW k, Named(s), Phase(h),
         Effect(s, h, t, k), Sound(s), Found(s, h),
         NEW g \in Handlers, Phase(g), Found(s, g), (g.op \in Removals) <=> (h.op \in Removals)
  PROVE  Found(t, g)
<1>1. /\ s.name2id \in Nat /\ s.dbSeq \in Nat /\ s.names2ids[1] \in Nat /\ h.ids[1] \in Nat /\ g.ids[1] \in Nat
      /\ NoIds[1] = NoId /\ NoId = 0
  BY DEF ServerType, Ids, Handlers, HandlerType, NoIds, NoId
<1>2. s.name2id # NoId => s.name2id \in s.dbs BY DEF Named
<1>3. CASE h.op \in Removals
  <2>1. g.pc \notin {"insertDatabase", "insertSet"} BY <1>3 DEF Phase, Removals
  <2>2. h.pc \in {"removeSet", "eraseSet", "removeDatabase"} BY <1>3 DEF Phase, Removals
  <2>3. t.names2ids \in {s.names2ids, NoIds} BY <2>2 DEF Effect, SameNames
  <2> QED BY <2>1, <2>3 DEF Found
<1>4. CASE h.op \notin Removals
  <2>1. g.op # "removeSet" /\ h.pc # "removeDatabase" BY <1>4 DEF Phase, Removals
  <2>2. t.dbSeq >= s.dbSeq /\ s.dbs \subseteq t.dbs BY <1>1, <2>1 DEF Effect, SameNames
  <2>3. s.name2id # NoId => t.name2id = s.name2id BY <2>1 DEF Effect, SameNames
  <2>4. \/ t.names2ids = s.names2ids \/ t.names2ids = NoIds
        \/ s.name2id # NoId /\ t.names2ids = h.ids /\ h.ids[1] = s.name2id
    BY <2>1 DEF Effect, SameNames, Found
  <2>5. t.dbSeq \in Nat BY DEF ServerType
  <2>6. g.pc = "insertDatabase" =>
          g.ids[1] # NoId /\ g.ids[1] <= t.dbSeq /\ (g.ids[1] # t.names2ids[1] \/ t.names2ids[1] \in t.dbs)
    BY <1>1, <1>2, <2>2, <2>4, <2>5 DEF Found
  <2>7. g.pc = "insertSet" =>
          g.ids[1] = t.name2id /\ t.name2id # NoId /\ (t.names2ids = NoIds \/ t.names2ids[1] = t.name2id)
    BY <2>3, <2>4 DEF Found
  <2> QED BY <2>1, <2>6, <2>7 DEF Found
<1> QED BY <1>3, <1>4

\* When a step makes or ends a database or a set.
LEMMA StepNames ==
  ASSUME NEW s \in ServerType, NEW h \in Handlers, NEW t \in ServerType, NEW k, Named(s), Named(t), Phase(h),
         Effect(s, h, t, k), Sound(s), Found(s, h)
  PROVE  /\ s.name2id = NoId /\ t.name2id # NoId => h.pc = "insertDatabase"
         /\ s.name2id # NoId /\ t.name2id = NoId => h.op = "removeDatabase"
         /\ ~Usable(s) /\ Usable(t) => h.pc = "insertSet"
         /\ Usable(s) /\ ~Usable(t) =>
              \/ h.op \in Removals
              \/ h.op = "clearSet" /\ t.names2ids = NoIds /\ k.pc = "addSet"
         /\ s.names2ids = NoIds => t.names2ids = NoIds \/ Usable(t)
         /\ s.names2ids = NoIds /\ h.op = "clearSet" /\ h.pc # "clearSet" =>
              Usable(t) \/ k.pc \notin {"answer", "clearSet"}
<1>1. /\ s.name2id \in Nat /\ s.dbSeq \in Nat /\ s.names2ids[1] \in Nat /\ h.ids[1] \in Nat
      /\ NoIds[1] = NoId /\ NoId = 0
  BY DEF ServerType, Ids, Handlers, HandlerType, NoIds, NoId
<1>2. s.name2id # NoId => s.name2id \in s.dbs BY DEF Named
<1>3. Usable(s) <=> s.names2ids # NoIds /\ s.names2ids[1] \in s.dbs BY UsableIs
<1>4. Usable(t) <=> t.names2ids # NoIds /\ t.names2ids[1] \in t.dbs BY UsableIs
<1>5. h.pc = "insertSet" => Usable(t) BY <1>1, <1>2, <1>4 DEF Effect, Found
<1>6. s.name2id = NoId /\ t.name2id # NoId => h.pc = "insertDatabase" BY DEF Effect, SameNames
<1>7. s.name2id # NoId /\ t.name2id = NoId => h.op = "removeDatabase" BY DEF Effect, SameNames, Phase
<1>8. ~Usable(s) /\ Usable(t) => h.pc = "insertSet" BY <1>1, <1>3, <1>4 DEF Effect, SameNames, Found
<1>9. Usable(s) /\ ~Usable(t) =>
              \/ h.op \in Removals
              \/ h.op = "clearSet" /\ t.names2ids = NoIds /\ k.pc = "addSet"
  <2>1. h.op \in Ops BY DEF Handlers, HandlerType
  <2>2. SUFFICES ASSUME Usable(s), ~Usable(t), h.op \notin Removals
                 PROVE  h.op = "clearSet" /\ t.names2ids = NoIds /\ k.pc = "addSet"
    OBVIOUS
  <2>3. t.names2ids # s.names2ids \/ t.dbs # s.dbs BY <1>3, <1>4, <2>2
  <2>4. h.pc \in {"insertDatabase", "insertSet", "eraseSet", "removeDatabase"} BY <2>3 DEF Effect, SameNames
  <2>5. h.pc # "insertDatabase" BY <1>3, <1>4, <2>2 DEF Effect
  <2>6. h.pc # "removeDatabase" BY <2>1, <2>2 DEF Phase, Removals
  <2>7. h.pc = "eraseSet" /\ h.op = "clearSet" BY <1>5, <2>1, <2>2, <2>4, <2>5, <2>6 DEF Phase, Ops, Removals
  <2> QED BY <2>3, <2>7 DEF Effect
<1>10. s.names2ids = NoIds => t.names2ids = NoIds \/ Usable(t) BY <1>5 DEF Effect, SameNames
<1>11. s.names2ids = NoIds /\ h.op = "clearSet" /\ h.pc # "clearSet" =>
              Usable(t) \/ k.pc \notin {"answer", "clearSet"}
  BY <1>5 DEF Effect, SameNames, Phase
<1> QED BY <1>6, <1>7, <1>8, <1>9, <1>10, <1>11

\* What the answers mean.
LEMMA StepAnswers ==
  ASSUME NEW s \in ServerType, NEW h \in Handlers, NEW t \in ServerType, NEW k, Named(s), Named(t), Phase(h),
         Effect(s, h, t, k), Sound(s), Found(s, h), k.pc = "answer"
  PROVE  /\ h.op = "addDatabase" => t.name2id # NoId
         /\ h.op = "addSet" /\ k.ans => Usable(t)
         /\ h.op \in Removals /\ k.ans => ~Usable(t)
         /\ h.op = "removeDatabase" /\ k.ans => t.name2id = NoId
<1>1. /\ s.name2id \in Nat /\ s.names2ids[1] \in Nat /\ h.ids[1] \in Nat /\ NoIds[1] = NoId /\ NoId = 0
  BY DEF ServerType, Ids, Handlers, HandlerType, NoIds, NoId
<1>2. s.name2id # NoId => s.name2id \in s.dbs BY DEF Named
<1>3. Usable(t) <=> t.names2ids # NoIds /\ t.names2ids[1] \in t.dbs BY UsableIs
<1>4. h.op = "addDatabase" => t.name2id # NoId BY <1>1 DEF Effect, SameNames, Phase, Found
<1>5. h.op = "addSet" /\ k.ans => Usable(t) BY <1>1, <1>2, <1>3 DEF Effect, SameNames, Phase, Found
<1>6. h.op = "removeSet" /\ k.ans => ~Usable(t) BY <1>3 DEF Effect, SameNames, Phase, Found
<1>7. h.op = "removeDatabase" /\ k.ans => ~Usable(t) /\ t.name2id = NoId
  BY <1>3 DEF Effect, SameNames, Phase, Sound
<1> QED BY <1>4, <1>5, <1>6, <1>7 DEF Removals

-----------------------------------------------------------------------------
(* Steps of threads and handlers *)

\* The thread of request r at node n has ended.
Ended(r, n) ==
  /\ thread' \in [Requests -> [Nodes -> {"idle", "wait"}]]
  /\ buzzed' \in [Requests -> Nat] /\ failureNodes' \in [Requests -> SUBSET Nodes]
  /\ \A q \in Requests, m \in Nodes :
       thread'[q][m] = IF q = r /\ m = n THEN "idle" ELSE thread[q][m]
  /\ \A q \in Requests : buzzed'[q] = IF q = r THEN buzzed[q] + 1 ELSE buzzed[q]
  /\ \A q \in Requests, m \in Nodes : m \in failureNodes[q] => m \in failureNodes'[q]
  /\ \A q \in Requests, m \in Nodes : m \in failureNodes'[q] => m \in failureNodes[q] \/ (q = r /\ m = n)

Goes == UNCHANGED <<thread, buzzed, failureNodes>>

\* Copies of a request that are still to be handled.
Sendings(r) == {Copy(r, k) : k \in Nat}

\* What endThread does to the threads.
LEMMA EndFacts ==
  ASSUME ManagerTypes, NEW r \in Requests, NEW n \in Nodes, NEW ans \in BOOLEAN, NEW err \in BOOLEAN,
         endThread(r, n, ans, err)
  PROVE  Ended(r, n) /\ (~ans /\ ~err => n \in failureNodes'[r])
<1> USE DEF ManagerTypes
<1>1. /\ thread' = [thread EXCEPT ![r] = [thread[r] EXCEPT ![n] = "idle"]]
      /\ buzzed' = [buzzed EXCEPT ![r] = buzzed[r] + 1]
      /\ \/ failureNodes' = failureNodes /\ (ans \/ err)
         \/ failureNodes' = [failureNodes EXCEPT ![r] = @ \cup {n}]
  BY DEF endThread, counted
<1>2. [thread[r] EXCEPT ![n] = "idle"] \in [Nodes -> {"idle", "wait"}] OBVIOUS
<1>3. thread' \in [Requests -> [Nodes -> {"idle", "wait"}]] BY <1>1, <1>2
<1>4. buzzed' \in [Requests -> Nat] /\ failureNodes' \in [Requests -> SUBSET Nodes] BY <1>1
<1>5. \A q \in Requests, m \in Nodes :
       thread'[q][m] = IF q = r /\ m = n THEN "idle" ELSE thread[q][m]
  BY <1>1
<1>6. \A q \in Requests : buzzed'[q] = IF q = r THEN buzzed[q] + 1 ELSE buzzed[q] BY <1>1
<1>7. \A q \in Requests, m \in Nodes :
        /\ m \in failureNodes[q] => m \in failureNodes'[q]
        /\ m \in failureNodes'[q] => m \in failureNodes[q] \/ (q = r /\ m = n)
  BY <1>1
<1>8. ~ans /\ ~err => n \in failureNodes'[r] BY <1>1
<1> QED BY <1>3, <1>4, <1>5, <1>6, <1>7, <1>8 DEF Ended

\* A thread whose connection breaks sends its command again or gives the node up.
Broke(r, n) ==
  /\ Waits(r, n) /\ UNCHANGED <<catalog, rpc, res, server, late, raced>> /\ missed \subseteq missed'
  /\ Goes \/ (Ended(r, n) /\ n \in missed')
  /\ \A m \in Nodes \ {n} : copies'[m] = copies[m]
  /\ copies'[n] \subseteq copies[n] \cup Sendings(r)
  /\ \A c \in copies[n] : c \in copies'[n] \/ c \in Sendings(r)

\* A retry leaves its thread as it is, or ends it and misses the node.
LEMMA RetryGoes ==
  ASSUME ManagerTypes, Tables, NEW r \in Requests, NEW n \in Nodes, NEW rest, retry(r, n, rest)
  PROVE  /\ (Goes /\ missed' = missed) \/ (Ended(r, n) /\ missed' = missed \cup {n})
         /\ \A m \in Nodes \ {n} : copies'[m] = copies[m]
         /\ rest \subseteq copies'[n] /\ copies'[n] \subseteq rest \cup Sendings(r)
<1>1. tries[r][n] \in Nat BY DEF Tables
<1>2. CASE tries[r][n] < MaxRetries
  <2>1. /\ copies' = [copies EXCEPT ![n] = rest \cup {Copy(r, tries[r][n] + 1)}]
        /\ UNCHANGED <<thread, buzzed, failureNodes, missed>>
    BY <1>2 DEF retry
  <2>2. Copy(r, tries[r][n] + 1) \in Sendings(r) BY <1>1 DEF Sendings
  <2>3. PICK again \in Sendings(r) : again = Copy(r, tries[r][n] + 1) BY <2>2
  <2>4. copies'[n] = rest \cup {again} /\ \A m \in Nodes \ {n} : copies'[m] = copies[m]
    BY <2>1, <2>3 DEF Tables
  <2> QED BY <2>1, <2>4 DEF Goes
<1>3. CASE ~(tries[r][n] < MaxRetries)
  <2>1. copies' = [copies EXCEPT ![n] = rest] /\ endThread(r, n, FALSE, TRUE) /\ missed' = missed \cup {n}
    BY <1>3 DEF retry
  <2>2. Ended(r, n) BY <2>1, EndFacts
  <2> QED BY <2>1, <2>2 DEF Tables
<1> QED BY <1>2, <1>3

\* Both ways a connection breaks are such steps.
LEMMA ThreadBroke ==
  ASSUME ManagerTypes, Tables, NEW r \in Requests, NEW n \in Nodes, disconnect(r, n) \/ unreachable(r, n)
  PROVE  Broke(r, n)
<1>1. tries[r][n] \in Nat BY DEF Tables
<1>2. Copy(r, tries[r][n]) \in Sendings(r) BY <1>1 DEF Sendings
<1>3. Waits(r, n) /\ UNCHANGED <<catalog, rpc, res, server, late, raced>>
  BY DEF disconnect, unreachable, Waits, managerVars
<1>4. CASE disconnect(r, n)
  <2>1. PICK lost \in SUBSET {Copy(r, tries[r][n])} : retry(r, n, copies[n] \ lost) BY <1>4 DEF disconnect
  <2>2. PICK rest : rest = copies[n] \ lost OBVIOUS
  <2>3. retry(r, n, rest) BY <2>1, <2>2 DEF retry
  <2>4. /\ (Goes /\ missed' = missed) \/ (Ended(r, n) /\ missed' = missed \cup {n})
        /\ \A m \in Nodes \ {n} : copies'[m] = copies[m]
        /\ rest \subseteq copies'[n] /\ copies'[n] \subseteq rest \cup Sendings(r)
    BY <2>3, RetryGoes
  <2>5. copies'[n] \subseteq copies[n] \cup Sendings(r) BY <2>2, <2>4
  <2>6. \A c \in copies[n] : c \in copies'[n] \/ c \in Sendings(r) BY <1>2, <2>2, <2>4
  <2>7. missed \subseteq missed' /\ (Goes \/ (Ended(r, n) /\ n \in missed')) BY <2>4
  <2> QED BY <1>3, <2>4, <2>5, <2>6, <2>7 DEF Broke
<1>5. CASE unreachable(r, n)
  <2>1. PICK lost \in SUBSET {Copy(r, tries[r][n])} : copies' = [copies EXCEPT ![n] = @ \ lost]
    BY <1>5 DEF unreachable
  <2>2. endThread(r, n, FALSE, TRUE) /\ missed' = missed \cup {n} BY <1>5 DEF unreachable
  <2>3. Ended(r, n) BY <2>2, EndFacts
  <2>4. copies'[n] = copies[n] \ lost /\ \A m \in Nodes \ {n} : copies'[m] = copies[m] BY <2>1 DEF Tables
  <2>5. \A c \in copies[n] : c \in copies'[n] \/ c \in Sendings(r) BY <1>2, <2>4
  <2> QED BY <1>3, <2>2, <2>3, <2>4, <2>5 DEF Broke
<1> QED BY <1>4, <1>5

\* A handler takes a step, from h to k, and the tables change from s to t; if it answers, its
\* thread gets the answer, or not.
Handled(n, c, t, k) ==
  /\ server' = [server EXCEPT ![n] = t] /\ UNCHANGED <<catalog, rpc, res, raced>>
  /\ missed \subseteq missed' /\ late \subseteq late' /\ (Waits(c.req, n) \/ n \in late')
  /\ \/ Goes
     \/ /\ Waits(c.req, n) /\ k.pc = "answer" /\ Ended(c.req, n)
        /\ n \in missed' \/ k.ans \/ n \in failureNodes'[c.req]
  /\ \A m \in Nodes \ {n} : copies'[m] = copies[m]
  /\ copies[n] \ {c} \subseteq copies'[n]
  /\ \A e \in copies'[n] :
       \/ e \in copies[n] \ {c}
       \/ e.req = c.req /\ e.handler = k /\ k.pc # "answer"
       \/ Waits(c.req, n) /\ e \in Sendings(c.req)
  /\ k.pc # "answer" => \E e \in copies'[n] : e.req = c.req /\ e.handler = k

\* The step of a handler is such a step.
LEMMA NodeHandles ==
  ASSUME ManagerTypes, Tables, NEW n \in Nodes, NEW c \in copies[n], handle(n, c)
  PROVE  Handled(n, c, step(server[n], c.handler).server, step(server[n], c.handler).handler)
<1> DEFINE done == step(server[n], c.handler)
           next == [c EXCEPT !.handler = done.handler]
<1>1. c \in Commands /\ c.req \in Requests /\ c.handler \in Handlers /\ server[n] \in ServerType
  BY DEF Tables, Commands
<1>2. done.handler \in HandlerType BY <1>1, StepTyped
<1>3. done.handler.ans \in BOOLEAN BY <1>2 DEF HandlerType
<1>4. next.req = c.req /\ next.handler = done.handler BY <1>1 DEF Commands
<1>5. /\ server' = [server EXCEPT ![n] = done.server]
      /\ late' = IF thread[c.req][n] = "wait" THEN late ELSE late \cup {n}
      /\ UNCHANGED <<catalog, rpc, res, raced>>
  BY DEF handle, managerVars
<1>6. late \subseteq late' /\ (Waits(c.req, n) \/ n \in late') BY <1>5 DEF Waits
<1>7. PICK rest : rest = copies[n] \ {c} OBVIOUS
<1>8. \/ /\ done.handler.pc # "answer" /\ copies' = [copies EXCEPT ![n] = rest \cup {next}]
         /\ UNCHANGED <<threadVars, missed>>
      \/ /\ done.handler.pc = "answer" /\ copies' = [copies EXCEPT ![n] = rest]
         /\ UNCHANGED <<threadVars, missed>>
      \/ /\ done.handler.pc = "answer" /\ Waits(c.req, n) /\ copies' = [copies EXCEPT ![n] = rest]
         /\ endThread(c.req, n, done.handler.ans, FALSE) /\ UNCHANGED missed
      \/ done.handler.pc = "answer" /\ Waits(c.req, n) /\ retry(c.req, n, rest)
  BY <1>7 DEF handle, Current, Waits, retry
<1> HIDE DEF done, next
<1>9. PICK t : t = done.server OBVIOUS
<1>10. PICK k : k = done.handler OBVIOUS
<1>11. next.req = c.req /\ next.handler = k BY <1>4, <1>10
<1>12. server' = [server EXCEPT ![n] = t] /\ UNCHANGED <<catalog, rpc, res, raced>> BY <1>5, <1>9
<1>13. SUFFICES Handled(n, c, t, k) BY <1>9, <1>10 DEF done
<1>14. k.ans \in BOOLEAN BY <1>3, <1>10
<1>15. CASE /\ k.pc # "answer" /\ copies' = [copies EXCEPT ![n] = rest \cup {next}]
           /\ UNCHANGED <<threadVars, missed>>
  <2>1. copies'[n] = rest \cup {next} /\ \A m \in Nodes \ {n} : copies'[m] = copies[m] BY <1>15 DEF Tables
  <2>2. Goes /\ missed \subseteq missed' BY <1>15 DEF Goes, threadVars
  <2>3. \A e \in copies'[n] : e \in copies[n] \ {c} \/ (e.req = c.req /\ e.handler = k)
    BY <1>11, <1>7, <2>1
  <2>4. \E e \in copies'[n] : e.req = c.req /\ e.handler = k BY <1>11, <2>1
  <2> QED BY <1>12, <1>6, <1>7, <1>15, <2>1, <2>2, <2>3, <2>4 DEF Handled
<1>16. CASE /\ k.pc = "answer" /\ copies' = [copies EXCEPT ![n] = rest]
            /\ UNCHANGED <<threadVars, missed>>
  <2>1. copies'[n] = rest /\ \A m \in Nodes \ {n} : copies'[m] = copies[m] BY <1>16 DEF Tables
  <2>2. Goes /\ missed \subseteq missed' BY <1>16 DEF Goes, threadVars
  <2> QED BY <1>12, <1>6, <1>7, <1>16, <2>1, <2>2 DEF Handled
<1>17. CASE /\ k.pc = "answer" /\ Waits(c.req, n) /\ copies' = [copies EXCEPT ![n] = rest]
            /\ endThread(c.req, n, k.ans, FALSE) /\ UNCHANGED missed
  <2>1. copies'[n] = rest /\ \A m \in Nodes \ {n} : copies'[m] = copies[m] BY <1>17 DEF Tables
  <2>2. PICK ans \in BOOLEAN : ans = k.ans BY <1>14
  <2>3. endThread(c.req, n, ans, FALSE) BY <1>17, <2>2
  <2>4. Ended(c.req, n) /\ (~ans => n \in failureNodes'[c.req]) BY <1>1, <2>3, EndFacts
  <2> QED BY <1>12, <1>6, <1>7, <1>17, <2>1, <2>2, <2>4 DEF Handled
<1>18. CASE k.pc = "answer" /\ Waits(c.req, n) /\ retry(c.req, n, rest)
  <2>1. /\ (Goes /\ missed' = missed) \/ (Ended(c.req, n) /\ missed' = missed \cup {n})
        /\ \A m \in Nodes \ {n} : copies'[m] = copies[m]
        /\ rest \subseteq copies'[n] /\ copies'[n] \subseteq rest \cup Sendings(c.req)
    BY <1>1, <1>18, RetryGoes
  <2>2. missed \subseteq missed' /\ (Goes \/ (Ended(c.req, n) /\ n \in missed')) BY <2>1
  <2>3. \A e \in copies'[n] : e \in copies[n] \ {c} \/ e \in Sendings(c.req) BY <1>7, <2>1
  <2> QED BY <1>12, <1>6, <1>7, <1>18, <2>1, <2>2, <2>3 DEF Handled
<1> QED BY <1>8, <1>10, <1>15, <1>16, <1>17, <1>18

\* What a command that is sent looks like.
LEMMA SendingFacts ==
  ASSUME NEW r \in Requests, NEW c \in Sendings(r)
  PROVE  /\ c.req = r /\ c.handler.op = r.op /\ c.handler.pc = r.op /\ Phase(c.handler)
         /\ \A s : Found(s, c.handler)
<1>1. r.op \in Ops BY DistributedStorageAssumption
<1>2. c.req = r /\ c.handler = [op |-> r.op, pc |-> r.op, ids |-> NoIds, ans |-> FALSE]
  <2>1. PICK k \in Nat : c = Copy(r, k) BY DEF Sendings
  <2> QED BY <2>1 DEF Copy, newHandler
<1> QED BY <1>1, <1>2 DEF Phase, Found, Ops, Removals

-----------------------------------------------------------------------------
(* What does not depend on the tables of the nodes *)

\* The parts of the invariant that speak of the manager
ManagerInv == ManagerTypes /\ Broadcasts /\ Phases /\ Apart /\ CatalogHolds

\* A broadcast is over when none of its threads waits any more.
LEMMA FinishedIdle ==
  ASSUME ManagerTypes, Broadcasts, NEW r \in Requests, finish(r)
  PROVE  \A n \in Nodes : ~ Waits(r, n)
<1>1. buzzed[r] >= Cardinality(Nodes) /\ buzzed[r] = Cardinality(idle(r))
  BY DEF finish, receivers, Broadcasts
<1>2. IsFiniteSet(Nodes) BY DistributedStorageAssumption
<1>3. idle(r) \in SUBSET Nodes BY DEF idle
<1>4. Cardinality(Nodes) \in Nat /\ Cardinality(idle(r)) \in Nat BY <1>2, <1>3, FS_CardinalityType, FS_Subset
<1>5. Cardinality(idle(r)) <= Cardinality(Nodes) BY <1>2, <1>3, FS_Subset
<1>6. Cardinality(idle(r)) = Cardinality(Nodes) BY <1>1, <1>4, <1>5
<1>7. idle(r) = Nodes BY <1>2, <1>3, <1>6, FS_Subset
<1> QED BY <1>7 DEF idle, Waits

\* The end of a thread is counted.
LEMMA EndCounted ==
  ASSUME ManagerTypes, Broadcasts, NEW r \in Requests, NEW n \in Nodes, Waits(r, n), Ended(r, n),
         UNCHANGED rpc
  PROVE  \A q \in Requests : Running(q)' => buzzed'[q] = Cardinality(idle(q)')
<1> SUFFICES ASSUME NEW q \in Requests, Running(q)' PROVE buzzed'[q] = Cardinality(idle(q)') OBVIOUS
<1>1. buzzed[q] = Cardinality(idle(q)) BY DEF Running, Broadcasts
<1>2. CASE q # r
  <2>1. idle(q)' = idle(q) BY <1>2 DEF idle, Ended
  <2> QED BY <1>1, <1>2, <2>1 DEF Ended
<1>3. CASE q = r
  <2>1. idle(r)' = idle(r) \cup {n} BY DEF idle, Ended
  <2>2. n \notin idle(r) BY DEF idle, Waits
  <2>3. IsFiniteSet(idle(r))
    <3>1. idle(r) \in SUBSET Nodes BY DEF idle
    <3> QED BY <3>1, DistributedStorageAssumption, FS_Subset
  <2>4. Cardinality(idle(r) \cup {n}) = Cardinality(idle(r)) + 1 BY <2>2, <2>3, FS_AddElement
  <2> QED BY <1>1, <1>3, <2>1, <2>4 DEF Ended
<1> QED BY <1>2, <1>3

\* A handler of the manager that does not begin a broadcast
LEMMA AnswerKeepsManager ==
  ASSUME ManagerInv, NEW r \in Requests, refuse(r) \/ catalogFails(r) \/ finish(r)
  PROVE  ManagerInv'
<1> USE DEF ManagerInv
<1>1. UNCHANGED <<failureNodes, buzzed, thread, copies, raced>>
  BY DEF refuse, catalogFails, finish, threadVars, historyVars
<1>2. rpc' = [rpc EXCEPT ![r] = "done"] BY DEF refuse, catalogFails, finish
<1>3. \A q \in Requests : rpc'[q] = IF q = r THEN "done" ELSE rpc[q] BY <1>2 DEF ManagerTypes
<1>4. \A q \in Requests : Running(q)' => Running(q) /\ q # r BY <1>3 DEF Running
<1>5. r.op \in Ops BY DistributedStorageAssumption
<1>6. \/ refuse(r) /\ catalog' = catalog
      \/ /\ catalogFails(r) /\ admitted(r)
         /\ catalog' = [db |-> catalog.db \/ r.op = "addDatabase", set |-> catalog.set \/ r.op = "addSet"]
      \/ finish(r) /\ catalog' = catalog
      \/ /\ finish(r) /\ r.op \in Removals /\ catalog' = catalogAfter(r)
         /\ catalog' = [db |-> r.op = "removeSet" /\ catalog.db, set |-> FALSE]
  <2>1. CASE refuse(r) BY <2>1 DEF refuse
  <2>2. CASE catalogFails(r) BY <2>2 DEF catalogFails, catalogBefore
  <2>3. CASE finish(r)
    <3>1. catalog' = catalog \/ (r.op \in Removals /\ catalog' = catalogAfter(r))
      BY <1>5, <2>3 DEF finish, Ops, Removals
    <3>2. r.op \in Removals => catalogAfter(r) = [db |-> r.op = "removeSet" /\ catalog.db, set |-> FALSE]
      BY DEF catalogAfter, Removals, ManagerTypes
    <3> QED BY <2>3, <3>1, <3>2
  <2> QED BY <2>1, <2>2, <2>3
<1>7. catalog' \in [db : BOOLEAN, set : BOOLEAN]
  <2>1. CASE catalog' = catalog BY <2>1 DEF ManagerTypes
  <2>2. CASE catalog' = [db |-> catalog.db \/ r.op = "addDatabase", set |-> catalog.set \/ r.op = "addSet"]
    BY <2>2 DEF ManagerTypes
  <2>3. CASE catalog' = [db |-> r.op = "removeSet" /\ catalog.db, set |-> FALSE]
    BY <2>3 DEF ManagerTypes
  <2> QED BY <1>6, <2>1, <2>2, <2>3
<1>8. ManagerTypes'
  <2>1. rpc' \in [Requests -> {"unsent", "new", "broadcast", "done"}] BY <1>2 DEF ManagerTypes
  <2>2. res' \in [Requests -> BOOLEAN]
    <3>1. allSucceeded(r) \in BOOLEAN /\ (catalogAfter(r) # catalog) \in BOOLEAN BY DEF allSucceeded
    <3> QED BY <1>5, <3>1 DEF ManagerTypes, refuse, catalogFails, finish, Removals, Ops
  <2> QED BY <1>1, <1>7, <2>1, <2>2 DEF ManagerTypes
<1>9. Broadcasts'
  <2>1. \A q \in Requests : idle(q)' = idle(q) BY <1>1 DEF idle
  <2>2. \A n \in Nodes : ~ Waits(r, n)
    <3>1. CASE finish(r) BY <3>1, FinishedIdle
    <3>2. CASE refuse(r) \/ catalogFails(r)
      <4>1. ~ Running(r) BY <3>2 DEF refuse, catalogFails, Sent, Running
      <4> QED BY <4>1 DEF Broadcasts
    <3> QED BY <3>1, <3>2
  <2>3. \A q \in Requests : rpc'[q] \in {"unsent", "new"} => buzzed'[q] = 0
    BY <1>1, <1>3 DEF Broadcasts
  <2>4. \A q \in Requests : Running(q)' => buzzed'[q] = Cardinality(idle(q)')
    BY <1>1, <1>4, <2>1 DEF Broadcasts
  <2>5. \A q \in Requests, n \in Nodes : Waits(q, n)' => Running(q)'
    BY <1>1, <1>3, <2>2 DEF Broadcasts, Waits, Running
  <2>6. \A n \in Nodes : \A c \in copies'[n] : rpc'[c.req] \in {"broadcast", "done"}
    BY <1>1, <1>2 DEF Broadcasts, ManagerTypes
  <2> QED BY <2>3, <2>4, <2>5, <2>6 DEF Broadcasts
<1>10. Phases' BY <1>1 DEF Phases
<1>11. Apart' BY <1>1, <1>4 DEF Apart, conflict
<1>12. CatalogHolds'
  <2>1. ASSUME catalogFails(r), admitted(r),
               catalog' = [db |-> catalog.db \/ r.op = "addDatabase", set |-> catalog.set \/ r.op = "addSet"]
        PROVE  CatalogHolds'
    <3>1. r.op = "addSet" => catalog.db BY <2>1 DEF admitted
    <3> QED BY <1>1, <1>4, <2>1, <3>1 DEF CatalogHolds
  <2>2. CASE catalog' = catalog BY <1>1, <1>4, <2>2 DEF CatalogHolds
  <2>3. ASSUME finish(r), r.op \in Removals, catalog' = [db |-> r.op = "removeSet" /\ catalog.db, set |-> FALSE]
        PROVE  CatalogHolds'
    <3>1. catalog'.set = FALSE BY <2>3
    <3>2. ASSUME NEW q \in Requests, Running(q)', ~raced' PROVE q.op \in Removals
      BY <1>1, <1>4, <2>3, <3>2 DEF Apart, conflict, finish
    <3> QED BY <3>1, <3>2 DEF CatalogHolds, Removals
  <2> QED BY <1>6, <2>1, <2>2, <2>3
<1> QED BY <1>8, <1>9, <1>10, <1>11, <1>12

\* A broadcast that begins
LEMMA BeginKeepsManager ==
  ASSUME ManagerInv, NEW r \in Requests, begin(r)
  PROVE  ManagerInv'
<1> USE DEF ManagerInv
<1>1. UNCHANGED <<failureNodes, buzzed, res>> BY DEF begin
<1>2. \A q \in Requests : rpc'[q] = IF q = r THEN "broadcast" ELSE rpc[q] BY DEF begin, ManagerTypes
<1>3. \A q \in Requests, n \in Nodes : thread'[q][n] = IF q = r THEN "wait" ELSE thread[q][n]
  BY DEF begin, ManagerTypes
<1>4. r.op \in Ops BY DistributedStorageAssumption
<1>5. rpc[r] = "new" /\ admitted(r) BY DEF begin, Sent
<1>6. \A q \in Requests : Running(q)' <=> Running(q) \/ q = r BY <1>2 DEF Running
<1>7. catalog' = [db |-> catalog.db \/ r.op = "addDatabase", set |-> catalog.set \/ r.op = "addSet"]
  BY DEF begin, catalogBefore
<1>8. \A n \in Nodes : \A c \in copies'[n] : c \in copies[n] \/ c = Copy(r, 0) BY DEF begin
<1>9. Copy(r, 0) \in Sendings(r) BY DEF Sendings
<1>10. ManagerTypes'
  <2>1. catalog' \in [db : BOOLEAN, set : BOOLEAN] BY <1>7 DEF ManagerTypes
  <2>2. rpc' \in [Requests -> {"unsent", "new", "broadcast", "done"}] BY DEF begin, ManagerTypes
  <2>3. thread' \in [Requests -> [Nodes -> {"idle", "wait"}]] BY DEF begin, ManagerTypes
  <2> QED BY <1>1, <2>1, <2>2, <2>3 DEF ManagerTypes
<1>11. Broadcasts'
  <2>1. \A q \in Requests : rpc'[q] \in {"unsent", "new"} => buzzed'[q] = 0
    BY <1>1, <1>2 DEF Broadcasts
  <2>2. ASSUME NEW q \in Requests, Running(q)' PROVE buzzed'[q] = Cardinality(idle(q)')
    <3>1. CASE q = r
      <4>1. idle(q)' = {} BY <1>3, <3>1 DEF idle
      <4> QED BY <1>1, <1>5, <3>1, <4>1, FS_EmptySet DEF Broadcasts
    <3>2. CASE q # r
      <4>1. idle(q)' = idle(q) BY <1>3, <3>2 DEF idle
      <4> QED BY <1>1, <1>6, <2>2, <3>2, <4>1 DEF Broadcasts
    <3> QED BY <3>1, <3>2
  <2>3. \A q \in Requests, n \in Nodes : Waits(q, n)' => Running(q)'
    BY <1>3, <1>6 DEF Broadcasts, Waits
  <2>4. \A n \in Nodes : \A c \in copies'[n] : rpc'[c.req] \in {"broadcast", "done"}
    <3> SUFFICES ASSUME NEW n \in Nodes, NEW c \in copies'[n] PROVE rpc'[c.req] \in {"broadcast", "done"}
      OBVIOUS
    <3>1. CASE c \in copies[n] BY <3>1 DEF Broadcasts, begin, ManagerTypes
    <3>2. CASE c = Copy(r, 0) BY <1>2, <1>9, <3>2, SendingFacts
    <3> QED BY <1>8, <3>1, <3>2
  <2> QED BY <2>1, <2>2, <2>3, <2>4 DEF Broadcasts
<1>12. Phases'
  <2>1. Copy(r, 0).req = r /\ Copy(r, 0).handler.op = r.op /\ Phase(Copy(r, 0).handler)
    BY <1>9, SendingFacts
  <2> QED BY <1>8, <2>1 DEF Phases
<1>13. Apart' BY <1>6 DEF begin, Apart, conflict
<1>14. CatalogHolds'
  <2>1. /\ r.op \in {"addSet", "removeDatabase"} => catalog.db
        /\ r.op = "clearSet" => catalog.set
    BY <1>4, <1>5 DEF admitted, Ops, Removals
  <2>2. ~raced' => ~raced BY DEF begin
  <2> QED BY <1>6, <1>7, <2>1, <2>2 DEF CatalogHolds, ManagerTypes
<1> QED BY <1>10, <1>11, <1>12, <1>13, <1>14

\* Threads and handlers of nodes
LEMMA NodeKeepsManager ==
  ASSUME ManagerInv, NEW r \in Requests, NEW n \in Nodes, UNCHANGED <<catalog, rpc, res, raced>>,
         Goes \/ (Waits(r, n) /\ Ended(r, n)),
         \A m \in Nodes \ {n} : copies'[m] = copies[m],
         \A e \in copies'[n] : \/ e \in copies[n]
                               \/ e \in Sendings(r) /\ Waits(r, n)
                               \/ /\ e.handler.op = e.req.op /\ Phase(e.handler)
                                  /\ \E c \in copies[n] : e.req = c.req
  PROVE  ManagerInv'
<1> USE DEF ManagerInv
<1>1. ManagerTypes' BY DEF ManagerTypes, Goes, Ended
<1>2. Broadcasts'
  <2>1. \A q \in Requests : rpc'[q] \in {"unsent", "new"} => buzzed'[q] = 0
    BY DEF Broadcasts, Goes, Ended, Running
  <2>2. \A q \in Requests : Running(q)' => buzzed'[q] = Cardinality(idle(q)')
    <3>1. CASE Goes BY <3>1 DEF Goes, Broadcasts, idle, Running
    <3>2. CASE Waits(r, n) /\ Ended(r, n) BY <3>2, EndCounted
    <3> QED BY <3>1, <3>2
  <2>3. \A q \in Requests, m \in Nodes : Waits(q, m)' => Running(q)'
    BY DEF Broadcasts, Waits, Running, Goes, Ended
  <2>4. ASSUME NEW m \in Nodes, NEW e \in copies'[m] PROVE rpc'[e.req] \in {"broadcast", "done"}
    <3>1. CASE e \in Sendings(r) /\ Waits(r, n) BY <3>1, SendingFacts DEF Broadcasts, Running
    <3>2. CASE \E c \in copies[m] : e.req = c.req BY <3>2 DEF Broadcasts
    <3> QED BY <2>4, <3>1, <3>2
  <2> QED BY <2>1, <2>2, <2>3, <2>4 DEF Broadcasts
<1>3. Phases'
  <2> SUFFICES ASSUME NEW m \in Nodes, NEW e \in copies'[m]
               PROVE  e.handler.op = e.req.op /\ Phase(e.handler)
    BY DEF Phases
  <2>1. CASE e \in Sendings(r) BY <2>1, SendingFacts
  <2>2. CASE e \in copies[m] BY <2>2 DEF Phases
  <2> QED BY <2>1, <2>2
<1>4. Apart' /\ CatalogHolds' BY DEF Apart, CatalogHolds, Running
<1> QED BY <1>1, <1>2, <1>3, <1>4

-----------------------------------------------------------------------------
(* What the nodes have found, and what removals have left *)

\* A handler of a node, its step and what it leads to
HandlerStep(n, c, t, k) ==
  /\ Handled(n, c, t, k) /\ Effect(server[n], c.handler, t, k) /\ k.op = c.handler.op
  /\ t \in ServerType /\ Named(t) /\ server[n] \in ServerType /\ Named(server[n])
  /\ c \in copies[n] /\ c.req \in Requests /\ c.handler \in Handlers

\* A handler that is stepped takes such a step.
LEMMA HandlerSteps ==
  ASSUME Inv, ManagerTypes, NEW n \in Nodes, NEW c \in copies[n], handle(n, c)
  PROVE  \E t, k : HandlerStep(n, c, t, k)
<1>1. c.req \in Requests /\ c.handler \in Handlers /\ server[n] \in ServerType /\ Named(server[n])
  BY DEF Inv, Tables, Commands, NoNodeDangles
<1>2. PICK t : t = step(server[n], c.handler).server OBVIOUS
<1>3. PICK k : k = step(server[n], c.handler).handler OBVIOUS
<1>4. Handled(n, c, t, k) BY <1>2, <1>3, NodeHandles DEF Inv
<1>5. t \in ServerType BY <1>1, <1>2, StepTyped
<1>6. Named(t) BY <1>1, <1>2, StepNamed
<1>7. k.op = c.handler.op /\ Effect(server[n], c.handler, t, k) BY <1>1, <1>2, <1>3, StepEffect
<1> QED BY <1>1, <1>4, <1>5, <1>6, <1>7 DEF HandlerStep

\* Steps that leave the tables alone
LEMMA SoundAlone ==
  ASSUME NodesSound, UNCHANGED server, raced => raced', missed \subseteq missed', late \subseteq late',
         \A n \in Nodes : Undisturbed(n)' =>
           /\ \A c \in copies'[n] : Waits(c.req, n)' =>
                (c \in copies[n] /\ Waits(c.req, n)) \/ (\E q \in Requests : c \in Sendings(q))
           /\ \A q \in Requests : Running(q)' /\ ~ Waits(q, n)' /\ n \notin failureNodes'[q] =>
                Running(q) /\ ~ Waits(q, n) /\ n \notin failureNodes[q]
  PROVE  NodesSound'
<1> SUFFICES ASSUME NEW n \in Nodes, Undisturbed(n)'
             PROVE  /\ Sound(server'[n])
                    /\ \A c \in copies'[n] : Waits(c.req, n)' => Found(server'[n], c.handler)
                    /\ \A q \in Requests : Removed(q, n)'
  BY DEF NodesSound
<1>1. Undisturbed(n) BY DEF Undisturbed
<1>2. Sound(server'[n]) BY <1>1 DEF NodesSound
<1>3. ASSUME NEW c \in copies'[n], Waits(c.req, n)' PROVE Found(server'[n], c.handler)
  <2>1. CASE c \in copies[n] /\ Waits(c.req, n) BY <1>1, <2>1 DEF NodesSound
  <2>2. CASE \E q \in Requests : c \in Sendings(q) BY <2>2, SendingFacts
  <2> QED BY <1>3, <2>1, <2>2
<1>4. ASSUME NEW q \in Requests PROVE Removed(q, n)'
  <2>1. Removed(q, n) BY <1>1 DEF NodesSound
  <2> QED BY <2>1 DEF Removed
<1> QED BY <1>2, <1>3, <1>4

\* The handlers of the manager
LEMMA ManagerKeepsSound ==
  ASSUME ManagerInv, NodesSound, NEW r \in Requests, refuse(r) \/ catalogFails(r) \/ begin(r) \/ finish(r)
  PROVE  NodesSound'
<1>1. CASE refuse(r) \/ catalogFails(r) \/ finish(r)
  <2>1. UNCHANGED <<failureNodes, thread, server, copies, raced, missed, late>>
        /\ rpc' = [rpc EXCEPT ![r] = "done"]
    BY <1>1 DEF refuse, catalogFails, finish, threadVars, historyVars
  <2>2. \A q \in Requests : Running(q)' => Running(q) BY <2>1 DEF Running, ManagerInv, ManagerTypes
  <2> QED BY <2>1, <2>2, SoundAlone DEF Waits
<1>2. CASE begin(r)
  <2>1. UNCHANGED <<failureNodes, server, missed, late>> /\ (raced => raced') BY <1>2 DEF begin
  <2>2. \A q \in Requests : q # r => (Running(q)' => Running(q)) BY <1>2 DEF begin, Running, ManagerInv, ManagerTypes
  <2>3. \A q \in Requests, n \in Nodes : Waits(q, n)' <=> Waits(q, n) \/ q = r
    BY <1>2 DEF begin, Waits, ManagerInv, ManagerTypes
  <2>4. ASSUME NEW n \in Nodes, NEW c \in copies'[n], Waits(c.req, n)'
        PROVE  (c \in copies[n] /\ Waits(c.req, n)) \/ (\E q \in Requests : c \in Sendings(q))
    <3>1. c \in copies[n] \/ c = Copy(r, 0) BY <1>2, <2>4 DEF begin
    <3>2. Copy(r, 0) \in Sendings(r) BY DEF Sendings
    <3>3. c \in copies[n] => rpc[c.req] \in {"broadcast", "done"} BY DEF ManagerInv, Broadcasts
    <3>4. rpc[r] = "new" BY <1>2 DEF begin, Sent
    <3>5. c \in copies[n] => Waits(c.req, n) BY <1>2, <2>4, <3>3, <3>4 DEF begin, Waits, ManagerInv, ManagerTypes
    <3> QED BY <3>1, <3>2, <3>5
  <2> QED BY <2>1, <2>2, <2>3, <2>4, SoundAlone
<1> QED BY <1>1, <1>2

\* A broken connection: a thread that ends misses its node.
LEMMA BrokeKeepsSound ==
  ASSUME Tables, ManagerInv, NodesSound, NEW r \in Requests, NEW n \in Nodes, Broke(r, n)
  PROVE  NodesSound'
<1>1. UNCHANGED <<rpc, server, raced, late>> /\ missed \subseteq missed' BY DEF Broke
<1>2. SUFFICES ASSUME NEW m \in Nodes, Undisturbed(m)'
      PROVE  /\ \A c \in copies'[m] : Waits(c.req, m)' =>
                  (c \in copies[m] /\ Waits(c.req, m)) \/ (\E q \in Requests : c \in Sendings(q))
             /\ \A q \in Requests : Running(q)' /\ ~ Waits(q, m)' /\ m \notin failureNodes'[q] =>
                  Running(q) /\ ~ Waits(q, m) /\ m \notin failureNodes[q]
  BY <1>1, SoundAlone
<1>3. m = n => Goes BY <1>2 DEF Broke, Undisturbed
<1>4. \A c \in copies'[m] : c \in copies[m] \/ c \in Sendings(r) BY DEF Broke
<1>5. ASSUME NEW q \in Requests
      PROVE  (Waits(q, m)' <=> Waits(q, m)) /\ (m \in failureNodes'[q] <=> m \in failureNodes[q])
  BY <1>3 DEF Broke, Goes, Ended, Waits
<1>6. \A c \in copies[m] : c.req \in Requests BY DEF Tables, Commands
<1> QED BY <1>1, <1>4, <1>5, <1>6 DEF Running

\* The other handlers of the node are of the same kind as one whose thread waits, and the
\* catalog has what they need.
LEMMA KindsAgree ==
  ASSUME ManagerInv, NEW n \in Nodes, NEW c \in copies[n], c.req \in Requests, Waits(c.req, n), ~raced
  PROVE  /\ Running(c.req) /\ c.handler.op = c.req.op /\ Phase(c.handler)
         /\ \A q \in Requests : Running(q) => ((q.op \in Removals) <=> (c.req.op \in Removals))
         /\ c.req.op \in {"addDatabase", "addSet", "clearSet"} => catalog.db
         /\ c.req.op \in {"addSet", "clearSet"} => catalog.set
<1> USE DEF ManagerInv
<1>1. Running(c.req) BY DEF Broadcasts
<1>2. c.handler.op = c.req.op /\ Phase(c.handler) BY DEF Phases
<1>3. \A q \in Requests : Running(q) => ~ conflict(q, c.req) BY <1>1 DEF Apart
<1>4. \A q \in Requests : Running(q) => ((q.op \in Removals) <=> (c.req.op \in Removals))
  BY <1>3 DEF conflict
<1> QED BY <1>1, <1>2, <1>4 DEF CatalogHolds

\* A handler of a node: those that overlap with it are of its kind, and an answer that says
\* that a set or database is gone is true, and remains so.
LEMMA HandledKeepsSound ==
  ASSUME Tables, ManagerInv, NodesSound, NEW n \in Nodes, NEW c, NEW t, NEW k, HandlerStep(n, c, t, k)
  PROVE  NodesSound'
<1> USE DEF HandlerStep
<1> DEFINE s == server[n]
           h == c.handler
<1>1. SUFFICES ASSUME NEW m \in Nodes, Undisturbed(m)'
               PROVE  /\ Sound(server'[m])
                      /\ \A e \in copies'[m] : Waits(e.req, m)' => Found(server'[m], e.handler)
                      /\ \A q \in Requests : Removed(q, m)'
  BY DEF NodesSound
<1>2. Undisturbed(m) BY <1>1 DEF Undisturbed, Handled
<1>3. /\ Sound(server[m]) /\ \A e \in copies[m] : Waits(e.req, m) => Found(server[m], e.handler)
      /\ \A q \in Requests : Removed(q, m)
  BY <1>2 DEF NodesSound
<1>4. \A q \in Requests : Running(q)' <=> Running(q) BY DEF Running, Handled
<1>5. \A e \in copies[m] : e.req \in Requests /\ e.handler \in Handlers BY DEF Tables, Commands
<1>6. CASE m # n
  <2>1. server'[m] = server[m] /\ copies'[m] = copies[m] BY <1>6 DEF Handled, Tables
  <2>2. \A q \in Requests : /\ Waits(q, m)' <=> Waits(q, m)
                            /\ m \in failureNodes'[q] <=> m \in failureNodes[q]
    BY <1>6 DEF Handled, Goes, Ended, Waits
  <2> QED BY <1>3, <1>4, <1>5, <2>1, <2>2 DEF Removed
<1>7. CASE m = n
  <2>1. server'[n] = t BY DEF Handled, Tables
  <2>2. Waits(c.req, n) /\ ~raced BY <1>1, <1>2, <1>7 DEF Handled, Undisturbed
  <2>3. /\ Running(c.req) /\ h.op = c.req.op /\ Phase(h)
        /\ \A q \in Requests : Running(q) => ((q.op \in Removals) <=> (c.req.op \in Removals))
    BY <2>2, KindsAgree
  <2>4. Sound(s) /\ Found(s, h) BY <1>3, <1>7, <2>2
  <2>5. Sound(t) /\ Found(t, k) BY <2>3, <2>4, StepSound
  <2>6. ASSUME NEW e \in copies'[n], Waits(e.req, n)' PROVE Found(t, e.handler)
    <3>1. CASE e \in copies[n] \ {c}
      <4>1. e.req \in Requests /\ e.handler \in Handlers BY <1>5, <1>7, <3>1
      <4>2. Waits(e.req, n) BY <2>6, <4>1 DEF Handled, Goes, Ended, Waits
      <4>3. Running(e.req) /\ e.handler.op = e.req.op /\ Phase(e.handler) BY <2>2, <3>1, <4>1, <4>2, KindsAgree
      <4>4. Found(s, e.handler) BY <1>3, <1>7, <3>1, <4>2
      <4>5. (e.handler.op \in Removals) <=> (h.op \in Removals) BY <2>3, <4>1, <4>3
      <4> QED BY <2>3, <2>4, <4>1, <4>3, <4>4, <4>5, StepOthers
    <3>2. CASE e.handler = k BY <2>5, <3>2
    <3>3. CASE e \in Sendings(c.req) BY <3>3, SendingFacts
    <3> QED BY <3>1, <3>2, <3>3 DEF Handled
  <2>7. ASSUME NEW q \in Requests, Running(q), q.op \in Removals, ~ Waits(q, n)', n \notin failureNodes'[q]
        PROVE  ~ Usable(t) /\ (q.op = "removeDatabase" => t.name2id = NoId)
    <3>1. CASE Waits(q, n)
      <4>1. q = c.req /\ k.pc = "answer" /\ (n \in missed' \/ k.ans \/ n \in failureNodes'[c.req])
        BY <2>7, <3>1 DEF Handled, Goes, Ended, Waits
      <4>2. k.ans BY <1>1, <1>7, <2>7, <4>1 DEF Undisturbed
      <4> QED BY <2>3, <2>4, <2>7, <4>1, <4>2, StepAnswers
    <3>2. CASE ~ Waits(q, n)
      <4>1. n \notin failureNodes[q] BY <2>7 DEF Handled, Goes, Ended
      <4>2. ~ Usable(s) /\ (q.op = "removeDatabase" => s.name2id = NoId)
        BY <1>3, <1>7, <2>7, <3>2, <4>1 DEF Removed
      <4>3. h.pc \notin {"insertDatabase", "insertSet"} BY <2>3, <2>7 DEF Phase, Removals
      <4> QED BY <2>3, <2>4, <4>2, <4>3, StepNames
    <3> QED BY <3>1, <3>2
  <2> QED BY <1>4, <1>7, <2>1, <2>5, <2>6, <2>7 DEF Removed
<1> QED BY <1>6, <1>7

-----------------------------------------------------------------------------
(* What the catalog says of the nodes *)

\* A request that failed is not forgotten.
LEMMA StillReported ==
  ASSUME ManagerTypes, NEW r \in Requests,
         \/ refuse(r) \/ catalogFails(r) \/ begin(r) \/ finish(r)
         \/ UNCHANGED <<rpc, res>>,
         Reported'
  PROVE  Reported /\ ~ refuse(r) /\ ~ catalogFails(r) /\ (finish(r) => res'[r])
<1>1. ASSUME refuse(r) \/ catalogFails(r) PROVE FALSE
  BY <1>1 DEF refuse, catalogFails, Reported, ManagerTypes
<1>2. \A q \in Requests : rpc[q] = "done" => rpc'[q] = "done" /\ (res'[q] => res[q])
  <2> SUFFICES ASSUME NEW q \in Requests, rpc[q] = "done" PROVE rpc'[q] = "done" /\ (res'[q] => res[q])
    OBVIOUS
  <2>1. CASE begin(r) BY <2>1 DEF begin, Sent, ManagerTypes
  <2>2. CASE finish(r)
    <3>1. q # r BY <2>2 DEF finish, Running
    <3>2. r.op \in Ops BY DistributedStorageAssumption
    <3>3. rpc' = [rpc EXCEPT ![r] = "done"] /\ (res' = res \/ \E b : res' = [res EXCEPT ![r] = b])
      BY <2>2, <3>2 DEF finish, Ops, Removals
    <3> QED BY <3>1, <3>3 DEF ManagerTypes
  <2>3. CASE UNCHANGED <<rpc, res>> BY <2>3
  <2> QED BY <1>1, <2>1, <2>2, <2>3
<1>3. finish(r) => res'[r] BY DEF finish, Reported, ManagerTypes
<1> QED BY <1>1, <1>2, <1>3 DEF Reported

\* What is new in the catalog is on its way to the nodes.
LEMMA BeginFollows ==
  ASSUME ManagerInv, NodesFollow, NEW r \in Requests, begin(r)
  PROVE  NodesFollow'
<1> SUFFICES ASSUME Reported', NEW n \in Nodes, Undisturbed(n)' PROVE Follows(n)' BY DEF NodesFollow
<1>1. UNCHANGED <<failureNodes, server>> BY DEF begin
<1>2. Undisturbed(n) BY DEF Undisturbed, begin
<1>3. Follows(n) BY <1>2, StillReported DEF NodesFollow, ManagerInv
<1>4. catalog' = [db |-> catalog.db \/ r.op = "addDatabase", set |-> catalog.set \/ r.op = "addSet"]
  BY DEF begin, catalogBefore
<1>5. \A q \in Requests : Running(q)' <=> Running(q) \/ q = r BY DEF begin, Running, ManagerInv, ManagerTypes
<1>6. \A q \in Requests : Waits(q, n)' <=> Waits(q, n) \/ q = r BY DEF begin, Waits, ManagerInv, ManagerTypes
<1>7. Changing(n) => Changing(n)' BY <1>1, <1>5, <1>6 DEF Changing
<1>8. Clearing(n) => Clearing(n)' BY DEF Clearing, begin
<1>9. r.op = "addSet" => Changing(n)' BY <1>5, <1>6 DEF Changing
<1>10. (~catalog'.db => server'[n].name2id = NoId) /\ (~catalog'.set => ~ Usable(server'[n]))
  BY <1>1, <1>3, <1>4 DEF Follows
<1>11. catalog'.db /\ server'[n].name2id = NoId =>
       \E q \in Requests : /\ Running(q)'
                           /\ q.op = "removeDatabase" \/ (q.op = "addDatabase" /\ Waits(q, n)')
  BY <1>1, <1>3, <1>4, <1>5, <1>6 DEF Follows
<1>12. catalog'.set /\ ~ Usable(server'[n]) =>
       Changing(n)' \/ (server'[n].names2ids = NoIds /\ Clearing(n)')
  BY <1>1, <1>3, <1>4, <1>7, <1>8, <1>9 DEF Follows
<1> QED BY <1>10, <1>11, <1>12 DEF Follows

\* A broadcast that ends with success leaves no node behind; a removal that all nodes have
\* confirmed may change the catalog.
LEMMA FinishFollows ==
  ASSUME ManagerInv, NodesSound, NodesFollow, NEW r \in Requests, finish(r)
  PROVE  NodesFollow'
<1> SUFFICES ASSUME Reported', NEW n \in Nodes, Undisturbed(n)' PROVE Follows(n)' BY DEF NodesFollow
<1>1. UNCHANGED <<failureNodes, thread, server, copies, raced, missed, late>>
  BY DEF finish, threadVars, historyVars
<1>2. Undisturbed(n) BY <1>1 DEF Undisturbed
<1>3. Follows(n) /\ res'[r] BY <1>2, StillReported DEF NodesFollow, ManagerInv
<1>4. \A q \in Requests : Running(q)' <=> Running(q) /\ q # r
  BY DEF finish, Running, ManagerInv, ManagerTypes
<1>5. ~ Waits(r, n) BY FinishedIdle DEF ManagerInv
<1>6. Removed(r, n) BY <1>2 DEF NodesSound
<1>7. r.op \in Ops BY DistributedStorageAssumption
<1>8. Clearing(n)' <=> Clearing(n) BY <1>1 DEF Clearing
<1>9. \A q \in Requests : Waits(q, n)' <=> Waits(q, n) BY <1>1 DEF Waits
<1>10. CASE r.op \notin Removals
  <2>1. catalog' = catalog /\ (r.op = "addSet" => n \notin failureNodes[r])
    BY <1>3, <1>7, <1>10 DEF finish, Ops, Removals, allSucceeded, ManagerInv, ManagerTypes
  <2>2. Changing(n) => Changing(n)' BY <1>1, <1>4, <1>5, <1>9, <1>10, <2>1 DEF Changing
  <2>3. r.op # "removeDatabase" BY <1>10 DEF Removals
  <2>4. catalog'.db /\ server'[n].name2id = NoId =>
       \E q \in Requests : /\ Running(q)'
                           /\ q.op = "removeDatabase" \/ (q.op = "addDatabase" /\ Waits(q, n)')
    BY <1>1, <1>3, <1>4, <1>5, <1>9, <2>1, <2>3 DEF Follows
  <2>5. /\ ~catalog'.db => server'[n].name2id = NoId
        /\ ~catalog'.set => ~ Usable(server'[n])
        /\ catalog'.set /\ ~ Usable(server'[n]) =>
             Changing(n)' \/ (server'[n].names2ids = NoIds /\ Clearing(n)')
    BY <1>1, <1>3, <1>8, <2>1, <2>2 DEF Follows
  <2> QED BY <2>4, <2>5 DEF Follows
<1>11. CASE r.op \in Removals
  <2>1. failureNodes[r] = {} /\ catalog' = catalogAfter(r)
    BY <1>3, <1>11 DEF finish, Removals, allSucceeded, ManagerInv, ManagerTypes
  <2>2. catalog'.set = FALSE /\ catalog'.db = (r.op = "removeSet" /\ catalog.db)
    BY <1>11, <2>1 DEF catalogAfter, Removals, ManagerInv, ManagerTypes
  <2>3. ~ Usable(server[n]) /\ (r.op = "removeDatabase" => server[n].name2id = NoId)
    BY <1>5, <1>6, <1>11, <2>1 DEF Removed, finish
  <2>4. ~catalog'.db => server'[n].name2id = NoId
    BY <1>1, <1>3, <1>11, <2>2, <2>3 DEF Follows, Removals
  <2>5. catalog'.db /\ server'[n].name2id = NoId =>
       \E q \in Requests : /\ Running(q)'
                           /\ q.op = "removeDatabase" \/ (q.op = "addDatabase" /\ Waits(q, n)')
    BY <1>1, <1>3, <1>4, <1>9, <2>2 DEF Follows
  <2> QED BY <1>1, <2>2, <2>3, <2>4, <2>5 DEF Follows
<1> QED BY <1>10, <1>11

\* A command that is lost had not begun.
LEMMA BrokeFollows ==
  ASSUME Tables, ManagerInv, NodesFollow, NEW r \in Requests, NEW n \in Nodes, Broke(r, n)
  PROVE  NodesFollow'
<1> SUFFICES ASSUME Reported', NEW m \in Nodes, Undisturbed(m)' PROVE Follows(m)' BY DEF NodesFollow
<1>1. UNCHANGED <<catalog, rpc, res, server>> BY DEF Broke
<1>2. Undisturbed(m) BY DEF Broke, Undisturbed
<1>3. Follows(m) BY <1>1, <1>2 DEF NodesFollow, Reported
<1>4. m = n => Goes BY DEF Broke, Undisturbed
<1>5. \A q \in Requests : Running(q)' <=> Running(q) BY <1>1 DEF Running
<1>6. \A q \in Requests : (Waits(q, m)' <=> Waits(q, m)) /\ (m \in failureNodes'[q] <=> m \in failureNodes[q])
  BY <1>4 DEF Broke, Goes, Ended, Waits
<1>7. Changing(m) => Changing(m)' BY <1>5, <1>6 DEF Changing
<1>8. Clearing(m) => Clearing(m)'
  <2>1. SUFFICES ASSUME NEW c \in copies[m], c.req.op = "clearSet", c.handler.pc # "clearSet"
                 PROVE  c \in copies'[m]
    BY DEF Clearing
  <2>2. c \notin Sendings(r) BY <2>1, SendingFacts
  <2> QED BY <2>2 DEF Broke
<1> QED BY <1>1, <1>3, <1>5, <1>6, <1>7, <1>8 DEF Follows

\* A handler makes what the catalog has, ends what is being removed, or tells of its failure.
LEMMA HandledFollows ==
  ASSUME Tables, ManagerInv, NodesSound, NodesFollow, NEW n \in Nodes, NEW c, NEW t, NEW k,
         HandlerStep(n, c, t, k)
  PROVE  NodesFollow'
<1> USE DEF HandlerStep
<1> DEFINE s == server[n]
           h == c.handler
<1> SUFFICES ASSUME Reported', NEW m \in Nodes, Undisturbed(m)' PROVE Follows(m)' BY DEF NodesFollow
<1>1. UNCHANGED <<catalog, rpc, res>> BY DEF Handled
<1>2. Undisturbed(m) BY DEF Undisturbed, Handled
<1>3. Follows(m) BY <1>1, <1>2 DEF NodesFollow, Reported
<1>4. \A q \in Requests : Running(q)' <=> Running(q) BY <1>1 DEF Running
<1>5. CASE m # n
  <2>1. server'[m] = server[m] /\ copies'[m] = copies[m] BY <1>5 DEF Handled, Tables
  <2>2. \A q \in Requests : (Waits(q, m)' <=> Waits(q, m)) /\ (m \in failureNodes'[q] <=> m \in failureNodes[q])
    BY <1>5 DEF Handled, Goes, Ended, Waits
  <2>3. (Changing(m) => Changing(m)') /\ (Clearing(m) => Clearing(m)')
    BY <1>4, <2>1, <2>2 DEF Changing, Clearing
  <2> QED BY <1>1, <1>3, <1>4, <2>1, <2>2, <2>3 DEF Follows
<1>6. CASE m = n
  <2>1. server'[n] = t BY DEF Handled, Tables
  <2>2. Waits(c.req, n) /\ ~raced BY <1>2, <1>6 DEF Handled, Undisturbed
  <2>3. /\ Running(c.req) /\ h.op = c.req.op /\ Phase(h)
        /\ c.req.op \in {"addDatabase", "addSet", "clearSet"} => catalog.db
        /\ c.req.op \in {"addSet", "clearSet"} => catalog.set
    BY <2>2, KindsAgree
  <2>4. Sound(s) /\ Found(s, h) BY <1>2, <1>6, <2>2 DEF NodesSound
  <2>5. ASSUME NEW q \in Requests
        PROVE  /\ n \in failureNodes[q] => n \in failureNodes'[q]
               /\ Waits(q, n) /\ ~ Waits(q, n)' =>
                    q = c.req /\ k.pc = "answer" /\ (k.ans \/ n \in failureNodes'[q])
    BY <1>6 DEF Handled, Goes, Ended, Waits, Undisturbed
  <2>6. ~catalog.db => t.name2id = NoId
    <3>1. h.pc = "insertDatabase" => catalog.db BY <2>3 DEF Phase, Handlers, HandlerType, Ops, Removals
    <3> QED BY <1>3, <1>6, <2>3, <2>4, <3>1, StepNames DEF Follows
  <2>7. ASSUME catalog.db, t.name2id = NoId
        PROVE  \E q \in Requests : /\ Running(q)'
                                   /\ q.op = "removeDatabase" \/ (q.op = "addDatabase" /\ Waits(q, n)')
    <3>1. CASE s.name2id # NoId
      <4>1. h.op = "removeDatabase" BY <2>3, <2>4, <2>7, <3>1, StepNames
      <4> QED BY <1>4, <2>3, <4>1
    <3>2. CASE s.name2id = NoId
      <4>1. PICK q \in Requests : /\ Running(q)
                                  /\ q.op = "removeDatabase" \/ (q.op = "addDatabase" /\ Waits(q, n))
        BY <1>3, <1>6, <2>7, <3>2 DEF Follows
      <4>2. ASSUME q.op = "addDatabase", Waits(q, n) PROVE Waits(q, n)'
        BY <2>3, <2>4, <2>5, <2>7, <4>2, StepAnswers
      <4> QED BY <1>4, <4>1, <4>2
    <3> QED BY <3>1, <3>2
  <2>8. ~catalog.set => ~ Usable(t)
    <3>1. h.pc = "insertSet" => catalog.set BY <2>3 DEF Phase, Handlers, HandlerType, Ops, Removals
    <3> QED BY <1>3, <1>6, <2>3, <2>4, <3>1, StepNames DEF Follows
  <2>9. k.pc # "answer" => \E e \in copies'[n] : e.req = c.req /\ e.handler = k BY DEF Handled
  <2>10. ASSUME catalog.set, ~ Usable(t)
         PROVE  Changing(n)' \/ (t.names2ids = NoIds /\ Clearing(n)')
    <3>1. CASE Usable(s)
      <4>1. CASE h.op \in Removals BY <1>4, <2>3, <4>1 DEF Changing
      <4>2. CASE h.op = "clearSet" /\ t.names2ids = NoIds /\ k.pc = "addSet"
        BY <2>3, <2>9, <4>2 DEF Clearing
      <4> QED BY <2>3, <2>4, <2>10, <3>1, <4>1, <4>2, StepNames
    <3>2. CASE Changing(n)
      <4>1. PICK q \in Requests : /\ Running(q)
                                  /\ \/ q.op \in Removals
                                     \/ q.op = "addSet" /\ (Waits(q, n) \/ n \in failureNodes[q])
        BY <3>2 DEF Changing
      <4>2. ASSUME q.op = "addSet", Waits(q, n) PROVE Waits(q, n)' \/ n \in failureNodes'[q]
        BY <2>3, <2>4, <2>5, <2>10, <4>2, StepAnswers
      <4> QED BY <1>4, <2>5, <4>1, <4>2 DEF Changing
    <3>3. CASE s.names2ids = NoIds /\ Clearing(n)
      <4>1. PICK d \in copies[n] : d.req.op = "clearSet" /\ d.handler.pc # "clearSet" BY <3>3 DEF Clearing
      <4>2. t.names2ids = NoIds BY <2>3, <2>4, <2>10, <3>3, StepNames
      <4>3. CASE d # c
        <5>1. d \in copies'[n] BY <4>3 DEF Handled
        <5> QED BY <4>1, <4>2, <5>1 DEF Clearing
      <4>4. CASE d = c
        <5>1. k.pc \notin {"answer", "clearSet"} BY <2>3, <2>4, <2>10, <3>3, <4>1, <4>4, StepNames
        <5> QED BY <2>9, <4>1, <4>2, <4>4, <5>1 DEF Clearing
      <4> QED BY <4>3, <4>4
    <3> QED BY <1>3, <1>6, <2>10, <3>1, <3>2, <3>3 DEF Follows
  <2> QED BY <1>1, <1>6, <2>1, <2>6, <2>7, <2>8, <2>10 DEF Follows
<1> QED BY <1>5, <1>6

-----------------------------------------------------------------------------
(* What the catalog says holds in every behaviour *)

\* At first there is nothing, in the catalog and at the nodes.
LEMMA NamespacesBegin == Init => Namespaces
<1> SUFFICES ASSUME Init PROVE Namespaces OBVIOUS
<1>1. catalog = [db |-> FALSE, set |-> FALSE] /\ ~raced BY DEF Init
<1>2. \A r \in Requests : rpc[r] \in {"unsent", "new"} /\ ~ Running(r) BY DEF Init, Running
<1>3. \A r \in Requests, n \in Nodes : ~ Waits(r, n) BY DEF Init, Waits
<1>4. \A n \in Nodes : server[n] = emptyServer /\ copies[n] = {} BY DEF Init
<1>5. emptyServer.name2id = NoId /\ emptyServer.names2ids = NoIds /\ emptyServer.dbSeq = 0
      /\ emptyServer.dbs = {} /\ emptyServer.userSets = {} /\ NoIds[1] = 0
  BY DEF emptyServer, NoIds, NoId
<1>6. ManagerTypes BY DEF Init, ManagerTypes
<1>7. Broadcasts BY <1>2, <1>3, <1>4 DEF Init, Broadcasts
<1>8. Phases /\ Apart /\ CatalogHolds BY <1>1, <1>2, <1>4 DEF Phases, Apart, CatalogHolds
<1>9. Sound(emptyServer) BY <1>5 DEF Sound, NoId
<1>10. ~ Usable(emptyServer) BY <1>5 DEF Usable, getSet
<1>11. NodesSound BY <1>2, <1>4, <1>9 DEF NodesSound, Removed
<1>12. NodesFollow BY <1>1, <1>4, <1>5, <1>10 DEF NodesFollow, Follows
<1> QED BY <1>6, <1>7, <1>8, <1>11, <1>12 DEF Namespaces

\* Every step keeps the invariant.
LEMMA NamespacesStep == Inv /\ Namespaces /\ [Next]_vars => Namespaces'
<1> SUFFICES ASSUME Inv, Namespaces, [Next]_vars PROVE Namespaces' OBVIOUS
<1>1. Tables /\ ManagerInv /\ NodesSound /\ NodesFollow BY DEF Inv, Namespaces, ManagerInv
<1>2. SUFFICES ManagerInv' /\ NodesSound' /\ NodesFollow' BY DEF Namespaces, ManagerInv
<1>3. ASSUME NEW r \in Requests, refuse(r) \/ catalogFails(r) \/ begin(r) \/ finish(r)
      PROVE  ManagerInv' /\ NodesSound' /\ NodesFollow'
  <2>1. ManagerInv' BY <1>1, <1>3, AnswerKeepsManager, BeginKeepsManager
  <2>2. NodesSound' BY <1>1, <1>3, ManagerKeepsSound
  <2>3. CASE begin(r) BY <1>1, <2>1, <2>2, <2>3, BeginFollows
  <2>4. CASE finish(r) BY <1>1, <2>1, <2>2, <2>4, FinishFollows
  <2>5. CASE refuse(r) \/ catalogFails(r)
    <3>1. ~ Reported' BY <1>1, <2>5, StillReported DEF ManagerInv
    <3> QED BY <2>1, <2>2, <3>1 DEF NodesFollow
  <2> QED BY <1>3, <2>3, <2>4, <2>5
<1>4. ASSUME NEW r \in Requests, NEW n \in Nodes, disconnect(r, n) \/ unreachable(r, n)
      PROVE  ManagerInv' /\ NodesSound' /\ NodesFollow'
  <2>1. Broke(r, n) BY <1>1, <1>4, ThreadBroke DEF ManagerInv
  <2>2. ManagerInv'
    <3>1. \A e \in copies'[n] : e \in copies[n] \/ (e \in Sendings(r) /\ Waits(r, n)) BY <2>1 DEF Broke
    <3> QED BY <1>1, <2>1, <3>1, NodeKeepsManager DEF Broke
  <2> QED BY <1>1, <2>1, <2>2, BrokeKeepsSound, BrokeFollows
<1>5. ASSUME NEW n \in Nodes, NEW c \in copies[n], handle(n, c)
      PROVE  ManagerInv' /\ NodesSound' /\ NodesFollow'
  <2>1. PICK t, k : HandlerStep(n, c, t, k) BY <1>1, <1>5, HandlerSteps DEF ManagerInv
  <2>2. ManagerInv'
    <3>1. c.req \in Requests /\ c.handler \in Handlers /\ Handled(n, c, t, k) BY <2>1 DEF HandlerStep
    <3>2. c.handler.op = c.req.op /\ Phase(c.handler) BY <1>1 DEF ManagerInv, Phases
    <3>3. k.op = c.handler.op /\ (k.pc = "answer" \/ Phase(k)) BY <2>1, <3>2, StepPhase DEF HandlerStep
    <3>4. \A e \in copies'[n] : \/ e \in copies[n]
                                \/ e \in Sendings(c.req) /\ Waits(c.req, n)
                                \/ /\ e.handler.op = e.req.op /\ Phase(e.handler)
                                   /\ \E d \in copies[n] : e.req = d.req
      BY <3>1, <3>2, <3>3 DEF Handled
    <3>5. Goes \/ (Waits(c.req, n) /\ Ended(c.req, n)) BY <3>1 DEF Handled
    <3> QED BY <1>1, <3>1, <3>4, <3>5, NodeKeepsManager DEF Handled
  <2> QED BY <1>1, <2>1, <2>2, HandledKeepsSound, HandledFollows
<1>6. CASE UNCHANGED vars
  <2> USE <1>6 DEF vars, managerVars, threadVars, historyVars
  <2>1. ManagerInv' BY <1>1 DEF ManagerInv, ManagerTypes, Broadcasts, Phases, Apart, CatalogHolds,
                               Running, Waits, idle
  <2>2. NodesSound' BY <1>1 DEF NodesSound, Undisturbed, Removed, Running, Waits
  <2>3. NodesFollow' BY <1>1 DEF NodesFollow, Reported, Undisturbed, Follows, Changing, Clearing, Running, Waits
  <2> QED BY <2>1, <2>2, <2>3
<1> QED BY <1>3, <1>4, <1>5, <1>6 DEF Next, NodeStep

\* The invariant about the catalog holds in every behaviour of the broadcasts and handlers.
THEOREM NamespacesInvariance == Spec => []Namespaces
BY Invariance, NamespacesBegin, NamespacesStep, PTL DEF Spec

\* When all is quiet and every request was answered with success, the manager's catalog and the
\* nodes agree on the database and the set, except on nodes that could not be reached or handled
\* a copy of a command late, and unless a removal ran next to another request.
THEOREM NamespacesAgreeCorrect == Spec => []NamespacesAgree
<1>1. Namespaces => NamespacesAgree
  <2> SUFFICES ASSUME Namespaces, Reported, ~raced, \A r \in Requests : ~ Running(r),
                      \A n \in Nodes : copies[n] = {}, NEW n \in Nodes, n \notin missed \cup late
               PROVE  /\ catalog.db = (server[n].name2id # NoId)
                      /\ catalog.set = Usable(server[n])
    BY DEF NamespacesAgree
  <2>1. Follows(n) BY DEF Namespaces, NodesFollow, Undisturbed
  <2>2. ~ Changing(n) /\ ~ Clearing(n) BY DEF Changing, Clearing
  <2>3. catalog.db \in BOOLEAN /\ catalog.set \in BOOLEAN BY DEF Namespaces, ManagerTypes
  <2>4. catalog.db <=> (server[n].name2id # NoId) BY <2>1 DEF Follows
  <2>5. catalog.set <=> Usable(server[n]) BY <2>1, <2>2 DEF Follows
  <2>6. Usable(server[n]) \in BOOLEAN BY DEF Usable
  <2> QED BY <2>3, <2>4, <2>5, <2>6
<1> QED BY <1>1, NamespacesInvariance, PTL

\* RemoveSet and RemoveDatabase of the manager take a set out of the catalog only when no node has
\* it any more, with the same exceptions.
THEOREM ForgottenLastCorrect == Spec => ForgottenLast
<1> DEFINE Forgets == catalog.set /\ ~catalog'.set /\ ~raced
                        => \A n \in Nodes \ (missed \cup late) : ~ Usable(server[n])
<1>1. Inv /\ Namespaces /\ [Next]_vars => [Forgets]_vars
  <2> SUFFICES ASSUME Inv, Namespaces, Next, catalog.set, ~catalog'.set, ~raced,
                      NEW n \in Nodes, n \notin missed \cup late
               PROVE  ~ Usable(server[n])
    OBVIOUS
  <2>1. PICK r \in Requests : finish(r) /\ r.op \in Removals /\ failureNodes[r] = {}
    <3>1. ASSUME NEW r \in Requests, refuse(r) \/ catalogFails(r) \/ begin(r) PROVE FALSE
      <4>1. catalogBefore(r).set <=> (catalog.set \/ r.op = "addSet") BY DEF catalogBefore
      <4>2. catalog' \in {catalog, catalogBefore(r)} BY <3>1 DEF refuse, catalogFails, begin
      <4> QED BY <4>1, <4>2
    <3>2. ASSUME NEW r \in Requests, NEW m \in Nodes, disconnect(r, m) \/ unreachable(r, m) PROVE FALSE
      BY <3>2 DEF disconnect, unreachable, managerVars
    <3>3. ASSUME NEW m \in Nodes, NEW c \in copies[m], handle(m, c) PROVE FALSE
      BY <3>3 DEF handle, managerVars
    <3>4. PICK r \in Requests : finish(r) BY <3>1, <3>2, <3>3 DEF Next, NodeStep
    <3>5. r.op \in Ops BY DistributedStorageAssumption
    <3>6. r.op \in Removals /\ failureNodes[r] = {}
      BY <3>4, <3>5 DEF finish, allSucceeded, Ops, Removals
    <3> QED BY <3>4, <3>6
  <2>2. ~ Waits(r, n) BY <2>1, FinishedIdle DEF Namespaces
  <2>3. Removed(r, n) BY DEF Namespaces, NodesSound, Undisturbed
  <2> QED BY <2>1, <2>2, <2>3 DEF Removed, finish
<1> QED BY <1>1, Invariance, NamespacesInvariance, PTL DEF Spec, ForgottenLast

=============================================================================
