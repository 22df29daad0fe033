--------------------------- MODULE DistributedStorage ---------------------------
(***************************************************************************)
(* The distributed storage manager (DistributedStorageManagerServer.cc) and *)
(* its broadcast (BroadcastServerTemplate.cc), over the storage servers of *)
(* module StorageNamespace.                                                *)
(*                                                                         *)
(* A handler of the manager changes the catalog, or looks at it, sends a   *)
(* command to all nodes at the same time, one thread for each, waits for   *)
(* all threads and changes the catalog or not.  A thread sends its command *)
(* again when no answer comes, so that several copies of it can be at a    *)
(* node.  Handlers take no lock.  The catalog is that of the manager; its  *)
(* own protocol is module Catalog.                                         *)
(***************************************************************************)
EXTENDS StorageNamespace, FiniteSets

CONSTANTS
  Nodes,
  Requests,      \* requests of clients, each client has sent them in order
  Workloads,     \* sets of requests that are sent in one run
  MaxRetries,    \* MAX_RETRIES of broadcast
  Unreliable,    \* bound: the nodes to which connections fail
  MaxFaults      \* bound: how often they do

Removals == {"removeSet", "removeDatabase"}
Ops == {"addDatabase", "addSet", "clearSet"} \cup Removals

ASSUME DistributedStorageAssumption ==
  /\ IsFiniteSet(Nodes) /\ Unreliable \subseteq Nodes
  /\ \A r \in Requests : r.op \in Ops /\ r.no \in Nat
  /\ Workloads \subseteq SUBSET Requests
  /\ MaxRetries \in Nat /\ MaxFaults \in Nat

VARIABLES
  catalog,       \* what the manager's catalog holds
  rpc, res,      \* the handlers of the manager
  failureNodes,  \* of each handler
  buzzed,        \* errors + success of its broadcast
  thread, tries, \* its threads
  server,        \* the tables of each node
  copies,        \* the handlers of each node
  faults,
  missed, late, overlap, raced   \* history, see the properties

managerVars == <<catalog, rpc, res>>
threadVars == <<failureNodes, buzzed, thread, tries>>
historyVars == <<missed, late, overlap, raced>>
vars == <<managerVars, threadVars, server, copies, faults, historyVars>>

Init ==
  /\ catalog = [db |-> FALSE, set |-> FALSE]
  /\ \E load \in Workloads :
       rpc = [r \in Requests |-> IF r \in load THEN "new" ELSE "unsent"]
  /\ res = [r \in Requests |-> TRUE]
  /\ failureNodes = [r \in Requests |-> {}] /\ buzzed = [r \in Requests |-> 0]
  /\ thread = [r \in Requests |-> [n \in Nodes |-> "idle"]]
  /\ tries = [r \in Requests |-> [n \in Nodes |-> 0]]
  /\ server = [n \in Nodes |-> emptyServer] /\ copies = [n \in Nodes |-> {}]
  /\ faults = 0
  /\ missed = {} /\ late = {} /\ overlap = {} /\ raced = FALSE

fault == faults < MaxFaults /\ faults' = faults + 1

Running(r) == rpc[r] = "broadcast"

-----------------------------------------------------------------------------
(* Handlers of the manager *)

\* What the catalog must hold for the handler to go on to the broadcast
admitted(r) ==
  CASE r.op = "addDatabase"    -> TRUE
    [] r.op = "addSet"         -> catalog.db
    [] r.op = "clearSet"       -> catalog.set
    [] r.op = "removeSet"      -> TRUE
    [] r.op = "removeDatabase" -> catalog.db

\* The catalog at the beginning of the broadcast, and after it
catalogBefore(r) ==
  [db |-> catalog.db \/ r.op = "addDatabase", set |-> catalog.set \/ r.op = "addSet"]

catalogAfter(r) ==
  CASE r.op = "removeSet"      -> [catalog EXCEPT !.set = FALSE]
    [] r.op = "removeDatabase" -> [db |-> FALSE, set |-> FALSE]

conflict(r, q) == (r.op \in Removals) # (q.op \in Removals)

Sent(r) ==
  /\ rpc[r] = "new"
  /\ \A q \in Requests : q.client = r.client /\ q.no < r.no => rpc[q] \in {"done", "unsent"}

refuse(r) ==
  /\ Sent(r) /\ ~admitted(r)
  /\ rpc' = [rpc EXCEPT ![r] = "done"] /\ res' = [res EXCEPT ![r] = FALSE]
  /\ UNCHANGED <<catalog, threadVars, server, copies, faults, historyVars>>

\* A worker could not update its copy of the catalog; the manager's is changed.
catalogFails(r) ==
  /\ Sent(r) /\ admitted(r) /\ catalogBefore(r) # catalog /\ fault
  /\ catalog' = catalogBefore(r)
  /\ rpc' = [rpc EXCEPT ![r] = "done"] /\ res' = [res EXCEPT ![r] = FALSE]
  /\ UNCHANGED <<threadVars, server, copies, historyVars>>

Copy(r, k) == [req |-> r, try |-> k, handler |-> newHandler(r.op)]

\* The threads start and send their commands.
begin(r) ==
  /\ Sent(r) /\ admitted(r)
  /\ catalog' = catalogBefore(r)
  /\ rpc' = [rpc EXCEPT ![r] = "broadcast"]
  /\ thread' = [thread EXCEPT ![r] = [n \in Nodes |-> "wait"]]
  /\ copies' = [n \in Nodes |-> copies[n] \cup {Copy(r, 0)}]
  /\ raced' = (raced \/ \E q \in Requests : Running(q) /\ conflict(r, q))
  /\ UNCHANGED <<res, failureNodes, buzzed, tries, server, faults, missed, late, overlap>>

\* Mutant: the caller does not wait for the last thread.
receivers_OffByOne(r) == Cardinality(Nodes) - 1

receivers(r) == Cardinality(Nodes)

\* Mutant: AddSet does not look at the answers.
allSucceeded_NotAsked(r) == r.op = "addSet" \/ failureNodes[r] = {}

allSucceeded(r) == failureNodes[r] = {}

\* All threads have buzzed.  Adding a database and clearing a set always succeed.
finish(r) ==
  /\ Running(r) /\ buzzed[r] >= receivers(r)
  /\ rpc' = [rpc EXCEPT ![r] = "done"]
  /\ CASE r.op \in {"addDatabase", "clearSet"} -> UNCHANGED <<catalog, res>>
       [] r.op = "addSet" ->
            /\ res' = [res EXCEPT ![r] = allSucceeded(r)]
            /\ UNCHANGED catalog
       [] r.op \in Removals ->
            IF ~allSucceeded(r)
              THEN res' = [res EXCEPT ![r] = FALSE] /\ UNCHANGED catalog
              ELSE /\ res' = [res EXCEPT ![r] = catalogAfter(r) # catalog]
                   /\ catalog' = catalogAfter(r)
  /\ UNCHANGED <<threadVars, server, copies, faults, historyVars>>

-----------------------------------------------------------------------------
(* A thread of a broadcast *)

\* Mutant: a thread that gives up does not buzz.
counted_Success(err) == IF err THEN 0 ELSE 1

counted(err) == 1

\* The thread calls back, buzzes and ends.  Only AddDatabase has an errorCallBack.
endThread(r, n, ans, err) ==
  /\ thread' = [thread EXCEPT ![r][n] = "idle"]
  /\ buzzed' = [buzzed EXCEPT ![r] = @ + counted(err)]
  /\ failureNodes' =
       IF ans \/ (err /\ r.op # "addDatabase") THEN failureNodes
       ELSE [failureNodes EXCEPT ![r] = @ \cup {n}]

\* No connection, or no answer: the command is sent again.  rest is what is left at
\* the node.
retry(r, n, rest) ==
  IF tries[r][n] < MaxRetries
    THEN /\ tries' = [tries EXCEPT ![r][n] = @ + 1]
         /\ copies' = [copies EXCEPT ![n] = rest \cup {Copy(r, tries[r][n] + 1)}]
         /\ UNCHANGED <<thread, buzzed, failureNodes, missed>>
    ELSE /\ endThread(r, n, FALSE, TRUE)
         /\ copies' = [copies EXCEPT ![n] = rest]
         /\ missed' = missed \cup {n}
         /\ UNCHANGED tries

\* The connection breaks; the command is at the node or is lost.
disconnect(r, n) ==
  /\ thread[r][n] = "wait" /\ n \in Unreliable /\ fault
  /\ \E lost \in SUBSET {Copy(r, tries[r][n])} : retry(r, n, copies[n] \ lost)
  /\ UNCHANGED <<managerVars, server, late, overlap, raced>>

\* No attempt reaches the node any more.
unreachable(r, n) ==
  /\ thread[r][n] = "wait" /\ n \in Unreliable /\ fault
  /\ endThread(r, n, FALSE, TRUE)
  /\ \E lost \in SUBSET {Copy(r, tries[r][n])} : copies' = [copies EXCEPT ![n] = @ \ lost]
  /\ missed' = missed \cup {n}
  /\ UNCHANGED <<managerVars, tries, server, late, overlap, raced>>

-----------------------------------------------------------------------------
(* The handlers of a node *)

Current(n, c) == thread[c.req][n] = "wait" /\ tries[c.req][n] = c.try

\* A step of a handler; its last one sends the answer, which the thread gets if it
\* still waits on this connection.
handle(n, c) ==
  LET done == step(server[n], c.handler)
      rest == copies[n] \ {c}
  IN  /\ c \in copies[n]
      /\ server' = [server EXCEPT ![n] = done.server]
      /\ \/ /\ done.handler.pc # "answer"
            /\ copies' = [copies EXCEPT ![n] = rest \cup {[c EXCEPT !.handler = done.handler]}]
            /\ UNCHANGED <<threadVars, faults, missed>>
         \/ /\ done.handler.pc = "answer" /\ ~Current(n, c)
            /\ copies' = [copies EXCEPT ![n] = rest]
            /\ UNCHANGED <<threadVars, faults, missed>>
         \/ /\ done.handler.pc = "answer" /\ Current(n, c)
            /\ copies' = [copies EXCEPT ![n] = rest]
            /\ endThread(c.req, n, done.handler.ans, FALSE)
            /\ UNCHANGED <<tries, faults, missed>>
         \/ /\ done.handler.pc = "answer" /\ Current(n, c)
            /\ n \in Unreliable /\ fault
            /\ retry(c.req, n, rest)
      /\ late' = IF thread[c.req][n] = "wait" THEN late ELSE late \cup {n}
      /\ overlap' = IF \E d \in rest : Inside(d.handler) THEN overlap \cup {n} ELSE overlap
      /\ UNCHANGED <<managerVars, raced>>

-----------------------------------------------------------------------------

NodeStep(n) == \E c \in copies[n] : handle(n, c)

Next ==
  \/ \E r \in Requests : \/ refuse(r) \/ catalogFails(r) \/ begin(r) \/ finish(r)
                         \/ \E n \in Nodes : disconnect(r, n) \/ unreachable(r, n)
  \/ \E n \in Nodes : NodeStep(n)

Spec == Init /\ [][Next]_vars

\* Handlers that can go on do, at the manager and at the nodes.
Fairness ==
  /\ \A r \in Requests : WF_vars(refuse(r) \/ begin(r)) /\ WF_vars(finish(r))
  /\ \A n \in Nodes : WF_vars(NodeStep(n))

FairSpec == Spec /\ Fairness

-----------------------------------------------------------------------------
(* Properties *)

Ids == Nat \X Nat

ServerType ==
  [name2id : Nat, dbs : SUBSET Nat, dbSeq : Nat, setSeq : Nat,
   names2ids : Ids, userSets : SUBSET Ids]

HandlerType ==
  [op : Ops, pc : Ops \cup {"insertDatabase", "insertSet", "eraseSet", "answer"},
   ids : Ids, ans : BOOLEAN]

\* Every variable has its type.
TypeOK ==
  /\ catalog \in [db : BOOLEAN, set : BOOLEAN]
  /\ rpc \in [Requests -> {"unsent", "new", "broadcast", "done"}]
  /\ res \in [Requests -> BOOLEAN]
  /\ failureNodes \in [Requests -> SUBSET Nodes]
  /\ buzzed \in [Requests -> 0 .. Cardinality(Nodes)]
  /\ thread \in [Requests -> [Nodes -> {"idle", "wait"}]]
  /\ tries \in [Requests -> [Nodes -> 0 .. MaxRetries]]
  /\ \A n \in Nodes : server[n] \in ServerType
  /\ \A n \in Nodes : \A c \in copies[n] :
       c.req \in Requests /\ c.try \in 0 .. MaxRetries /\ c.handler \in HandlerType
  /\ faults \in 0 .. MaxFaults
  /\ missed \subseteq Nodes /\ late \subseteq Nodes /\ overlap \subseteq Nodes
  /\ raced \in BOOLEAN

Reported == \A r \in Requests : rpc[r] = "done" => res[r]

\* When all is quiet and every request was answered with success, catalog and nodes
\* agree on the database and the set.  Excepted are nodes that could not be reached
\* (no handler tells the client of them), nodes that handled a copy of a command
\* after the broadcast was over, and removals next to other requests.
NamespacesAgree ==
  /\ Reported /\ ~raced
  /\ \A r \in Requests : ~Running(r)
  /\ \A n \in Nodes : copies[n] = {}
  => \A n \in Nodes \ (missed \cup late) :
       /\ catalog.db = (server[n].name2id # NoId)
       /\ catalog.set = Usable(server[n])

\* The catalog forgets a set only when no node has it any more, with the same
\* exceptions.
ForgottenLast ==
  [][catalog.set /\ ~catalog'.set /\ ~raced =>
       \A n \in Nodes \ (missed \cup late) : ~Usable(server[n])]_vars

\* A name never refers to a set that is not in userSets, and the id of a database
\* never to one that is not in dbs, whatever handlers overlap.
NoDanglingName ==
  \A n \in Nodes : LET s == server[n] IN
    /\ s.names2ids # NoIds => s.names2ids \in s.userSets
    /\ s.name2id # NoId => s.name2id \in s.dbs

\* Every set in userSets has its name, so that it can be removed, unless handlers
\* overlapped at the node: two copies of one command do.
NoOrphans ==
  \A n \in Nodes \ overlap : server[n].userSets \subseteq {server[n].names2ids}

\* Every request is answered, whatever breaks.
RequestsAnswered == <>(\A r \in Requests : rpc[r] \in {"done", "unsent"})

=============================================================================
