-------------------------------- MODULE Catalog --------------------------------
(***************************************************************************)
(* The catalog of a cluster (serverFunctionalities/source/CatalogServer.cc, *)
(* catalog/source/PDBCatalog.cc, communication/headers/SimpleRequest.cc).  *)
(*                                                                         *)
(* The manager's copy is changed first, and the request is then forwarded  *)
(* to every registered worker, one after the other, under the manager's    *)
(* serverMutex (CatDeleteSetRequest takes no lock).  Each catalog assigns  *)
(* the id of a new type itself.  A worker joins with a CatSyncRequest and  *)
(* a copy of the manager's catalog, and fetches a type it does not know.   *)
(*                                                                         *)
(* There is one database with one set.  A request is handled at most once  *)
(* by the manager; its copies at a worker are <<request, attempt>>.        *)
(* The manager does not crash; the file of a worker's catalog survives.    *)
(***************************************************************************)
EXTENDS Integers, FiniteSets

CONSTANTS
  Workers, Manager,
  None,          \* no request, no type
  Types,         \* names of types that are not built in
  Requests,      \* the requests of each client in their order, and those of workers that join
  Workloads,     \* sets of requests that are sent in one run of the cluster
  Members,       \* the workers that are registered at the beginning
  MaxRetries,    \* MAX_RETRIES of simpleRequest
  MaxFaults,     \* bound: connections that break, and crashes of workers
  MaxFetches     \* bound: fetches of types by workers

Ops == {"createDatabase", "deleteDatabase", "createSet", "deleteSet", "registerType", "sync"}

ASSUME CatalogAssumption ==
  /\ Manager \notin Workers /\ Members \subseteq Workers
  /\ IsFiniteSet(Types) /\ None \notin Types \cup Requests
  /\ \A r \in Requests :
       /\ r.op \in Ops /\ r.no \in Nat
       /\ r.op \in {"createSet", "registerType"} => r.type \in Types
       /\ r.op = "sync" => r.node \in Workers \ Members
  /\ Workloads \subseteq SUBSET Requests
  /\ {MaxRetries, MaxFaults, MaxFetches} \subseteq Nat

Nodes == Workers \cup {Manager}
NoType == -1
TypeNotRecognized == 0      \* 8191: a set of ints and the like
FirstId == 1                \* 8192 plus the number of built-in types

VARIABLES
  cat,           \* pdbCatalog of each node
  nodes,         \* the workers registered at the manager
  serverMutex,   \* of the manager
  rpc, todo, at, tries, res,   \* the handlers of the manager
  inbox,         \* copies of requests that a worker has not handled
  spc, dump,     \* syncWithManager
  fetch,         \* the type a worker fetches, holding its serverMutex
  fetches, faults,
  overwritten, unsynced, raced, stale   \* history, see the properties

handlerVars == <<serverMutex, rpc, todo, at, tries, res>>
joinVars == <<nodes, spc, dump, overwritten, unsynced>>
boundVars == <<fetches, faults>>
vars == <<cat, handlerVars, joinVars, inbox, fetch, boundVars, raced, stale>>

emptyCatalog == [db |-> FALSE, set |-> FALSE, types |-> [t \in Types |-> NoType]]

Init ==
  /\ cat = [n \in Nodes |-> emptyCatalog]
  /\ nodes = Members
  /\ serverMutex = None
  /\ \E load \in Workloads :
       rpc = [r \in Requests |-> IF r \in load THEN "new" ELSE "unsent"]
  /\ todo = [r \in Requests |-> {}]
  /\ at = [r \in Requests |-> Manager] /\ tries = [r \in Requests |-> 0]
  /\ res = [r \in Requests |-> TRUE]
  /\ inbox = [w \in Workers |-> {}]
  /\ spc = [w \in Workers |-> IF w \in Members THEN "up" ELSE "down"]
  /\ dump = [w \in Workers |-> emptyCatalog]
  /\ fetch = [w \in Workers |-> None]
  /\ fetches = 0 /\ faults = 0
  /\ overwritten = {} /\ unsynced = {} /\ raced = FALSE /\ stale = {}

-----------------------------------------------------------------------------
(* PDBCatalog *)

registered(c) == {t \in Types : c.types[t] # NoType}

\* Mutant: only the types that are built in are counted.
numRegisteredTypes_BuiltIn(c) == 0

numRegisteredTypes(c) == Cardinality(registered(c))

\* loadAndRegisterType; id is -1 in a CatRegisterType request, on every node.
loadAndRegisterType(c, t, id) ==
  IF t \in registered(c) THEN c
  ELSE [c EXCEPT !.types[t] = IF id = NoType THEN FirstId + numRegisteredTypes(c) ELSE id]

\* A set of a type that VTableMap does not know brings the type along.
registerOddType(c, t) ==
  IF t \in registered(c) THEN c ELSE [c EXCEPT !.types[t] = TypeNotRecognized]

\* The effect of a request on a catalog.  registerSet looks for "db:db:set" and
\* so never finds the set; the database must be there (foreign key).
applied(c, r) ==
  CASE r.op = "createDatabase" -> [c EXCEPT !.db = TRUE]
    [] r.op = "deleteDatabase" -> [c EXCEPT !.db = FALSE, !.set = FALSE]
    [] r.op = "createSet"      -> [registerOddType(c, r.type) EXCEPT !.set = c.db]
    [] r.op = "deleteSet"      -> [c EXCEPT !.set = FALSE]
    [] r.op = "registerType"   -> loadAndRegisterType(c, r.type, NoType)
    [] r.op = "sync"           -> c

\* and what is answered
accepted(c, r) ==
  CASE r.op = "createDatabase" -> ~c.db
    [] r.op = "deleteDatabase" -> c.db
    [] r.op = "createSet"      -> c.db
    [] r.op = "deleteSet"      -> c.set
    [] r.op \in {"registerType", "sync"} -> TRUE

-----------------------------------------------------------------------------
(* Handlers of the manager *)

Running(r) == rpc[r] \in {"call", "wait"}

\* Mutant: CatRegisterType takes no lock either.
takesLock_NotRegisterType(r) == r.op \notin {"deleteSet", "registerType"}

takesLock(r) == r.op # "deleteSet"

races(r, q) == {r.op, q.op} = {"createSet", "deleteSet"}

\* A request of a client, which has waited for its earlier ones, or of a worker
\* that is not registered yet.
begin(r) ==
  /\ rpc[r] = "new"
  /\ \A q \in Requests : q.client = r.client /\ q.no < r.no => rpc[q] \in {"done", "unsent"}
  /\ r.op = "sync" => spc[r.node] = "sync" /\ r.node \notin nodes
  /\ takesLock(r) => serverMutex = None
  /\ serverMutex' = IF takesLock(r) THEN r ELSE serverMutex
  /\ cat' = [cat EXCEPT ![Manager] = applied(@, r)]
  /\ res' = [res EXCEPT ![r] = accepted(cat[Manager], r)]
  /\ rpc' = [rpc EXCEPT ![r] = "call"] /\ todo' = [todo EXCEPT ![r] = nodes]
  /\ raced' = (raced \/ \E q \in Requests : Running(q) /\ races(r, q))
  /\ UNCHANGED <<at, tries, joinVars, inbox, fetch, boundVars, stale>>

\* broadcastRequest: forwardRequest to the next worker
call(r, w) ==
  /\ rpc[r] = "call" /\ w \in todo[r] /\ spc[w] # "down"
  /\ todo' = [todo EXCEPT ![r] = @ \ {w}]
  /\ at' = [at EXCEPT ![r] = w] /\ tries' = [tries EXCEPT ![r] = 0]
  /\ inbox' = [inbox EXCEPT ![w] = @ \cup {<<r, 0>>}]
  /\ rpc' = [rpc EXCEPT ![r] = "wait"]
  /\ UNCHANGED <<cat, serverMutex, res, joinVars, fetch, boundVars, raced, stale>>

fault == faults < MaxFaults /\ faults' = faults + 1

\* simpleRequest cannot connect and returns onErr.
connectFails(r, w) ==
  /\ rpc[r] = "call" /\ w \in todo[r]
  /\ IF spc[w] = "down" THEN UNCHANGED faults ELSE fault
  /\ todo' = [todo EXCEPT ![r] = @ \ {w}]
  /\ res' = [res EXCEPT ![r] = FALSE]
  /\ UNCHANGED <<cat, serverMutex, rpc, at, tries, joinVars, inbox, fetch, fetches, raced, stale>>

-----------------------------------------------------------------------------
(* Workers *)

Live(w, copy) ==
  LET r == copy[1] IN rpc[r] = "wait" /\ at[r] = w /\ tries[r] = copy[2]

\* Mutant: the result of a worker is not looked at.
combined_Local(old, new) == old

combined(old, new) == new /\ old

\* No answer came: the request is sent again, MAX_RETRIES times at most.
\* rest is what is left in the inbox of the worker.
retry(r, rest) ==
  LET w == at[r]
  IN  IF tries[r] < MaxRetries /\ spc[w] # "down"
        THEN /\ tries' = [tries EXCEPT ![r] = @ + 1]
             /\ inbox' = [inbox EXCEPT ![w] = rest \cup {<<r, tries[r] + 1>>}]
             /\ UNCHANGED <<rpc, res>>
        ELSE /\ rpc' = [rpc EXCEPT ![r] = "call"]
             /\ res' = [res EXCEPT ![r] = combined(@, FALSE)]
             /\ inbox' = [inbox EXCEPT ![w] = rest]
             /\ UNCHANGED tries

\* The handler at a worker runs while no fetch holds its serverMutex.
handle(w, copy) ==
  LET r == copy[1]
      rest == inbox[w] \ {copy}
  IN  /\ spc[w] # "down" /\ copy \in inbox[w]
      /\ takesLock(r) => fetch[w] = None
      /\ cat' = [cat EXCEPT ![w] = applied(@, r)]
      /\ IF Live(w, copy)
           THEN /\ UNCHANGED stale
                /\ \/ /\ inbox' = [inbox EXCEPT ![w] = rest]
                      /\ rpc' = [rpc EXCEPT ![r] = "call"]
                      /\ res' = [res EXCEPT ![r] = combined(@, accepted(cat[w], r))]
                      /\ UNCHANGED <<tries, faults>>
                   \/ fault /\ retry(r, rest)
           ELSE /\ inbox' = [inbox EXCEPT ![w] = rest]
                /\ stale' = IF Running(r) /\ at[r] = w THEN stale ELSE stale \cup {w}
                /\ UNCHANGED <<rpc, res, tries, faults>>
      /\ UNCHANGED <<serverMutex, todo, at, joinVars, fetch, fetches, raced>>

\* The worker crashed before it answered.
Broken(r) == rpc[r] = "wait" /\ <<r, tries[r]>> \notin inbox[at[r]]

\* The connection breaks before the worker has answered.
disconnect(r) ==
  /\ rpc[r] = "wait"
  /\ IF Broken(r) THEN UNCHANGED faults ELSE fault
  /\ retry(r, inbox[at[r]])
  /\ UNCHANGED <<cat, serverMutex, todo, at, joinVars, fetch, fetches, raced, stale>>

\* Mutant: the lock is kept if a worker could not be updated.
release_OnSuccess(r) == IF serverMutex = r /\ res[r] THEN None ELSE serverMutex

release(r) == IF serverMutex = r THEN None ELSE serverMutex

\* All workers have been called; a worker that joins is registered and gets a copy
\* of the catalog, unless the answer is lost.
finish(r) ==
  /\ rpc[r] = "call" /\ todo[r] = {}
  /\ rpc' = [rpc EXCEPT ![r] = "done"]
  /\ at' = [at EXCEPT ![r] = Manager] /\ tries' = [tries EXCEPT ![r] = 0]
  /\ serverMutex' = release(r)
  /\ IF r.op # "sync"
       THEN UNCHANGED <<joinVars, faults>>
       ELSE /\ nodes' = nodes \cup {r.node}
            /\ UNCHANGED overwritten
            /\ \/ /\ spc[r.node] = "sync"
                  /\ spc' = [spc EXCEPT ![r.node] = "dump"]
                  /\ dump' = [dump EXCEPT ![r.node] = cat[Manager]]
                  /\ UNCHANGED <<unsynced, faults>>
               \/ /\ IF spc[r.node] = "sync" THEN fault ELSE UNCHANGED faults
                  /\ unsynced' = unsynced \cup {r.node}
                  /\ UNCHANGED <<spc, dump>>
  /\ UNCHANGED <<cat, todo, res, inbox, fetch, fetches, raced, stale>>

\* A worker that the manager knows is told to go on with the catalog it has.
syncKnown(w) ==
  /\ spc[w] = "sync" /\ w \in nodes /\ serverMutex = None
  /\ spc' = [spc EXCEPT ![w] = "up"]
  /\ UNCHANGED <<cat, handlerVars, nodes, dump, overwritten, unsynced, inbox, fetch, boundVars, raced, stale>>

\* syncWithManager writes the file; the listener has been running for a while.
writeDump(w) ==
  /\ spc[w] = "dump"
  /\ spc' = [spc EXCEPT ![w] = "up"]
  /\ cat' = [cat EXCEPT ![w] = dump[w]]
  /\ overwritten' = IF cat[w] = emptyCatalog THEN overwritten ELSE overwritten \cup {w}
  /\ dump' = [dump EXCEPT ![w] = emptyCatalog]
  /\ UNCHANGED <<handlerVars, nodes, unsynced, inbox, fetch, boundVars, raced, stale>>

crash(w) ==
  /\ spc[w] # "down" /\ fault
  /\ spc' = [spc EXCEPT ![w] = "down"]
  /\ unsynced' = IF spc[w] = "dump" THEN unsynced \cup {w} ELSE unsynced
  /\ dump' = [dump EXCEPT ![w] = emptyCatalog]
  /\ inbox' = [inbox EXCEPT ![w] = {}] /\ fetch' = [fetch EXCEPT ![w] = None]
  /\ UNCHANGED <<cat, handlerVars, nodes, overwritten, fetches, raced, stale>>

start(w) ==
  /\ spc[w] = "down"
  /\ spc' = [spc EXCEPT ![w] = "sync"]
  /\ UNCHANGED <<cat, handlerVars, nodes, dump, overwritten, unsynced, inbox, fetch, boundVars, raced, stale>>

-----------------------------------------------------------------------------
(* A worker meets an object of a type whose id its catalog does not know. *)

ids(c) == {c.types[t] : t \in registered(c)}

fetchType(w, t) ==
  /\ spc[w] # "down" /\ fetch[w] = None
  /\ fetches < MaxFetches /\ fetches' = fetches + 1
  /\ cat[Manager].types[t] \notin {NoType, TypeNotRecognized} \cup ids(cat[w])
  /\ fetch' = [fetch EXCEPT ![w] = t]
  /\ UNCHANGED <<cat, handlerVars, joinVars, inbox, faults, raced, stale>>

\* The manager answers when no handler holds its serverMutex; the id is its own.
fetched(w) ==
  LET t == fetch[w]
  IN  /\ t # None /\ serverMutex = None
      /\ cat' = [cat EXCEPT ![w] = loadAndRegisterType(@, t, cat[Manager].types[t])]
      /\ fetch' = [fetch EXCEPT ![w] = None]
      /\ UNCHANGED <<handlerVars, joinVars, inbox, boundVars, raced, stale>>

fetchFails(w) ==
  /\ fetch[w] # None /\ fault
  /\ fetch' = [fetch EXCEPT ![w] = None]
  /\ UNCHANGED <<cat, handlerVars, joinVars, inbox, fetches, raced, stale>>

-----------------------------------------------------------------------------

ManagerStep(r) ==
  \/ \E w \in Workers : call(r, w) \/ connectFails(r, w)
  \/ finish(r)

WorkerStep(w) ==
  \/ \E copy \in inbox[w] : handle(w, copy)
  \/ syncKnown(w) \/ writeDump(w) \/ fetched(w)

Next ==
  \/ \E r \in Requests : begin(r) \/ ManagerStep(r) \/ disconnect(r)
  \/ \E w \in Workers : \/ WorkerStep(w) \/ fetchFails(w) \/ crash(w) \/ start(w)
                        \/ \E t \in Types : fetchType(w, t)

Spec == Init /\ [][Next]_vars

\* Clients send their requests, handlers that can run do run, and a broken connection
\* is noticed.
Fairness ==
  /\ \A r \in Requests : WF_vars(begin(r))
  /\ \A r \in Requests : WF_vars(ManagerStep(r))
  /\ \A r \in Requests : WF_vars(Broken(r) /\ disconnect(r))
  /\ \A w \in Workers : WF_vars(WorkerStep(w))

FairSpec == Spec /\ Fairness

-----------------------------------------------------------------------------
(* Properties *)

CatalogType ==
  [db : BOOLEAN, set : BOOLEAN, types : [Types -> NoType .. Cardinality(Types)]]

\* Every variable has its type; ids stay below FirstId plus the number of types.
TypeOK ==
  /\ cat \in [Nodes -> CatalogType] /\ dump \in [Workers -> CatalogType]
  /\ nodes \subseteq Workers
  /\ serverMutex \in Requests \cup {None}
  /\ rpc \in [Requests -> {"unsent", "new", "call", "wait", "done"}]
  /\ todo \in [Requests -> SUBSET Workers] /\ at \in [Requests -> Nodes]
  /\ tries \in [Requests -> 0 .. MaxRetries] /\ res \in [Requests -> BOOLEAN]
  /\ inbox \in [Workers -> SUBSET (Requests \X (0 .. MaxRetries))]
  /\ spc \in [Workers -> {"down", "sync", "dump", "up"}]
  /\ fetch \in [Workers -> Types \cup {None}]
  /\ fetches \in 0 .. MaxFetches /\ faults \in 0 .. MaxFaults
  /\ overwritten \subseteq Workers /\ unsynced \subseteq Workers /\ stale \subseteq Workers
  /\ raced \in BOOLEAN

\* Every request that is over was answered with success.
Reported == \A r \in Requests : rpc[r] = "done" => res[r]

\* The manager never gives an id to two types.
ManagerIdsUnique ==
  \A t, u \in registered(cat[Manager]) :
    t # u /\ cat[Manager].types[t] = cat[Manager].types[u] =>
      cat[Manager].types[t] = TypeNotRecognized

\* Objects carry the id of their type from node to node, and each catalog counts
\* for itself: as long as every request was answered with success, a type has the
\* same id wherever it is registered.  Excepted are workers whose copy of the
\* catalog was lost, or was written over changes that had come in meanwhile.
IdsAgree ==
  Reported => \A w \in nodes \ (overwritten \cup unsynced) :
    spc[w] # "dump" => \A t \in registered(cat[w]) : cat[w].types[t] = cat[Manager].types[t]

\* When all is quiet and every request was answered with success, the catalogs are
\* equal; excepted, besides, are workers that handled a copy of a request after it
\* was over, and an unlocked CatDeleteSetRequest next to a CatCreateSetRequest.
CatalogsAgree ==
  /\ Reported /\ ~raced
  /\ \A r \in Requests : ~Running(r)
  /\ \A w \in Workers : inbox[w] = {}
  => \A w \in nodes \ (overwritten \cup unsynced \cup stale) :
       spc[w] # "dump" => cat[w] = cat[Manager]

\* The worker that the manager waits for waits for the manager.
LockCycle ==
  \E r \in Requests :
    rpc[r] = "wait" /\ serverMutex # None /\ takesLock(r) /\ fetch[at[r]] # None

\* Every request of a client is answered, whatever breaks, unless a worker holds its
\* serverMutex and fetches a type from the manager that calls it.
RequestsAnswered ==
  <>((\A r \in Requests : r.op # "sync" => rpc[r] \in {"done", "unsent"}) \/ LockCycle)

=============================================================================
