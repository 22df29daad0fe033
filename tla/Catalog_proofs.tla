----------------------------- MODULE Catalog_proofs -----------------------------
(***************************************************************************)
(* Proofs about the catalog, for any number of workers, clients, requests  *)
(* and types and any number of faults: the manager's ids are unique, the   *)
(* workers' ids are the manager's, and at rest the catalogs are equal.     *)
(***************************************************************************)
EXTENDS Catalog, FiniteSetTheorems, TLAPS

Shape == [db : BOOLEAN, set : BOOLEAN, types : [Types -> Int]]

\* Every id lies below the next one, which is the number of registered types.
Below(c) == \A t \in registered(c) : c.types[t] < FirstId + Cardinality(registered(c))

Unique(c) ==
  \A t, u \in registered(c) :
    t # u /\ c.types[t] = c.types[u] => c.types[t] = TypeNotRecognized

Good(c) == c \in Shape /\ Below(c) /\ Unique(c)

Inv == cat = [n \in Nodes |-> cat[n]] /\ Good(cat[Manager])

-----------------------------------------------------------------------------

\* Registering a type adds one to the number of types.
LEMMA CountTypes ==
  ASSUME NEW c, NEW t \in Types, t \notin registered(c)
  PROVE  /\ Cardinality(registered(c)) \in Nat
         /\ Cardinality(registered(c) \cup {t}) = Cardinality(registered(c)) + 1
<1>1. registered(c) \subseteq Types BY DEF registered
<1>2. IsFiniteSet(registered(c)) BY <1>1, CatalogAssumption, FS_Subset
<1> QED BY <1>2, FS_CardinalityType, FS_AddElement

\* A type that is added with an id that is new, or with that of types VTableMap does
\* not know, keeps the ids apart.
LEMMA AddType ==
  ASSUME NEW c, Good(c), NEW t \in Types, t \notin registered(c), NEW id \in Int,
         id \in {TypeNotRecognized, FirstId + numRegisteredTypes(c)}
  PROVE  Good([c EXCEPT !.types[t] = id])
<1> DEFINE d == [c EXCEPT !.types[t] = id]
<1>1. c \in Shape BY DEF Good
<1>2. d \in Shape /\ d.types = [c.types EXCEPT ![t] = id] BY <1>1 DEF Shape
<1>3. Cardinality(registered(c)) \in Nat BY CountTypes
<1>4. id # NoType /\ id < FirstId + Cardinality(registered(c)) + 1
  BY <1>3 DEF NoType, TypeNotRecognized, FirstId, numRegisteredTypes
<1>5. registered(d) = registered(c) \cup {t} BY <1>1, <1>2, <1>4 DEF registered, Shape
<1>6. Cardinality(registered(d)) = Cardinality(registered(c)) + 1 BY <1>5, CountTypes
<1>7. \A u \in registered(c) : u \in Types /\ u # t /\ d.types[u] = c.types[u] /\ c.types[u] \in Int
  BY <1>1, <1>2 DEF registered, Shape
<1>8. d.types[t] = id BY <1>1, <1>2 DEF Shape
<1> HIDE DEF d
<1>9. Below(d) BY <1>3, <1>4, <1>5, <1>6, <1>7, <1>8 DEF Below, Good, FirstId
<1>10. \A u \in registered(c) : id = c.types[u] => id = TypeNotRecognized
  BY <1>3, <1>7 DEF Good, Below, numRegisteredTypes, FirstId
<1>11. Unique(d) BY <1>5, <1>7, <1>8, <1>10 DEF Unique, Good
<1> QED BY <1>2, <1>9, <1>11 DEF Good, d

\* The tables of databases and sets do not matter.
LEMMA SameTypes ==
  ASSUME NEW c, Good(c), NEW d \in Shape, d.types = c.types
  PROVE  Good(d)
<1>1. registered(d) = registered(c) BY DEF registered
<1> QED BY <1>1 DEF Good, Below, Unique

\* No request makes two types share an id.
LEMMA AppliedGood ==
  ASSUME NEW c, Good(c), NEW r \in Requests
  PROVE  Good(applied(c, r))
<1>1. c \in Shape BY DEF Good
<1>2. r.op \in Ops BY CatalogAssumption
<1>3. CASE r.op = "createSet"
  <2>1. r.type \in Types BY <1>3, CatalogAssumption
  <2> DEFINE e == registerOddType(c, r.type)
  <2>2. Good(e)
    <3>1. CASE r.type \in registered(c) BY <3>1 DEF registerOddType
    <3>2. CASE r.type \notin registered(c)
      <4>1. TypeNotRecognized \in Int BY DEF TypeNotRecognized
      <4> QED BY <2>1, <3>2, <4>1, AddType DEF registerOddType
    <3> QED BY <3>1, <3>2
  <2> HIDE DEF e
  <2>3. [e EXCEPT !.set = c.db] \in Shape /\ [e EXCEPT !.set = c.db].types = e.types
    BY <1>1, <2>2 DEF Good, Shape
  <2>4. Good([e EXCEPT !.set = c.db]) BY <2>2, <2>3, SameTypes
  <2> QED BY <1>3, <2>4 DEF applied, e
<1>4. CASE r.op = "registerType"
  <2>1. r.type \in Types BY <1>4, CatalogAssumption
  <2>2. CASE r.type \in registered(c) BY <1>4, <2>2 DEF applied, loadAndRegisterType
  <2>3. CASE r.type \notin registered(c)
    <3>0. Cardinality(registered(c)) \in Nat BY <2>1, <2>3, CountTypes
    <3>1. FirstId + numRegisteredTypes(c) \in Int
      BY <3>0 DEF numRegisteredTypes, FirstId
    <3>2. Good([c EXCEPT !.types[r.type] = FirstId + numRegisteredTypes(c)])
      BY <2>1, <2>3, <3>1, AddType
    <3> QED BY <1>4, <2>3, <3>2 DEF applied, loadAndRegisterType
  <2> QED BY <2>2, <2>3
<1>5. CASE r.op \in {"createDatabase", "deleteDatabase", "deleteSet", "sync"}
  <2>1. applied(c, r) \in Shape /\ applied(c, r).types = c.types
    BY <1>1, <1>5 DEF applied, Shape
  <2> QED BY <2>1, SameTypes
<1> QED BY <1>2, <1>3, <1>4, <1>5 DEF Ops

\* The catalogs are empty at the beginning.
LEMMA Initial == Init => Inv
<1> SUFFICES ASSUME Init PROVE Inv OBVIOUS
<1>1. Good(emptyCatalog)
  BY DEF Good, emptyCatalog, Shape, Below, Unique, registered, NoType
<1>2. cat = [n \in Nodes |-> emptyCatalog] BY DEF Init
<1> QED BY <1>1, <1>2 DEF Inv, Nodes

\* Only the handlers of the manager change its catalog.
LEMMA InvKept ==
  ASSUME Inv, [Next]_vars
  PROVE  Inv'
<1> USE DEF Inv
<1>1. ASSUME NEW r \in Requests, begin(r) PROVE Inv'
  <2>1. cat' = [cat EXCEPT ![Manager] = applied(cat[Manager], r)] BY <1>1 DEF begin
  <2>2. Good(applied(cat[Manager], r)) BY AppliedGood
  <2> QED BY <2>1, <2>2 DEF Nodes
<1>2. ASSUME NEW w \in Workers, NEW c, cat' = [cat EXCEPT ![w] = c] PROVE Inv'
  <2>1. w # Manager BY CatalogAssumption
  <2> QED BY <1>2, <2>1 DEF Nodes
<1>3. ASSUME UNCHANGED cat PROVE Inv' BY <1>3
<1>4. ASSUME NEW r \in Requests, ManagerStep(r) \/ disconnect(r) PROVE Inv'
  BY <1>3, <1>4 DEF ManagerStep, call, connectFails, finish, disconnect
<1>5. ASSUME NEW w \in Workers, WorkerStep(w) PROVE Inv'
  <2>1. (\E c : cat' = [cat EXCEPT ![w] = c]) \/ UNCHANGED cat
    BY <1>5 DEF WorkerStep, handle, syncKnown, writeDump, fetched
  <2> QED BY <1>2, <1>3, <2>1
<1>6. ASSUME NEW w \in Workers, NEW t \in Types,
             fetchFails(w) \/ crash(w) \/ start(w) \/ fetchType(w, t)
      PROVE  Inv'
  BY <1>3, <1>6 DEF fetchFails, crash, start, fetchType
<1>7. ASSUME NEW w \in Workers, fetchFails(w) \/ crash(w) \/ start(w) PROVE Inv'
  BY <1>3, <1>7 DEF fetchFails, crash, start
<1>8. CASE UNCHANGED vars BY <1>3, <1>8 DEF vars
<1> QED BY <1>1, <1>4, <1>5, <1>6, <1>7, <1>8 DEF Next

\* The manager never gives an id to two types, however many are registered, by whatever
\* requests, and whatever breaks.
THEOREM ManagerIdsUniqueCorrect == Spec => []ManagerIdsUnique
<1>1. Inv => ManagerIdsUnique BY DEF Inv, Good, Unique, ManagerIdsUnique
<1> QED BY <1>1, Initial, InvKept, PTL DEF Spec
-----------------------------------------------------------------------------
(* Ids of types on the workers: the inductive invariant *)

\* The requests that register a type.
Registers(r) == r.op \in {"createSet", "registerType"}

\* What the requests do to a table of types.
after(types, r) ==
  IF ~Registers(r) \/ types[r.type] # NoType THEN types
  ELSE [types EXCEPT ![r.type] =
         IF r.op = "createSet" THEN TypeNotRecognized
         ELSE FirstId + Cardinality({t \in Types : types[t] # NoType})]

\* The catalog that a worker has, or will have when it has written its copy.
base(w) == IF spc[w] = "dump" THEN dump[w] ELSE cat[w]

\* The workers the property is about.  A worker that has registered a type before it writes
\* its copy writes over it.
Settled(w) ==
  /\ w \in nodes \ (overwritten \cup unsynced)
  /\ spc[w] = "dump" => registered(cat[w]) = {}

\* A handler has yet to bring its request to a worker, or has failed to.
Pending(r, w) == w \in todo[r] \/ (rpc[r] = "wait" /\ at[r] = w) \/ ~res[r]

Began(r) == rpc[r] \in {"call", "wait", "done"}

CatalogTypes ==
  /\ cat \in [Nodes -> Shape] /\ dump \in [Workers -> Shape]
  /\ rpc \in [Requests -> {"unsent", "new", "call", "wait", "done"}]
  /\ todo \in [Requests -> SUBSET Workers] /\ at \in [Requests -> Nodes]
  /\ tries \in [Requests -> Nat] /\ res \in [Requests -> BOOLEAN]
  /\ inbox \in [Workers -> SUBSET (Requests \X Nat)]
  /\ spc \in [Workers -> {"down", "sync", "dump", "up"}]
  /\ fetch \in [Workers -> Types \cup {None}]
  /\ nodes \subseteq Workers /\ serverMutex \in Requests \cup {None}

\* The handlers that take the lock run one after the other.
Locking ==
  /\ \A r \in Requests : Running(r) /\ takesLock(r) => serverMutex = r
  /\ serverMutex # None => Running(serverMutex)
  /\ \A r \in Requests : rpc[r] = "wait" => at[r] \in Workers

\* The manager knows the types of the requests it has begun to handle, and of fetches.
Known ==
  /\ \A r \in Requests : Began(r) /\ Registers(r) => r.type \in registered(cat[Manager])
  /\ \A w \in Workers : fetch[w] # None => fetch[w] \in registered(cat[Manager])
  /\ \A w \in Workers : \A copy \in inbox[w] : Began(copy[1])

\* The types of a worker are those of the manager, or the handler that holds the lock is about
\* to make them so.
Agrees(w) ==
  \/ base(w).types = cat[Manager].types
  \/ /\ serverMutex # None /\ Registers(serverMutex) /\ Pending(serverMutex, w)
     /\ after(base(w).types, serverMutex) = cat[Manager].types

\* A copy of a request that comes late finds its type registered.
LateKnown(w) ==
  \A copy \in inbox[w] :
    Registers(copy[1]) => copy[1] = serverMutex \/ copy[1].type \in registered(base(w))

WorkersAgree == Reported => \A w \in Workers : Settled(w) => Agrees(w) /\ LateKnown(w)

IdsInv == CatalogTypes /\ Locking /\ Known /\ WorkersAgree

\* What a request does to the types of a catalog depends on these only.
LEMMA AppliedTypes ==
  ASSUME NEW c \in Shape, NEW r \in Requests
  PROVE  applied(c, r) \in Shape /\ applied(c, r).types = after(c.types, r)
<1>1. r.op \in Ops /\ (Registers(r) => r.type \in Types) BY CatalogAssumption DEF Registers
<1>2. Cardinality(registered(c)) \in Nat
  BY CatalogAssumption, FS_Subset, FS_CardinalityType DEF registered
<1>3. Cardinality({t \in Types : c.types[t] # NoType}) = Cardinality(registered(c)) BY DEF registered
<1>4. CASE r.op \in {"createDatabase", "deleteDatabase", "deleteSet", "sync"}
  BY <1>4 DEF applied, after, Registers, Shape
<1>5. CASE r.op = "createSet"
  <2>1. r.type \in Types BY <1>1, <1>5 DEF Registers
  <2> DEFINE e == registerOddType(c, r.type)
  <2>2. e \in Shape /\ e.types = after(c.types, r)
    BY <1>5, <2>1 DEF registerOddType, registered, after, Registers, Shape, TypeNotRecognized
  <2>3. applied(c, r) = [e EXCEPT !.set = c.db] BY <1>5 DEF applied
  <2> HIDE DEF e
  <2> QED BY <2>2, <2>3 DEF Shape
<1>6. CASE r.op = "registerType"
  <2>1. r.type \in Types BY <1>1, <1>6 DEF Registers
  <2>2. applied(c, r) = IF c.types[r.type] # NoType THEN c
                        ELSE [c EXCEPT !.types[r.type] = FirstId + Cardinality(registered(c))]
    BY <1>6, <2>1 DEF applied, loadAndRegisterType, registered, numRegisteredTypes
  <2>3. after(c.types, r) = IF c.types[r.type] # NoType THEN c.types
                            ELSE [c.types EXCEPT ![r.type] = FirstId + Cardinality(registered(c))]
    BY <1>3, <1>6 DEF after, Registers
  <2>4. FirstId + Cardinality(registered(c)) \in Int BY <1>2 DEF FirstId
  <2> QED BY <2>1, <2>2, <2>3, <2>4 DEF Shape
<1> QED BY <1>1, <1>4, <1>5, <1>6 DEF Ops

\* A request adds its type if it is not there, and leaves the others alone.
LEMMA AfterFacts ==
  ASSUME NEW types \in [Types -> Int], NEW r \in Requests
  PROVE  /\ after(types, r) \in [Types -> Int]
         /\ \A t \in Types : types[t] # NoType => after(types, r)[t] = types[t]
         /\ ~Registers(r) => after(types, r) = types
         /\ Registers(r) => /\ r.type \in Types /\ after(types, r)[r.type] # NoType
                            /\ types[r.type] # NoType => after(types, r) = types
                            /\ \A t \in Types : t # r.type => after(types, r)[t] = types[t]
<1> DEFINE n == Cardinality({t \in Types : types[t] # NoType})
<1>1. n \in Nat
  BY CatalogAssumption, FS_Subset, FS_CardinalityType
<1>2. Registers(r) => r.type \in Types BY CatalogAssumption DEF Registers
<1>3. FirstId + n \in Int /\ FirstId + n # NoType /\ TypeNotRecognized \in Int /\ TypeNotRecognized # NoType
  BY <1>1 DEF FirstId, NoType, TypeNotRecognized
<1>4. after(types, r) = IF ~Registers(r) \/ types[r.type] # NoType THEN types
        ELSE [types EXCEPT ![r.type] = IF r.op = "createSet" THEN TypeNotRecognized ELSE FirstId + n]
  BY DEF after
<1> HIDE DEF n
<1> QED BY <1>2, <1>3, <1>4

\* A request that is over stays so, with its answer.
LEMMA OverStays ==
  ASSUME CatalogTypes, [Next]_vars
  PROVE  Reported' => Reported
<1> DEFINE Stays == \A q \in Requests : rpc[q] = "done" => rpc'[q] = "done" /\ res'[q] = res[q]
<1>0. Stays => (Reported' => Reported) BY DEF Reported
<1> USE DEF CatalogTypes
<1>1. ASSUME NEW r \in Requests, begin(r) PROVE Stays BY <1>1 DEF begin
<1>2. ASSUME NEW r \in Requests, NEW w \in Workers, call(r, w) \/ connectFails(r, w) PROVE Stays
  BY <1>2 DEF call, connectFails
<1>3. ASSUME NEW r \in Requests, finish(r) PROVE Stays BY <1>3 DEF finish
<1>4. ASSUME NEW r \in Requests, NEW rest, rpc[r] = "wait", retry(r, rest) PROVE Stays
  BY <1>4 DEF retry
<1>5. ASSUME NEW r \in Requests, disconnect(r) PROVE Stays BY <1>4, <1>5 DEF disconnect
<1>6. ASSUME NEW w \in Workers, NEW copy \in inbox[w], handle(w, copy) PROVE Stays
  <2>1. copy[1] \in Requests OBVIOUS
  <2>2. CASE Live(w, copy)
    <3>1. rpc[copy[1]] = "wait" BY <2>2 DEF Live
    <3>2. CASE rpc' = [rpc EXCEPT ![copy[1]] = "call"]
               /\ res' = [res EXCEPT ![copy[1]] = combined(@, accepted(cat[w], copy[1]))]
      BY <2>1, <3>1, <3>2
    <3>3. CASE retry(copy[1], inbox[w] \ {copy}) BY <1>4, <2>1, <3>1, <3>3
    <3> QED BY <1>6, <2>2, <3>2, <3>3 DEF handle
  <2>3. CASE ~Live(w, copy) BY <1>6, <2>3 DEF handle
  <2> QED BY <2>2, <2>3
<1>7. ASSUME NEW w \in Workers, syncKnown(w) \/ writeDump(w) \/ fetched(w) \/ fetchFails(w) \/ crash(w) \/ start(w)
             \/ \E t \in Types : fetchType(w, t)
      PROVE Stays
  BY <1>7 DEF syncKnown, writeDump, fetched, fetchFails, crash, start, fetchType, handlerVars
<1>8. CASE UNCHANGED vars
  <2>1. UNCHANGED <<rpc, res>> BY <1>8 DEF vars, handlerVars
  <2>2. Stays BY <2>1
  <2> QED BY <1>0, <2>2
<1> QED BY <1>0, <1>1, <1>2, <1>3, <1>5, <1>6, <1>7, <1>8 DEF Next, ManagerStep, WorkerStep

\* Sending a request again, or giving it up.
LEMMA RetryFacts ==
  ASSUME CatalogTypes, NEW r \in Requests, rpc[r] = "wait", at[r] \in Workers,
         NEW rest \in SUBSET (Requests \X Nat), retry(r, rest)
  PROVE  /\ tries' \in [Requests -> Nat] /\ rpc' \in [Requests -> {"unsent", "new", "call", "wait", "done"}]
         /\ res' \in [Requests -> BOOLEAN] /\ inbox' \in [Workers -> SUBSET (Requests \X Nat)]
         /\ \A q \in Requests : q # r => rpc'[q] = rpc[q] /\ res'[q] = res[q]
         /\ \/ rpc'[r] = "wait" /\ res'[r] = res[r]
            \/ rpc'[r] = "call" /\ ~res'[r]
         /\ \A w \in Workers : w # at[r] => inbox'[w] = inbox[w]
         /\ inbox'[at[r]] \subseteq rest \cup {<<r, k>> : k \in Nat}
<1> USE DEF CatalogTypes
<1>1. CASE tries[r] < MaxRetries /\ spc[at[r]] # "down"
  <2>1. /\ tries' = [tries EXCEPT ![r] = @ + 1] /\ UNCHANGED <<rpc, res>>
        /\ inbox' = [inbox EXCEPT ![at[r]] = rest \cup {<<r, tries[r] + 1>>}]
    BY <1>1 DEF retry
  <2>2. tries[r] + 1 \in Nat OBVIOUS
  <2>3. rest \cup {<<r, tries[r] + 1>>} \in SUBSET (Requests \X Nat) BY <2>2
  <2> QED BY <2>1, <2>2, <2>3
<1>2. CASE ~(tries[r] < MaxRetries /\ spc[at[r]] # "down")
  <2>1. /\ rpc' = [rpc EXCEPT ![r] = "call"] /\ res' = [res EXCEPT ![r] = FALSE]
        /\ inbox' = [inbox EXCEPT ![at[r]] = rest] /\ tries' = tries
    BY <1>2 DEF retry, combined
  <2> QED BY <2>1
<1> QED BY <1>1, <1>2

\* The handler of a request calls a worker, fails to, or loses the connection: the request
\* runs on, and is still to reach the workers it had to reach.
Moved(r) ==
  /\ UNCHANGED <<cat, dump, spc, nodes, overwritten, unsynced, serverMutex, fetch, raced, stale>>
  /\ Running(r) /\ rpc'[r] \in {"call", "wait"}
  /\ \A q \in Requests : q # r => rpc'[q] = rpc[q] /\ todo'[q] = todo[q] /\ at'[q] = at[q] /\ res'[q] = res[q]
  /\ rpc'[r] = "wait" => at'[r] \in Workers
  /\ (res'[r] => res[r]) /\ todo'[r] \subseteq todo[r]
  /\ rpc'[r] = "wait" => at'[r] \in todo[r] \/ (rpc[r] = "wait" /\ at'[r] = at[r])
  /\ \A v \in Workers : v \notin todo[r] /\ ~(rpc[r] = "wait" /\ at[r] = v) => inbox'[v] = inbox[v]
  /\ \A v \in Workers : Pending(r, v) => v \in todo'[r] \/ (rpc'[r] = "wait" /\ at'[r] = v) \/ ~res'[r]
  /\ \A v \in Workers : inbox'[v] \subseteq inbox[v] \cup {<<r, k>> : k \in Nat}
  /\ at' \in [Requests -> Nodes] /\ todo' \in [Requests -> SUBSET Workers]
  /\ tries' \in [Requests -> Nat] /\ rpc' \in [Requests -> {"unsent", "new", "call", "wait", "done"}]
  /\ res' \in [Requests -> BOOLEAN] /\ inbox' \in [Workers -> SUBSET (Requests \X Nat)]

\* What call, connectFails and disconnect do.
LEMMA HandlerMoves ==
  ASSUME CatalogTypes, Locking, NEW r \in Requests,
         disconnect(r) \/ \E w \in Workers : call(r, w) \/ connectFails(r, w)
  PROVE  Moved(r)
<1> USE DEF CatalogTypes
<1>1. ASSUME NEW w \in Workers, call(r, w) PROVE Moved(r)
  <2>1. /\ rpc[r] = "call" /\ w \in todo[r]
        /\ todo' = [todo EXCEPT ![r] = @ \ {w}] /\ at' = [at EXCEPT ![r] = w]
        /\ tries' = [tries EXCEPT ![r] = 0] /\ inbox' = [inbox EXCEPT ![w] = @ \cup {<<r, 0>>}]
        /\ rpc' = [rpc EXCEPT ![r] = "wait"] /\ res' = res
        /\ UNCHANGED <<cat, dump, spc, nodes, overwritten, unsynced, serverMutex, fetch, raced, stale>>
    BY <1>1 DEF call, joinVars
  <2>2. w \in Nodes BY DEF Nodes
  <2>3. inbox' \in [Workers -> SUBSET (Requests \X Nat)]
    <3>1. inbox[w] \cup {<<r, 0>>} \in SUBSET (Requests \X Nat) OBVIOUS
    <3> QED BY <2>1, <3>1
  <2>4. \A v \in Workers : inbox'[v] \subseteq inbox[v] \cup {<<r, k>> : k \in Nat} BY <2>1
  <2>5. \A v \in Workers : Pending(r, v) => v \in todo'[r] \/ (rpc'[r] = "wait" /\ at'[r] = v) \/ ~res'[r]
    BY <2>1 DEF Pending
  <2>6. rpc'[r] = "wait" /\ at'[r] = w BY <2>1, <2>2
  <2>7. /\ at' \in [Requests -> Nodes] /\ todo' \in [Requests -> SUBSET Workers]
        /\ tries' \in [Requests -> Nat] /\ rpc' \in [Requests -> {"unsent", "new", "call", "wait", "done"}]
        /\ res' \in [Requests -> BOOLEAN]
    BY <2>1, <2>2
  <2>8. \A q \in Requests : q # r => rpc'[q] = rpc[q] /\ todo'[q] = todo[q] /\ at'[q] = at[q] /\ res'[q] = res[q]
    BY <2>1
  <2> QED BY <2>1, <2>3, <2>4, <2>5, <2>6, <2>7, <2>8 DEF Moved, Running
<1>2. ASSUME NEW w \in Workers, connectFails(r, w) PROVE Moved(r)
  <2>1. /\ rpc[r] = "call" /\ w \in todo[r]
        /\ todo' = [todo EXCEPT ![r] = @ \ {w}] /\ res' = [res EXCEPT ![r] = FALSE]
        /\ UNCHANGED <<rpc, at, tries, inbox>>
        /\ UNCHANGED <<cat, dump, spc, nodes, overwritten, unsynced, serverMutex, fetch, raced, stale>>
    BY <1>2 DEF connectFails, joinVars
  <2> QED BY <2>1 DEF Moved, Running
<1>3. ASSUME disconnect(r) PROVE Moved(r)
  <2>1. /\ rpc[r] = "wait" /\ retry(r, inbox[at[r]]) /\ UNCHANGED <<todo, at>>
        /\ UNCHANGED <<cat, dump, spc, nodes, overwritten, unsynced, serverMutex, fetch, raced, stale>>
    BY <1>3 DEF disconnect, joinVars
  <2>2. at[r] \in Workers BY <2>1 DEF Locking
  <2>3. inbox[at[r]] \in SUBSET (Requests \X Nat) BY <2>2
  <2> DEFINE rest == inbox[at[r]]
  <2>4. /\ tries' \in [Requests -> Nat] /\ rpc' \in [Requests -> {"unsent", "new", "call", "wait", "done"}]
        /\ res' \in [Requests -> BOOLEAN] /\ inbox' \in [Workers -> SUBSET (Requests \X Nat)]
        /\ \A q \in Requests : q # r => rpc'[q] = rpc[q] /\ res'[q] = res[q]
        /\ \/ rpc'[r] = "wait" /\ res'[r] = res[r]
           \/ rpc'[r] = "call" /\ ~res'[r]
        /\ \A w \in Workers : w # at[r] => inbox'[w] = inbox[w]
        /\ inbox'[at[r]] \subseteq rest \cup {<<r, k>> : k \in Nat}
    BY <2>1, <2>2, <2>3, RetryFacts
  <2>5. \A v \in Workers : inbox'[v] \subseteq inbox[v] \cup {<<r, k>> : k \in Nat} BY <2>4
  <2>6. \A v \in Workers : Pending(r, v) => v \in todo'[r] \/ (rpc'[r] = "wait" /\ at'[r] = v) \/ ~res'[r]
    BY <2>1, <2>4 DEF Pending
  <2> HIDE DEF rest
  <2> QED BY <2>1, <2>2, <2>4, <2>5, <2>6 DEF Moved, Running
<1> QED BY <1>1, <1>2, <1>3

\* A worker handles a copy: its catalog is changed as the request says, and the handler at the
\* manager, if it waits for this copy, has the answer or sends the request again.
Handled(w, r) ==
  /\ cat' = [cat EXCEPT ![w] = applied(cat[w], r)]
  /\ UNCHANGED <<dump, spc, nodes, overwritten, unsynced, serverMutex, fetch, raced, todo, at>>
  /\ takesLock(r) => fetch[w] = None
  /\ \A q \in Requests : q # r => rpc'[q] = rpc[q] /\ res'[q] = res[q]
  /\ \/ UNCHANGED <<rpc, res>>
     \/ rpc[r] = "wait" /\ at[r] = w /\ rpc'[r] = "call" /\ (res'[r] => res[r] /\ accepted(cat[w], r))
  /\ \A v \in Workers : inbox'[v] \subseteq inbox[v] \cup {<<r, k>> : k \in Nat}
  /\ \A v \in Workers : v # w => inbox'[v] = inbox[v]
  /\ stale \subseteq stale'
  /\ (Running(r) /\ at[r] = w) \/ w \in stale'
  /\ tries' \in [Requests -> Nat] /\ rpc' \in [Requests -> {"unsent", "new", "call", "wait", "done"}]
  /\ res' \in [Requests -> BOOLEAN] /\ inbox' \in [Workers -> SUBSET (Requests \X Nat)]

\* What handle does, whether the manager still waits for the copy or not.
LEMMA WorkerHandles ==
  ASSUME CatalogTypes, Locking, NEW w \in Workers, NEW copy \in inbox[w], handle(w, copy)
  PROVE  copy[1] \in Requests /\ Handled(w, copy[1])
<1> USE DEF CatalogTypes
<1> DEFINE r == copy[1]
           rest == inbox[w] \ {copy}
<1>1. r \in Requests /\ rest \in SUBSET (Requests \X Nat) OBVIOUS
<1>2. /\ cat' = [cat EXCEPT ![w] = applied(cat[w], r)] /\ spc[w] # "down"
      /\ UNCHANGED <<dump, spc, nodes, overwritten, unsynced, serverMutex, fetch, raced, todo, at>>
      /\ takesLock(r) => fetch[w] = None
  BY DEF handle, joinVars
<1>3. CASE /\ Live(w, copy) /\ stale' = stale
           /\ inbox' = [inbox EXCEPT ![w] = rest] /\ rpc' = [rpc EXCEPT ![r] = "call"]
           /\ res' = [res EXCEPT ![r] = combined(@, accepted(cat[w], r))] /\ tries' = tries
  <2>1. rpc[r] = "wait" /\ at[r] = w BY <1>3 DEF Live
  <2>2. \/ accepted(cat[w], r) /\ combined(res[r], accepted(cat[w], r)) = res[r]
        \/ ~accepted(cat[w], r) /\ combined(res[r], accepted(cat[w], r)) = FALSE
    BY <1>1 DEF combined
  <2>3. /\ combined(res[r], accepted(cat[w], r)) \in BOOLEAN
        /\ combined(res[r], accepted(cat[w], r)) => res[r] /\ accepted(cat[w], r)
    BY <1>1, <2>2
  <2>4. res' \in [Requests -> BOOLEAN] /\ (res'[r] => res[r] /\ accepted(cat[w], r))
        /\ \A q \in Requests : q # r => res'[q] = res[q]
    BY <1>1, <1>3, <2>3
  <2>5. inbox' \in [Workers -> SUBSET (Requests \X Nat)] /\ \A v \in Workers : inbox'[v] \subseteq inbox[v]
        /\ (v # w => inbox'[v] = inbox[v])
    BY <1>1, <1>3
  <2>6. rpc' \in [Requests -> {"unsent", "new", "call", "wait", "done"}] /\ rpc'[r] = "call"
        /\ \A q \in Requests : q # r => rpc'[q] = rpc[q]
    BY <1>1, <1>3
  <2>7. \A v \in Workers : inbox'[v] \subseteq inbox[v] \cup {<<r, k>> : k \in Nat} BY <2>5
  <2> HIDE DEF r, rest
  <2>8. Handled(w, r) BY <1>2, <1>3, <2>1, <2>4, <2>5, <2>6, <2>7 DEF Handled, Running
  <2> QED BY <1>1, <2>8 DEF r
<1>4. CASE Live(w, copy) /\ stale' = stale /\ retry(r, rest)
  <2>1. rpc[r] = "wait" /\ at[r] = w BY <1>4 DEF Live
  <2> HIDE DEF r, rest
  <2>2. /\ tries' \in [Requests -> Nat] /\ rpc' \in [Requests -> {"unsent", "new", "call", "wait", "done"}]
        /\ res' \in [Requests -> BOOLEAN] /\ inbox' \in [Workers -> SUBSET (Requests \X Nat)]
        /\ \A q \in Requests : q # r => rpc'[q] = rpc[q] /\ res'[q] = res[q]
        /\ \/ rpc'[r] = "wait" /\ res'[r] = res[r]
           \/ rpc'[r] = "call" /\ ~res'[r]
        /\ \A v \in Workers : v # at[r] => inbox'[v] = inbox[v]
        /\ inbox'[at[r]] \subseteq rest \cup {<<r, k>> : k \in Nat}
    BY <1>1, <1>4, <2>1, RetryFacts
  <2>3. \A v \in Workers : inbox'[v] \subseteq inbox[v] \cup {<<r, k>> : k \in Nat} BY <2>1, <2>2 DEF rest
  <2>4. ASSUME rpc'[r] = "wait" /\ res'[r] = res[r] PROVE UNCHANGED <<rpc, res>>
    <3>1. \A q \in Requests : rpc'[q] = rpc[q] /\ res'[q] = res[q] BY <1>1, <2>1, <2>2, <2>4
    <3> QED BY <2>2, <3>1
  <2>5. Handled(w, r) BY <1>2, <1>4, <2>1, <2>2, <2>3, <2>4 DEF Handled, Running
  <2> QED BY <1>1, <2>5 DEF r
<1>5. CASE /\ ~Live(w, copy) /\ inbox' = [inbox EXCEPT ![w] = rest]
           /\ stale' = IF Running(r) /\ at[r] = w THEN stale ELSE stale \cup {w}
           /\ UNCHANGED <<rpc, res, tries>>
  <2>1. inbox' \in [Workers -> SUBSET (Requests \X Nat)] /\ \A v \in Workers : inbox'[v] \subseteq inbox[v]
        /\ (v # w => inbox'[v] = inbox[v])
    BY <1>1, <1>5
  <2>2. \A v \in Workers : inbox'[v] \subseteq inbox[v] \cup {<<r, k>> : k \in Nat} BY <2>1
  <2> HIDE DEF r, rest
  <2>3. stale \subseteq stale' /\ ((Running(r) /\ at[r] = w) \/ w \in stale') BY <1>5
  <2>4. Handled(w, r) BY <1>2, <1>5, <2>1, <2>2, <2>3 DEF Handled
  <2> QED BY <1>1, <2>4 DEF r
<1> QED BY <1>3, <1>4, <1>5 DEF handle

\* A request registers its type and forgets none.
LEMMA AppliedRegisters ==
  ASSUME NEW c \in Shape, NEW r \in Requests
  PROVE  /\ registered(c) \subseteq registered(applied(c, r))
         /\ Registers(r) => r.type \in registered(applied(c, r))
<1>1. applied(c, r).types = after(c.types, r) BY AppliedTypes
<1>2. c.types \in [Types -> Int] BY DEF Shape
<1> QED BY <1>1, <1>2, AfterFacts DEF registered

\* A type that is fetched has the manager's id.
LEMMA FetchShape ==
  ASSUME NEW c \in Shape, NEW t \in Types, NEW id \in Int
  PROVE  loadAndRegisterType(c, t, id) \in Shape
<1>1. Cardinality(registered(c)) \in Nat
  BY CatalogAssumption, FS_Subset, FS_CardinalityType DEF registered
<1>2. FirstId + numRegisteredTypes(c) \in Int BY <1>1 DEF FirstId, numRegisteredTypes
<1> DEFINE n == IF id = NoType THEN FirstId + numRegisteredTypes(c) ELSE id
<1>3. n \in Int BY <1>2
<1>4. loadAndRegisterType(c, t, id) = IF t \in registered(c) THEN c ELSE [c EXCEPT !.types[t] = n]
  BY DEF loadAndRegisterType
<1> HIDE DEF n
<1> QED BY <1>3, <1>4 DEF Shape

\* Every variable keeps its type.
LEMMA TypesKept ==
  ASSUME CatalogTypes, Locking, [Next]_vars
  PROVE  CatalogTypes'
<1> USE DEF CatalogTypes
<1>0. Manager \in Nodes /\ Manager \notin Workers /\ Workers \subseteq Nodes /\ emptyCatalog \in Shape
  BY CatalogAssumption DEF Nodes, emptyCatalog, Shape, NoType
<1>1. ASSUME NEW r \in Requests, begin(r) PROVE CatalogTypes'
  <2>1. applied(cat[Manager], r) \in Shape BY <1>0, AppliedTypes
  <2>2. accepted(cat[Manager], r) \in BOOLEAN
    BY <1>0, CatalogAssumption DEF accepted, Ops, Shape
  <2>3. /\ serverMutex' = IF takesLock(r) THEN r ELSE serverMutex
        /\ cat' = [cat EXCEPT ![Manager] = applied(cat[Manager], r)]
        /\ res' = [res EXCEPT ![r] = accepted(cat[Manager], r)]
        /\ rpc' = [rpc EXCEPT ![r] = "call"] /\ todo' = [todo EXCEPT ![r] = nodes]
        /\ UNCHANGED <<at, tries, nodes, spc, dump, inbox, fetch>>
    BY <1>1 DEF begin, joinVars
  <2> QED BY <2>1, <2>2, <2>3
<1>2. ASSUME NEW r \in Requests, Moved(r) PROVE CatalogTypes' BY <1>2 DEF Moved
<1>3. ASSUME NEW r \in Requests, finish(r) PROVE CatalogTypes'
  <2>1. /\ rpc' = [rpc EXCEPT ![r] = "done"] /\ at' = [at EXCEPT ![r] = Manager]
        /\ tries' = [tries EXCEPT ![r] = 0] /\ serverMutex' = release(r)
        /\ UNCHANGED <<cat, todo, res, inbox, fetch>>
    BY <1>3 DEF finish
  <2>2. CASE r.op # "sync"
    <3>1. UNCHANGED <<nodes, spc, dump>> BY <1>3, <2>2 DEF finish, joinVars
    <3> QED BY <1>0, <2>1, <3>1 DEF release
  <2>3. CASE r.op = "sync"
    <3>1. r.node \in Workers BY <2>3, CatalogAssumption
    <3>2. /\ nodes' = nodes \cup {r.node}
          /\ \/ spc' = [spc EXCEPT ![r.node] = "dump"] /\ dump' = [dump EXCEPT ![r.node] = cat[Manager]]
             \/ UNCHANGED <<spc, dump>>
      BY <1>3, <2>3 DEF finish
    <3>3. spc' \in [Workers -> {"down", "sync", "dump", "up"}] /\ dump' \in [Workers -> Shape]
      BY <1>0, <3>1, <3>2
    <3> QED BY <1>0, <2>1, <3>1, <3>2, <3>3 DEF release
  <2> QED BY <2>2, <2>3
<1>4. ASSUME NEW w \in Workers, NEW r \in Requests, Handled(w, r) PROVE CatalogTypes'
  <2>1. applied(cat[w], r) \in Shape BY <1>0, AppliedTypes
  <2>2. cat' = [cat EXCEPT ![w] = applied(cat[w], r)] BY <1>4 DEF Handled
  <2> QED BY <1>4, <2>1, <2>2 DEF Handled
<1>5. ASSUME NEW w \in Workers, syncKnown(w) \/ start(w) PROVE CatalogTypes'
  BY <1>5 DEF syncKnown, start, handlerVars
<1>6. ASSUME NEW w \in Workers, writeDump(w) PROVE CatalogTypes'
  BY <1>0, <1>6 DEF writeDump, handlerVars
<1>7. ASSUME NEW w \in Workers, crash(w) PROVE CatalogTypes'
  BY <1>0, <1>7 DEF crash, handlerVars
<1>8. ASSUME NEW w \in Workers, fetched(w) PROVE CatalogTypes'
  <2>1. fetch[w] \in Types BY <1>8 DEF fetched
  <2>2. cat[Manager].types[fetch[w]] \in Int BY <1>0, <2>1 DEF Shape
  <2>3. loadAndRegisterType(cat[w], fetch[w], cat[Manager].types[fetch[w]]) \in Shape
    BY <1>0, <2>1, <2>2, FetchShape
  <2>4. /\ cat' = [cat EXCEPT ![w] = loadAndRegisterType(cat[w], fetch[w], cat[Manager].types[fetch[w]])]
        /\ fetch' = [fetch EXCEPT ![w] = None]
        /\ UNCHANGED <<dump, rpc, todo, at, tries, res, inbox, spc, nodes, serverMutex>>
    BY <1>8 DEF fetched, handlerVars, joinVars
  <2> QED BY <2>3, <2>4
<1>9. ASSUME NEW w \in Workers, fetchFails(w) \/ \E t \in Types : fetchType(w, t) PROVE CatalogTypes'
  BY <1>9 DEF fetchFails, fetchType, handlerVars, joinVars
<1>10. CASE UNCHANGED vars BY <1>10 DEF vars, handlerVars, joinVars
<1> QED
  BY <1>1, <1>2, <1>3, <1>4, <1>5, <1>6, <1>7, <1>8, <1>9, <1>10, HandlerMoves, WorkerHandles
  DEF Next, ManagerStep, WorkerStep

\* The lock is taken by begin and given back by finish, and by nobody else.
LEMMA LockingKept ==
  ASSUME CatalogTypes, Locking, [Next]_vars
  PROVE  Locking'
<1> USE DEF Locking, Running
<1>1. ASSUME NEW r \in Requests, begin(r) PROVE Locking'
  <2>1. /\ takesLock(r) => serverMutex = None
        /\ serverMutex' = IF takesLock(r) THEN r ELSE serverMutex
        /\ rpc' = [rpc EXCEPT ![r] = "call"] /\ at' = at
    BY <1>1 DEF begin
  <2>2. None \notin Requests /\ (\A q \in Requests : takesLock(q)' = takesLock(q))
    BY CatalogAssumption DEF takesLock
  <2> QED BY <2>1, <2>2 DEF CatalogTypes
<1>2. ASSUME NEW r \in Requests, Moved(r) PROVE Locking'
  <2>1. /\ serverMutex' = serverMutex /\ rpc[r] \in {"call", "wait"} /\ rpc'[r] \in {"call", "wait"}
        /\ \A q \in Requests : q # r => rpc'[q] = rpc[q] /\ at'[q] = at[q]
        /\ rpc'[r] = "wait" => at'[r] \in Workers
    BY <1>2 DEF Moved
  <2>2. \A q \in Requests : takesLock(q)' = takesLock(q) BY DEF takesLock
  <2> QED BY <2>1, <2>2 DEF CatalogTypes
<1>3. ASSUME NEW r \in Requests, finish(r) PROVE Locking'
  <2>1. /\ rpc' = [rpc EXCEPT ![r] = "done"] /\ at' = [at EXCEPT ![r] = Manager]
        /\ serverMutex' = IF serverMutex = r THEN None ELSE serverMutex
    BY <1>3 DEF finish, release
  <2>2. None \notin Requests /\ (\A q \in Requests : takesLock(q)' = takesLock(q))
    BY CatalogAssumption DEF takesLock
  <2> QED BY <2>1, <2>2 DEF CatalogTypes
<1>4. ASSUME NEW w \in Workers, NEW r \in Requests, Handled(w, r) PROVE Locking'
  <2>1. /\ serverMutex' = serverMutex /\ at' = at
        /\ \A q \in Requests : q # r => rpc'[q] = rpc[q]
        /\ rpc' = rpc \/ (rpc[r] = "wait" /\ rpc'[r] = "call")
    BY <1>4 DEF Handled
  <2>2. \A q \in Requests : takesLock(q)' = takesLock(q) BY DEF takesLock
  <2> QED BY <2>1, <2>2 DEF CatalogTypes
<1>5. ASSUME UNCHANGED <<serverMutex, rpc, at>> PROVE Locking'
  BY <1>5 DEF takesLock
<1>6. ASSUME NEW w \in Workers, syncKnown(w) \/ writeDump(w) \/ fetched(w) \/ fetchFails(w) \/ crash(w) \/ start(w)
             \/ \E t \in Types : fetchType(w, t)
      PROVE UNCHANGED <<serverMutex, rpc, at>>
  BY <1>6 DEF syncKnown, writeDump, fetched, fetchFails, crash, start, fetchType, handlerVars
<1>7. CASE UNCHANGED vars BY <1>5, <1>7 DEF vars, handlerVars
<1> QED
  BY <1>1, <1>2, <1>3, <1>4, <1>5, <1>6, <1>7, HandlerMoves, WorkerHandles
  DEF Next, ManagerStep, WorkerStep

\* The manager registers the type of a request before any worker hears of it.
LEMMA KnownKept ==
  ASSUME CatalogTypes, Locking, Known, [Next]_vars
  PROVE  Known'
<1> DEFINE M == cat[Manager]
<1>0. Manager \in Nodes /\ Manager \notin Workers /\ Workers \subseteq Nodes /\ None \notin Types
  BY CatalogAssumption DEF Nodes
<1>a. \A q \in Requests : Registers(q)' = Registers(q) BY DEF Registers
\* Requests that have begun stay so; the manager forgets no type.
<1>b. ASSUME registered(M) \subseteq registered(M'),
             \A q \in Requests : Began(q) => Began(q)',
             \A q \in Requests : ~Began(q) /\ Began(q)' /\ Registers(q) => q.type \in registered(M'),
             \A w \in Workers : fetch'[w] # None => fetch'[w] = fetch[w] \/ fetch'[w] \in registered(M),
             \A w \in Workers : \A copy \in inbox'[w] : copy \in inbox[w] \/ Began(copy[1])',
             \A w \in Workers : inbox[w] \subseteq Requests \X Nat
      PROVE  Known'
  BY <1>a, <1>b DEF Known
<1> USE DEF CatalogTypes
<1>1. ASSUME NEW r \in Requests, begin(r) PROVE Known'
  <2>1. /\ rpc[r] = "new" /\ rpc' = [rpc EXCEPT ![r] = "call"] /\ UNCHANGED <<inbox, fetch>>
        /\ M' = applied(M, r)
    BY <1>0, <1>1 DEF begin
  <2>2. /\ registered(M) \subseteq registered(applied(M, r))
        /\ Registers(r) => r.type \in registered(applied(M, r))
    BY <1>0, AppliedRegisters
  <2>3. registered(M') = registered(applied(M, r)) BY <2>1
  <2> HIDE DEF M
  <2> QED BY <1>b, <2>1, <2>2, <2>3 DEF Began
<1>c. ASSUME cat'[Manager] = cat[Manager] PROVE registered(M') = registered(M) BY <1>c
<1>2. ASSUME NEW r \in Requests, Moved(r) PROVE Known'
  <2>1. /\ UNCHANGED <<cat, fetch>> /\ rpc[r] \in {"call", "wait"} /\ rpc'[r] \in {"call", "wait"}
        /\ \A q \in Requests : q # r => rpc'[q] = rpc[q]
        /\ \A v \in Workers : inbox'[v] \subseteq inbox[v] \cup {<<r, k>> : k \in Nat}
    BY <1>2 DEF Moved, Running
  <2>2. \A v \in Workers : \A copy \in inbox'[v] : copy \in inbox[v] \/ copy[1] = r BY <2>1
  <2>3. registered(M') = registered(M) BY <1>c, <2>1
  <2> HIDE DEF M
  <2> QED BY <1>b, <2>1, <2>2, <2>3 DEF Began
<1>3. ASSUME NEW r \in Requests, finish(r) PROVE Known'
  <2>1. rpc[r] = "call" /\ rpc' = [rpc EXCEPT ![r] = "done"] /\ UNCHANGED <<cat, inbox, fetch>>
    BY <1>3 DEF finish
  <2>3. registered(M') = registered(M) BY <1>c, <2>1
  <2> HIDE DEF M
  <2> QED BY <1>b, <2>1, <2>3 DEF Began
<1>4. ASSUME NEW w \in Workers, NEW r \in Requests, Began(r), Handled(w, r) PROVE Known'
  <2>1. /\ cat' = [cat EXCEPT ![w] = applied(cat[w], r)] /\ fetch' = fetch
        /\ \A q \in Requests : q # r => rpc'[q] = rpc[q]
        /\ rpc' = rpc \/ (rpc[r] = "wait" /\ rpc'[r] = "call")
        /\ \A v \in Workers : inbox'[v] \subseteq inbox[v] \cup {<<r, k>> : k \in Nat}
    BY <1>4 DEF Handled
  <2>2. \A v \in Workers : \A copy \in inbox'[v] : copy \in inbox[v] \/ copy[1] = r BY <2>1
  <2>3. registered(M') = registered(M) BY <1>0, <1>c, <2>1
  <2> HIDE DEF M
  <2> QED BY <1>b, <1>4, <2>1, <2>2, <2>3 DEF Began
<1>5. ASSUME rpc' = rpc, cat'[Manager] = cat[Manager],
             \A w \in Workers : inbox'[w] \subseteq inbox[w],
             \A w \in Workers : fetch'[w] # None => fetch'[w] = fetch[w] \/ fetch'[w] \in registered(M)
      PROVE  Known'
  <2>3. registered(M') = registered(M) BY <1>c, <1>5
  <2> HIDE DEF M
  <2> QED BY <1>b, <1>5, <2>3 DEF Began
<1>6. ASSUME NEW w \in Workers, syncKnown(w) \/ start(w) PROVE Known'
  BY <1>5, <1>6 DEF syncKnown, start, handlerVars
<1>7. ASSUME NEW w \in Workers, writeDump(w) PROVE Known'
  BY <1>0, <1>5, <1>7 DEF writeDump, handlerVars
<1>8. ASSUME NEW w \in Workers, crash(w) \/ fetchFails(w) PROVE Known'
  BY <1>5, <1>8 DEF crash, fetchFails, handlerVars
<1>9. ASSUME NEW w \in Workers, fetched(w) PROVE Known'
  <2>1. /\ cat' = [cat EXCEPT ![w] = loadAndRegisterType(cat[w], fetch[w], cat[Manager].types[fetch[w]])]
        /\ fetch' = [fetch EXCEPT ![w] = None] /\ UNCHANGED <<rpc, inbox>>
    BY <1>9 DEF fetched, handlerVars
  <2> QED BY <1>0, <1>5, <2>1
<1>10. ASSUME NEW w \in Workers, NEW t \in Types, fetchType(w, t) PROVE Known'
  <2>1. t \in registered(M) BY <1>10 DEF fetchType, registered
  <2> QED BY <1>5, <1>10, <2>1 DEF fetchType, handlerVars
<1>11. CASE UNCHANGED vars BY <1>5, <1>11 DEF vars, handlerVars
<1>12. ASSUME NEW w \in Workers, NEW copy \in inbox[w], handle(w, copy) PROVE Known'
  BY <1>4, <1>12, WorkerHandles DEF Known
<1> QED
  BY <1>1, <1>2, <1>3, <1>6, <1>7, <1>8, <1>9, <1>10, <1>11, <1>12, HandlerMoves
  DEF Next, ManagerStep, WorkerStep

\* Steps after which a worker agrees with the manager as it did before.
LEMMA AgreeFrame ==
  ASSUME NEW v \in Workers, Agrees(v), LateKnown(v), CatalogTypes,
         base(v)'.types = base(v).types, cat'[Manager].types = cat[Manager].types,
         serverMutex' = serverMutex,
         \A q \in Requests : q = serverMutex /\ Registers(q) /\ Pending(q, v) => Pending(q, v)',
         \A copy \in inbox'[v] :
           \/ copy \in inbox[v]
           \/ ~Registers(copy[1]) \/ copy[1] = serverMutex \/ copy[1].type \in registered(base(v))
  PROVE  Agrees(v)' /\ LateKnown(v)'
<1>1. PICK m : m = serverMutex OBVIOUS
<1>2. registered(base(v)') = registered(base(v)) BY DEF registered
<1>3. LateKnown(v)' BY <1>2 DEF LateKnown, Registers
<1>4. CASE base(v).types = cat[Manager].types BY <1>3, <1>4 DEF Agrees
<1>5. CASE /\ m # None /\ Registers(m) /\ Pending(m, v)
           /\ after(base(v).types, m) = cat[Manager].types
  <2>1. m \in Requests BY <1>1, <1>5 DEF CatalogTypes
  <2>2. Pending(m, v)' BY <1>1, <1>5, <2>1
  <2>3. m = serverMutex' BY <1>1
  <2>4. after(base(v)'.types, m) = cat'[Manager].types BY <1>5
  <2>5. Pending(serverMutex, v)' BY <2>2, <2>3 DEF Pending
  <2> QED BY <1>3, <1>5, <2>3, <2>4, <2>5 DEF Agrees
<1> QED BY <1>1, <1>3, <1>4, <1>5 DEF Agrees

\* What the invariant says of one worker, before and after a step.
LEMMA AgreeSetup ==
  ASSUME IdsInv, [Next]_vars,
         \A v \in Workers : Reported' /\ Reported /\ Settled(v)' => Agrees(v)' /\ LateKnown(v)'
  PROVE  WorkersAgree'
BY OverStays DEF WorkersAgree, IdsInv

\* Calling a worker, in vain or not, changes no catalog.
LEMMA AgreeMoved ==
  ASSUME IdsInv, NEW r \in Requests, Moved(r), Reported, NEW v \in Workers, Settled(v)'
  PROVE  Agrees(v)' /\ LateKnown(v)'
<1>1. /\ UNCHANGED <<cat, dump, spc, nodes, overwritten, unsynced, serverMutex>> /\ Running(r)
      /\ \A q \in Requests : q # r => rpc'[q] = rpc[q] /\ todo'[q] = todo[q] /\ at'[q] = at[q] /\ res'[q] = res[q]
      /\ Pending(r, v) => v \in todo'[r] \/ (rpc'[r] = "wait" /\ at'[r] = v) \/ ~res'[r]
      /\ inbox'[v] \subseteq inbox[v] \cup {<<r, k>> : k \in Nat}
  BY DEF Moved
<1>2. Settled(v) BY <1>1 DEF Settled
<1>3. Agrees(v) /\ LateKnown(v) BY <1>2 DEF IdsInv, WorkersAgree
<1>4. Registers(r) => r = serverMutex
  BY <1>1 DEF IdsInv, Locking, Registers, takesLock
<1>5. \A q \in Requests : Pending(q, v) => Pending(q, v)' BY <1>1 DEF Pending
<1>6. \A copy \in inbox'[v] : copy \in inbox[v] \/ copy[1] = r BY <1>1
<1>7. base(v)' = base(v) BY <1>1 DEF base
<1> QED BY <1>1, <1>3, <1>4, <1>5, <1>6, <1>7, AgreeFrame DEF IdsInv

\* The manager registers a type: the workers, which had the same types, will hear of it.
LEMMA AgreeBegin ==
  ASSUME IdsInv, NEW r \in Requests, begin(r), Reported, NEW v \in Workers, Settled(v)'
  PROVE  Agrees(v)' /\ LateKnown(v)'
<1>0. CatalogTypes /\ Locking /\ Manager \in Nodes /\ Manager # v /\ v \in Nodes /\ None \notin Requests
  BY CatalogAssumption DEF IdsInv, Nodes
<1>1. /\ rpc[r] = "new" /\ (takesLock(r) => serverMutex = None)
      /\ serverMutex' = IF takesLock(r) THEN r ELSE serverMutex
      /\ cat' = [cat EXCEPT ![Manager] = applied(cat[Manager], r)]
      /\ rpc' = [rpc EXCEPT ![r] = "call"] /\ todo' = [todo EXCEPT ![r] = nodes]
      /\ res' = [res EXCEPT ![r] = accepted(cat[Manager], r)]
      /\ UNCHANGED <<at, nodes, spc, dump, overwritten, unsynced, inbox>>
  BY DEF begin, joinVars
<1>2. cat'[v] = cat[v] /\ cat'[Manager] = applied(cat[Manager], r) BY <1>0, <1>1 DEF CatalogTypes
<1>3. cat'[Manager].types = after(cat[Manager].types, r) BY <1>0, <1>2, AppliedTypes DEF CatalogTypes
<1>4. base(v)' = base(v) BY <1>1, <1>2 DEF base
<1>5. Settled(v)
  <2>1. registered(cat'[v]) = registered(cat[v]) BY <1>2
  <2> QED BY <1>1, <2>1 DEF Settled
<1>6. Agrees(v) /\ LateKnown(v) BY <1>5 DEF IdsInv, WorkersAgree
<1>7. \A copy \in inbox[v] : copy[1] \in Requests BY <1>0 DEF CatalogTypes
<1>8. CASE takesLock(r)
  <2>1. serverMutex = None /\ serverMutex' = r BY <1>1, <1>8
  <2>2. base(v).types = cat[Manager].types BY <1>6, <2>1 DEF Agrees
  <2>3. LateKnown(v)'
    <3>1. \A copy \in inbox[v] : Registers(copy[1]) => copy[1].type \in registered(base(v))
      BY <1>0, <1>6, <1>7, <2>1 DEF LateKnown
    <3>2. registered(base(v)') = registered(base(v)) BY <1>4
    <3> QED BY <1>1, <3>1, <3>2 DEF LateKnown, Registers
  <2>4. CASE Registers(r)
    <3>1. v \in todo'[r] BY <1>0, <1>1, <1>5 DEF CatalogTypes, Settled
    <3>2. Pending(serverMutex, v)' BY <2>1, <3>1 DEF Pending
    <3>3. after(base(v)'.types, r) = cat'[Manager].types BY <1>3, <1>4, <2>2
    <3>4. r # None BY <1>0
    <3> QED BY <2>1, <2>3, <2>4, <3>2, <3>3, <3>4 DEF Agrees
  <2>5. CASE ~Registers(r)
    <3>1. cat'[Manager].types = cat[Manager].types BY <1>3, <2>5 DEF after
    <3> QED BY <1>4, <2>2, <2>3, <3>1 DEF Agrees
  <2> QED BY <2>4, <2>5
<1>9. CASE ~takesLock(r)
  <2>1. serverMutex' = serverMutex /\ ~Registers(r) BY <1>1, <1>9 DEF takesLock, Registers
  <2>2. cat'[Manager].types = cat[Manager].types BY <1>3, <2>1 DEF after
  <2>3. \A q \in Requests : q = serverMutex => q # r
    BY <1>0, <1>1 DEF Locking, Running
  <2>4. \A q \in Requests : q = serverMutex /\ Pending(q, v) => Pending(q, v)'
    BY <1>0, <1>1, <2>3 DEF Pending, CatalogTypes
  <2> QED BY <1>0, <1>1, <1>4, <1>6, <2>1, <2>2, <2>4, AgreeFrame
<1> QED BY <1>8, <1>9

\* A worker that handles the request of the lock's holder catches up; any other request finds its
\* type registered.
LEMMA AgreeHandled ==
  ASSUME IdsInv, NEW w \in Workers, NEW copy \in inbox[w], NEW r \in Requests, r = copy[1],
         Handled(w, r), Reported, NEW v \in Workers, Settled(v)'
  PROVE  Agrees(v)' /\ LateKnown(v)'
<1>0. CatalogTypes /\ Known /\ Manager \in Nodes /\ Manager \notin {v, w} /\ v \in Nodes /\ w \in Nodes
  BY CatalogAssumption DEF IdsInv, Nodes
<1>1. /\ cat' = [cat EXCEPT ![w] = applied(cat[w], r)]
      /\ UNCHANGED <<dump, spc, nodes, overwritten, unsynced, serverMutex, todo, at>>
      /\ \A q \in Requests : q # r => rpc'[q] = rpc[q] /\ res'[q] = res[q]
      /\ \/ UNCHANGED <<rpc, res>>
         \/ rpc[r] = "wait" /\ at[r] = w /\ (res'[r] => res[r])
      /\ inbox'[v] \subseteq inbox[v] \cup {<<r, k>> : k \in Nat}
      /\ v # w => inbox'[v] = inbox[v]
      /\ res' \in [Requests -> BOOLEAN]
  BY DEF Handled
<1>2. cat'[Manager] = cat[Manager] /\ cat'[w] = applied(cat[w], r) /\ (v # w => cat'[v] = cat[v])
  BY <1>0, <1>1 DEF CatalogTypes
<1>3. \A c \in inbox'[v] : c \in inbox[v] \/ c[1] = r BY <1>1
<1>4. Agrees(v) /\ LateKnown(v) /\ Settled(v)
  <2>1. registered(cat[w]) \subseteq registered(cat'[w]) BY <1>0, <1>2, AppliedRegisters DEF CatalogTypes
  <2>2. registered(cat[v]) \subseteq registered(cat'[v]) BY <1>2, <2>1
  <2>3. Settled(v) BY <1>1, <2>2 DEF Settled
  <2> QED BY <2>3 DEF IdsInv, WorkersAgree
<1>5. ASSUME NEW q \in Requests, q # r \/ v # w, Pending(q, v) PROVE Pending(q, v)'
  BY <1>0, <1>1, <1>5 DEF Pending, CatalogTypes
<1>6. CASE v # w
  <2>1. base(v)' = base(v) BY <1>1, <1>2, <1>6 DEF base
  <2> QED BY <1>0, <1>1, <1>2, <1>4, <1>5, <1>6, <2>1, AgreeFrame
<1>7. CASE v = w /\ ~Registers(r)
  <2>1. applied(cat[w], r).types = cat[w].types
    BY <1>0, <1>7, AppliedTypes DEF CatalogTypes, after
  <2>2. base(v)'.types = base(v).types BY <1>1, <1>2, <1>7, <2>1 DEF base
  <2>3. \A q \in Requests : q = serverMutex /\ Registers(q) /\ Pending(q, v) => Pending(q, v)'
    BY <1>5, <1>7
  <2> QED BY <1>0, <1>1, <1>2, <1>3, <1>4, <1>7, <2>2, <2>3, AgreeFrame
<1>8. CASE v = w /\ Registers(r)
  <2>1. r.type \in registered(cat'[w]) BY <1>0, <1>2, <1>8, AppliedRegisters DEF CatalogTypes
  <2>2. spc[w] # "dump" BY <1>1, <1>8, <2>1 DEF Settled
  <2>3. base(v) = cat[w] /\ base(v)' = cat'[w] BY <1>1, <1>8, <2>2 DEF base
  <2>a. cat[w] \in Shape BY <1>0 DEF CatalogTypes
  <2>b. cat[w].types \in [Types -> Int] BY <2>a DEF Shape
  <2>4. cat'[w].types = after(cat[w].types, r) BY <1>2, <2>a, AppliedTypes
  <2>5. LateKnown(v)'
    <3>1. registered(cat[w]) \subseteq registered(cat'[w]) BY <1>0, <1>2, AppliedRegisters DEF CatalogTypes
    <3>2. \A c \in inbox'[v] : Registers(c[1]) => c[1] = serverMutex' \/ c[1].type \in registered(cat'[w])
      BY <1>1, <1>3, <1>4, <2>1, <2>3, <3>1 DEF LateKnown
    <3>3. registered(base(v)') = registered(cat'[w]) BY <2>3
    <3> QED BY <3>2, <3>3 DEF LateKnown, Registers
  <2>6. ASSUME r.type \in registered(cat[w]) PROVE cat'[w].types = cat[w].types
    BY <1>8, <2>b, <2>4, <2>6, AfterFacts DEF registered
  <2>7. PICK m : m = serverMutex OBVIOUS
  <2>8. CASE cat[w].types = cat[Manager].types
    <3>1. r.type \in registered(cat[Manager]) BY <1>0, <1>8 DEF Known
    <3>2. r.type \in registered(cat[w]) BY <2>8, <3>1 DEF registered
    <3>3. base(v)'.types = cat'[Manager].types BY <1>2, <2>3, <2>6, <2>8, <3>2
    <3> QED BY <2>5, <3>3 DEF Agrees
  <2>9. CASE /\ m # None /\ Registers(m) /\ Pending(m, v)
             /\ after(cat[w].types, m) = cat[Manager].types
    <3>1. m \in Requests BY <1>0, <2>7, <2>9 DEF CatalogTypes
    <3>2. CASE m = r
      <4>1. base(v)'.types = cat'[Manager].types BY <1>2, <2>3, <2>4, <2>9, <3>2
      <4> QED BY <2>5, <4>1 DEF Agrees
    <3>3. CASE m # r
      <4>1. r.type \in registered(cat[w]) BY <1>4, <1>8, <2>3, <2>7, <3>3 DEF LateKnown
      <4>2. base(v)'.types = base(v).types BY <2>3, <2>6, <4>1
      <4>3. \A q \in Requests : q = serverMutex /\ Registers(q) /\ Pending(q, v) => Pending(q, v)'
        BY <1>5, <2>7, <3>3
      <4>4. \A c \in inbox'[v] : c \in inbox[v] \/ c[1].type \in registered(base(v))
        BY <1>3, <2>3, <4>1
      <4> QED BY <1>0, <1>1, <1>2, <1>4, <4>2, <4>3, <4>4, AgreeFrame
    <3> QED BY <3>2, <3>3
  <2> QED BY <1>4, <2>3, <2>7, <2>8, <2>9 DEF Agrees
<1> QED BY <1>6, <1>7, <1>8

\* A request that ends with success has reached every worker; one that joins has the manager's
\* catalog.
LEMMA AgreeFinish ==
  ASSUME IdsInv, NEW r \in Requests, finish(r), Reported, Reported', NEW v \in Workers, Settled(v)'
  PROVE  Agrees(v)' /\ LateKnown(v)'
<1>0. CatalogTypes /\ Known /\ Locking /\ None \notin Requests BY CatalogAssumption DEF IdsInv
<1>1. /\ rpc[r] = "call" /\ todo[r] = {} /\ rpc' = [rpc EXCEPT ![r] = "done"]
      /\ at' = [at EXCEPT ![r] = Manager]
      /\ serverMutex' = IF serverMutex = r THEN None ELSE serverMutex
      /\ UNCHANGED <<cat, todo, res, inbox>>
  BY DEF finish, release
<1>2. res[r] BY <1>0, <1>1 DEF CatalogTypes, Reported
<1>3. \A q \in Requests : Began(q) /\ Registers(q) => q.type \in registered(cat[Manager]) BY <1>0 DEF Known
<1>4. \A copy \in inbox[v] : copy[1] \in Requests /\ Began(copy[1]) BY <1>0 DEF Known, CatalogTypes
\* A worker whose types are those of the manager keeps them.
<1>5. ASSUME base(v)'.types = cat[Manager].types PROVE Agrees(v)' /\ LateKnown(v)'
  <2>1. registered(base(v)') = registered(cat[Manager]) BY <1>5 DEF registered
  <2>2. LateKnown(v)' BY <1>1, <1>3, <1>4, <2>1 DEF LateKnown, Registers
  <2> QED BY <1>1, <1>5, <2>2 DEF Agrees
<1>6. ASSUME v \in nodes, spc'[v] = spc[v], dump'[v] = dump[v], UNCHANGED overwritten,
             unsynced \subseteq unsynced'
      PROVE  Agrees(v)' /\ LateKnown(v)'
  <2>1. Settled(v) BY <1>1, <1>6 DEF Settled
  <2>2. Agrees(v) /\ LateKnown(v) BY <2>1 DEF IdsInv, WorkersAgree
  <2>3. base(v)' = base(v) BY <1>1, <1>6 DEF base
  <2>4. CASE serverMutex = r
    <3>1. ~Pending(r, v) BY <1>1, <1>2 DEF Pending
    <3>2. ~Pending(serverMutex, v) BY <2>4, <3>1 DEF Pending
    <3>3. base(v).types = cat[Manager].types BY <2>2, <3>2 DEF Agrees
    <3> QED BY <1>5, <2>3, <3>3
  <2>5. CASE serverMutex # r
    <3>1. serverMutex' = serverMutex BY <1>1, <2>5
    <3>2. \A q \in Requests : q = serverMutex /\ Registers(q) /\ Pending(q, v) => Pending(q, v)'
      BY <1>0, <1>1, <2>5 DEF Pending, CatalogTypes
    <3> QED BY <1>0, <1>1, <2>2, <2>3, <3>1, <3>2, AgreeFrame
  <2> QED BY <2>4, <2>5
<1>7. CASE r.op # "sync"
  <2>1. UNCHANGED <<nodes, spc, dump, overwritten, unsynced>> BY <1>7 DEF finish, joinVars
  <2> QED BY <1>6, <2>1 DEF Settled
<1>8. CASE r.op = "sync"
  <2>1. r.node \in Workers BY <1>8, CatalogAssumption
  <2>2. /\ nodes' = nodes \cup {r.node} /\ UNCHANGED overwritten
        /\ \/ /\ spc' = [spc EXCEPT ![r.node] = "dump"] /\ dump' = [dump EXCEPT ![r.node] = cat[Manager]]
              /\ unsynced' = unsynced
           \/ unsynced' = unsynced \cup {r.node} /\ UNCHANGED <<spc, dump>>
    BY <1>8 DEF finish
  <2>3. CASE v # r.node
    <3>1. v \in nodes /\ spc'[v] = spc[v] /\ dump'[v] = dump[v] /\ unsynced \subseteq unsynced'
      BY <1>0, <2>1, <2>2, <2>3 DEF CatalogTypes, Settled
    <3> QED BY <1>6, <2>2, <3>1
  <2>4. CASE v = r.node
    <3>1. spc'[v] = "dump" /\ dump'[v] = cat[Manager]
      BY <1>0, <2>1, <2>2, <2>4 DEF CatalogTypes, Settled
    <3>2. base(v)' = cat[Manager] BY <3>1 DEF base
    <3> QED BY <1>5, <3>2
  <2> QED BY <2>3, <2>4
<1> QED BY <1>7, <1>8

\* A worker that writes its copy, crashes, starts or fetches a type has the types it had.
LEMMA AgreeWorker ==
  ASSUME IdsInv, Reported, NEW v \in Workers, Settled(v)', NEW w \in Workers,
         \/ syncKnown(w) \/ writeDump(w) \/ fetched(w) \/ fetchFails(w) \/ crash(w) \/ start(w)
         \/ \E t \in Types : fetchType(w, t)
  PROVE  Agrees(v)' /\ LateKnown(v)'
<1>0. CatalogTypes /\ Known /\ Manager \in Nodes /\ Manager \notin {v, w} /\ v \in Nodes /\ w \in Nodes
      /\ None \notin Requests
  BY CatalogAssumption DEF IdsInv, Nodes
<1>1. UNCHANGED <<serverMutex, rpc, todo, at, res, nodes>> /\ cat'[Manager] = cat[Manager]
      /\ inbox'[v] \subseteq inbox[v]
  BY <1>0 DEF syncKnown, writeDump, fetched, fetchFails, crash, start, fetchType,
             handlerVars, joinVars, CatalogTypes
<1>2. ASSUME base(v)'.types = base(v).types, Settled(v)
      PROVE  Agrees(v)' /\ LateKnown(v)'
  <2>1. Agrees(v) /\ LateKnown(v) BY <1>2 DEF IdsInv, WorkersAgree
  <2>2. \A q \in Requests : Pending(q, v) => Pending(q, v)' BY <1>1 DEF Pending
  <2> QED BY <1>0, <1>1, <1>2, <2>1, <2>2, AgreeFrame
<1>3. CASE syncKnown(w) \/ start(w)
  <2>1. /\ UNCHANGED <<cat, dump, overwritten, unsynced>>
        /\ spc'[v] = "dump" <=> spc[v] = "dump"
    BY <1>0, <1>3 DEF syncKnown, start, CatalogTypes
  <2>2. Settled(v) /\ base(v)' = base(v) BY <1>1, <2>1 DEF Settled, base
  <2> QED BY <1>2, <2>2
<1>4. CASE writeDump(w)
  <2>1. /\ spc[w] = "dump" /\ spc' = [spc EXCEPT ![w] = "up"] /\ cat' = [cat EXCEPT ![w] = dump[w]]
        /\ overwritten' = IF cat[w] = emptyCatalog THEN overwritten ELSE overwritten \cup {w}
        /\ dump' = [dump EXCEPT ![w] = emptyCatalog] /\ unsynced' = unsynced
    BY <1>4 DEF writeDump
  <2>2. CASE v = w
    <3>1. cat[w] = emptyCatalog /\ v \notin overwritten BY <2>1, <2>2 DEF Settled
    <3>2. registered(cat[w]) = {} BY <3>1 DEF registered, emptyCatalog
    <3>3. Settled(v) BY <1>1, <2>1, <2>2, <3>1, <3>2 DEF Settled
    <3>4. base(v) = dump[w] BY <2>1, <2>2 DEF base
    <3>5. base(v)' = dump[w] BY <1>0, <2>1, <2>2 DEF base, CatalogTypes
    <3> QED BY <1>2, <3>3, <3>4, <3>5
  <2>3. CASE v # w
    <3>1. cat'[v] = cat[v] /\ spc'[v] = spc[v] /\ dump'[v] = dump[v] BY <1>0, <2>1, <2>3 DEF CatalogTypes
    <3>2. registered(cat'[v]) = registered(cat[v]) BY <3>1
    <3>3. Settled(v) BY <1>1, <2>1, <3>1, <3>2 DEF Settled
    <3>4. base(v)' = base(v) BY <3>1 DEF base
    <3> QED BY <1>2, <3>3, <3>4
  <2> QED BY <2>2, <2>3
<1>5. CASE crash(w)
  <2>1. /\ spc' = [spc EXCEPT ![w] = "down"] /\ dump' = [dump EXCEPT ![w] = emptyCatalog]
        /\ unsynced' = IF spc[w] = "dump" THEN unsynced \cup {w} ELSE unsynced
        /\ UNCHANGED <<cat, overwritten>>
    BY <1>5 DEF crash
  <2>2. v = w => spc[v] # "dump" /\ spc'[v] # "dump" BY <1>0, <2>1 DEF Settled, CatalogTypes
  <2>3. v # w => spc'[v] = spc[v] /\ dump'[v] = dump[v] BY <1>0, <2>1 DEF CatalogTypes
  <2>4. Settled(v) BY <1>1, <2>1, <2>2, <2>3 DEF Settled
  <2>5. base(v)' = base(v) BY <2>1, <2>2, <2>3 DEF base
  <2> QED BY <1>2, <2>4, <2>5
<1>6. CASE fetchFails(w) \/ \E t \in Types : fetchType(w, t)
  <2>1. UNCHANGED <<cat, spc, dump, overwritten, unsynced>> BY <1>6 DEF fetchFails, fetchType, joinVars
  <2>2. Settled(v) /\ base(v)' = base(v) BY <1>1, <2>1 DEF Settled, base
  <2> QED BY <1>2, <2>2
<1>7. CASE fetched(w)
  <2> DEFINE t == fetch[w]
             id == cat[Manager].types[t]
  <2>1. /\ t # None /\ serverMutex = None /\ UNCHANGED <<spc, dump, overwritten, unsynced>>
        /\ cat' = [cat EXCEPT ![w] = loadAndRegisterType(cat[w], t, id)]
    BY <1>7 DEF fetched, joinVars
  <2>2. t \in registered(cat[Manager]) BY <1>0, <2>1 DEF Known
  <2>3. t \in Types /\ id \in Int /\ id # NoType BY <1>0, <2>2 DEF registered, CatalogTypes, Shape
  <2> HIDE DEF t, id
  <2>4. cat'[w] = (IF t \in registered(cat[w]) THEN cat[w] ELSE [cat[w] EXCEPT !.types[t] = id])
        /\ (v # w => cat'[v] = cat[v])
    BY <1>0, <2>1, <2>3 DEF CatalogTypes, loadAndRegisterType
  <2>5. cat[w] \in Shape BY <1>0 DEF CatalogTypes
  <2>6. registered(cat[w]) \subseteq registered(cat'[w])
    BY <2>3, <2>4, <2>5 DEF registered, Shape
  <2>7. registered(cat[v]) \subseteq registered(cat'[v]) BY <2>4, <2>6
  <2>8. Settled(v) BY <1>1, <2>1, <2>7 DEF Settled
  <2>9. CASE spc[v] = "dump" \/ v # w
    <3>1. base(v)' = base(v) BY <2>1, <2>4, <2>9 DEF base
    <3> QED BY <1>2, <2>8, <3>1
  <2>10. CASE spc[v] # "dump" /\ v = w
    <3>1. Agrees(v) BY <2>8 DEF IdsInv, WorkersAgree
    <3>2. cat[w].types = cat[Manager].types BY <2>1, <2>10, <3>1 DEF Agrees, base
    <3>3. t \in registered(cat[w]) BY <2>2, <3>2 DEF registered
    <3>4. base(v)' = base(v) BY <2>1, <2>4, <2>10, <3>3 DEF base
    <3> QED BY <1>2, <2>8, <3>4
  <2> QED BY <2>9, <2>10
<1> QED BY <1>3, <1>4, <1>5, <1>6, <1>7

\* The ids of the types at the workers follow those of the manager.
LEMMA IdsInvKept ==
  ASSUME IdsInv, [Next]_vars
  PROVE  IdsInv'
<1>1. CatalogTypes' /\ Locking' /\ Known' BY TypesKept, LockingKept, KnownKept DEF IdsInv
<1>2. ASSUME Reported, Reported', NEW v \in Workers, Settled(v)' PROVE Agrees(v)' /\ LateKnown(v)'
  <2>1. CatalogTypes /\ Locking BY DEF IdsInv
  <2>2. CASE UNCHANGED vars
    <3>1. Settled(v) /\ base(v)' = base(v) /\ UNCHANGED <<cat, serverMutex, inbox>>
      BY <1>2, <2>2 DEF vars, handlerVars, joinVars, Settled, base
    <3>2. Agrees(v) /\ LateKnown(v) BY <1>2, <3>1 DEF IdsInv, WorkersAgree
    <3>3. \A q \in Requests : Pending(q, v) => Pending(q, v)' BY <2>2 DEF vars, handlerVars, Pending
    <3> QED BY <2>1, <3>1, <3>2, <3>3, AgreeFrame
  <2>3. ASSUME NEW w \in Workers, NEW copy \in inbox[w], handle(w, copy)
        PROVE  Agrees(v)' /\ LateKnown(v)'
    BY <1>2, <2>1, <2>3, WorkerHandles, AgreeHandled
  <2> QED BY <1>2, <2>1, <2>2, <2>3, HandlerMoves, AgreeMoved, AgreeBegin, AgreeFinish, AgreeWorker
    DEF Next, ManagerStep, WorkerStep
<1> QED BY <1>1, <1>2, AgreeSetup DEF IdsInv

\* At the beginning all catalogs are empty.
LEMMA IdsInitial == Init => IdsInv
<1> SUFFICES ASSUME Init PROVE IdsInv OBVIOUS
<1>1. emptyCatalog \in Shape BY DEF emptyCatalog, Shape, NoType
<1>2. Manager \in Nodes /\ Workers \subseteq Nodes /\ Members \subseteq Workers BY CatalogAssumption DEF Nodes
<1>3. rpc \in [Requests -> {"unsent", "new"}] BY DEF Init
<1>4. CatalogTypes BY <1>1, <1>2, <1>3 DEF Init, CatalogTypes
<1>5. Locking BY <1>3 DEF Init, Locking, Running
<1>6. Known BY <1>3 DEF Init, Known, Began
<1>7. WorkersAgree
  <2>1. \A w \in Workers : cat[w] = cat[Manager] /\ spc[w] # "dump" /\ inbox[w] = {} BY <1>2 DEF Init
  <2> QED BY <2>1 DEF WorkersAgree, Agrees, LateKnown, base
<1> QED BY <1>4, <1>5, <1>6, <1>7 DEF IdsInv

\* As long as every request was answered with success, a type has at every registered worker the
\* id that the manager gave it, though each counts for itself: the lock of the manager brings the
\* requests to the workers in one order, and copies that come late find their type registered.
THEOREM IdsAgreeCorrect == Spec => []IdsAgree
<1>1. ASSUME IdsInv PROVE IdsAgree
  <2>1. SUFFICES ASSUME Reported, NEW w \in nodes \ (overwritten \cup unsynced), spc[w] # "dump",
                        NEW t \in registered(cat[w])
                 PROVE  cat[w].types[t] = cat[Manager].types[t]
    BY DEF IdsAgree
  <2>2. w \in Workers /\ w \in Nodes BY <1>1 DEF IdsInv, CatalogTypes, Nodes
  <2>3. Settled(w) /\ base(w) = cat[w] BY <2>1 DEF Settled, base
  <2>4. Agrees(w) BY <1>1, <2>1, <2>2, <2>3 DEF IdsInv, WorkersAgree
  <2>5. PICK m : m = serverMutex OBVIOUS
  <2>6. CASE m # None /\ after(cat[w].types, m) = cat[Manager].types
    <3>1. m \in Requests BY <1>1, <2>5, <2>6 DEF IdsInv, CatalogTypes
    <3>2. cat[w] \in Shape BY <1>1, <2>2 DEF IdsInv, CatalogTypes
    <3>3. cat[w].types \in [Types -> Int] BY <3>2 DEF Shape
    <3> QED BY <2>6, <3>1, <3>3, AfterFacts DEF registered
  <2> QED BY <2>3, <2>4, <2>5, <2>6 DEF Agrees
<1> QED BY <1>1, IdsInitial, IdsInvKept, PTL DEF Spec
-----------------------------------------------------------------------------
(* Databases and sets on the workers: the inductive invariant *)

\* What the catalog of a worker says, or will say when it has written its copy.
hasDb(w) == IF spc[w] = "dump" THEN dump[w].db \/ cat[w].db ELSE cat[w].db
hasSet(w) == IF spc[w] = "dump" THEN dump[w].set ELSE cat[w].set

\* A handler has yet to bring its request to a worker.
Coming(r, w) == Running(r) /\ (w \in todo[r] \/ (rpc[r] = "wait" /\ at[r] = w))

\* The requests that change databases, and sets.
ChangesDb == {"createDatabase", "deleteDatabase"}
ChangesSet == {"createSet", "deleteSet", "deleteDatabase"}

Succeeding == \A r \in Requests : res[r]

\* A request that has not begun has not failed; a set has its database.
Plain ==
  /\ \A r \in Requests : rpc[r] \in {"new", "unsent"} => res[r]
  /\ cat[Manager].set => cat[Manager].db
  /\ \A w \in Workers : dump[w].set => dump[w].db

\* A worker that is not registered has been told nothing.
Outside ==
  /\ \A r \in Requests : todo[r] \subseteq nodes /\ (rpc[r] = "wait" => at[r] \in nodes)
  /\ \A r \in Requests : Running(r) /\ r.op = "sync" => r.node \notin nodes
  /\ \A w \in Workers \ nodes : spc[w] # "dump" /\ inbox[w] = {} /\ ~cat[w].db /\ ~cat[w].set

\* While a request is handled, the manager's catalog is as the request left it.
ManagerHolds ==
  ~raced => \A r \in Requests : Running(r) =>
    /\ r.op = "createDatabase" => cat[Manager].db
    /\ r.op = "deleteDatabase" => ~cat[Manager].db /\ ~cat[Manager].set
    /\ r.op = "createSet" => cat[Manager].set = cat[Manager].db
    /\ r.op = "deleteSet" => ~cat[Manager].set
    /\ \A q \in Requests : Running(q) => ~races(r, q)

Follows(w) ==
  /\ hasDb(w) = cat[Manager].db \/ \E r \in Requests : Coming(r, w) /\ r.op \in ChangesDb
  /\ hasSet(w) = cat[Manager].set \/ \E r \in Requests : Coming(r, w) /\ r.op \in ChangesSet
  /\ spc[w] = "dump" =>
       /\ ~cat[w].set /\ (cat[w].db => ~dump[w].db)
       /\ \A r \in Requests : Running(r) /\ r.op = "createDatabase" => ~dump[w].db

WorkersFollow ==
  ~raced /\ Succeeding => \A w \in Workers \ stale : Settled(w) => Follows(w)

DataInv == Plain /\ Outside /\ ManagerHolds /\ WorkersFollow

\* What a request does to the database and its set.
LEMMA AppliedData ==
  ASSUME NEW c \in Shape, NEW r \in Requests
  PROVE  /\ r.op = "createDatabase" => applied(c, r).db /\ applied(c, r).set = c.set
         /\ r.op = "deleteDatabase" => ~applied(c, r).db /\ ~applied(c, r).set
         /\ r.op = "createSet" => applied(c, r).db = c.db /\ applied(c, r).set = c.db
         /\ r.op = "deleteSet" => applied(c, r).db = c.db /\ ~applied(c, r).set
         /\ r.op \in {"registerType", "sync"} => applied(c, r).db = c.db /\ applied(c, r).set = c.set
<1>1. CASE r.op \in {"createDatabase", "deleteDatabase", "deleteSet", "sync"}
  BY <1>1 DEF applied, Shape
<1>2. CASE r.op = "createSet"
  <2>1. registerOddType(c, r.type).db = c.db BY DEF registerOddType, Shape
  <2>2. registerOddType(c, r.type) \in [db : BOOLEAN, set : BOOLEAN, types : [Types -> Int]]
    <3>1. r.type \in Types BY <1>2, CatalogAssumption
    <3> QED BY <3>1 DEF registerOddType, Shape, TypeNotRecognized
  <2>3. applied(c, r) = [registerOddType(c, r.type) EXCEPT !.set = c.db] BY <1>2 DEF applied
  <2> QED BY <1>2, <2>1, <2>2, <2>3
<1>3. CASE r.op = "registerType"
  <2>1. applied(c, r) = loadAndRegisterType(c, r.type, NoType) BY <1>3 DEF applied
  <2>2. applied(c, r).db = c.db /\ applied(c, r).set = c.set BY <2>1 DEF loadAndRegisterType, Shape
  <2> QED BY <1>3, <2>2
<1>4. r.op \in Ops BY CatalogAssumption
<1> QED BY <1>1, <1>2, <1>3, <1>4 DEF Ops

\* A fetch leaves databases and sets alone.
LEMMA FetchData ==
  ASSUME NEW c \in Shape, NEW t, NEW id
  PROVE  loadAndRegisterType(c, t, id).db = c.db /\ loadAndRegisterType(c, t, id).set = c.set
BY DEF loadAndRegisterType, Shape

\* The steps of a worker other than handling a request.
Own(w) ==
  \/ syncKnown(w) \/ writeDump(w) \/ fetched(w) \/ fetchFails(w) \/ crash(w) \/ start(w)
  \/ \E t \in Types : fetchType(w, t)

\* Requests that have not begun have not failed; a set has its database.
LEMMA PlainKept ==
  ASSUME IdsInv, DataInv, [Next]_vars
  PROVE  Plain'
<1>0. CatalogTypes /\ Locking /\ Plain /\ Manager \in Nodes /\ Manager \notin Workers /\ Workers \subseteq Nodes
  BY CatalogAssumption DEF IdsInv, DataInv, Nodes
<1> USE DEF Plain, CatalogTypes
<1>1. ASSUME NEW r \in Requests, begin(r) PROVE Plain'
  <2>1. /\ cat' = [cat EXCEPT ![Manager] = applied(cat[Manager], r)] /\ dump' = dump
        /\ rpc' = [rpc EXCEPT ![r] = "call"] /\ res' = [res EXCEPT ![r] = accepted(cat[Manager], r)]
    BY <1>1 DEF begin, joinVars
  <2>2. cat[Manager] \in Shape BY <1>0
  <2>3. applied(cat[Manager], r).set => applied(cat[Manager], r).db
    BY <1>0, <2>2, AppliedData, CatalogAssumption DEF Ops
  <2>4. cat'[Manager] = applied(cat[Manager], r) BY <1>0, <2>1
  <2>5. \A q \in Requests : rpc'[q] \in {"new", "unsent"} => res'[q] BY <1>0, <2>1
  <2> QED BY <1>0, <2>1, <2>3, <2>4, <2>5
<1>2. ASSUME NEW r \in Requests, Moved(r) PROVE Plain'
  BY <1>0, <1>2 DEF Moved
<1>3. ASSUME NEW r \in Requests, finish(r) PROVE Plain'
  <2>1. rpc' = [rpc EXCEPT ![r] = "done"] /\ UNCHANGED <<cat, res>> BY <1>3 DEF finish
  <2>2. dump' = dump \/ dump' = [dump EXCEPT ![r.node] = cat[Manager]] BY <1>3 DEF finish, joinVars
  <2>3. \A w \in Workers : dump'[w] = dump[w] \/ dump'[w] = cat[Manager] BY <1>0, <2>2
  <2>4. \A w \in Workers : dump'[w].set => dump'[w].db BY <1>0, <2>3
  <2>5. \A q \in Requests : rpc'[q] \in {"new", "unsent"} => res'[q] BY <1>0, <2>1
  <2> QED BY <1>0, <2>1, <2>4, <2>5
<1>4. ASSUME NEW w \in Workers, NEW r \in Requests, Handled(w, r) PROVE Plain'
  <2>1. /\ cat' = [cat EXCEPT ![w] = applied(cat[w], r)] /\ dump' = dump
        /\ \A q \in Requests : q # r => rpc'[q] = rpc[q] /\ res'[q] = res[q]
        /\ UNCHANGED <<rpc, res>> \/ rpc'[r] = "call"
    BY <1>4 DEF Handled
  <2>2. cat'[Manager] = cat[Manager] BY <1>0, <2>1
  <2>3. \A q \in Requests : rpc'[q] \in {"new", "unsent"} => res'[q] BY <1>0, <2>1
  <2> QED BY <1>0, <2>1, <2>2, <2>3
<1>5. ASSUME NEW w \in Workers, Own(w) PROVE Plain'
  <2>1. UNCHANGED <<rpc, res>> /\ cat'[Manager] = cat[Manager]
    BY <1>0, <1>5 DEF Own, syncKnown, writeDump, fetched, fetchFails, crash, start, fetchType, handlerVars
  <2>2. dump' = dump \/ dump' = [dump EXCEPT ![w] = emptyCatalog]
    BY <1>5 DEF Own, syncKnown, writeDump, fetched, fetchFails, crash, start, fetchType, joinVars
  <2>3. \A v \in Workers : dump'[v].set => dump'[v].db BY <1>0, <2>2 DEF emptyCatalog
  <2> QED BY <1>0, <2>1, <2>3
<1>6. CASE UNCHANGED vars BY <1>0, <1>6 DEF vars, handlerVars, joinVars
<1> QED BY <1>0, <1>1, <1>2, <1>3, <1>4, <1>5, <1>6, HandlerMoves, WorkerHandles
  DEF Next, ManagerStep, WorkerStep, Own

\* Nothing is sent to a worker before it is registered.
LEMMA OutsideKept ==
  ASSUME IdsInv, DataInv, [Next]_vars
  PROVE  Outside'
<1>0. CatalogTypes /\ Locking /\ Outside /\ Manager \in Nodes /\ Manager \notin Workers /\ Workers \subseteq Nodes
  BY CatalogAssumption DEF IdsInv, DataInv, Nodes
<1>a. \A q \in Requests : q.op = "sync" => takesLock(q) BY DEF takesLock
<1> USE DEF Outside, CatalogTypes
<1>1. ASSUME NEW r \in Requests, begin(r) PROVE Outside'
  <2>1. /\ r.op = "sync" => r.node \notin nodes
        /\ cat' = [cat EXCEPT ![Manager] = applied(cat[Manager], r)]
        /\ rpc' = [rpc EXCEPT ![r] = "call"] /\ todo' = [todo EXCEPT ![r] = nodes]
        /\ UNCHANGED <<at, nodes, spc, inbox>>
    BY <1>1 DEF begin, joinVars
  <2>2. \A w \in Workers : cat'[w] = cat[w] BY <1>0, <2>1
  <2> QED BY <1>0, <2>1, <2>2 DEF Running
<1>2. ASSUME NEW r \in Requests, Moved(r) PROVE Outside'
  <2>1. /\ UNCHANGED <<cat, spc, nodes>> /\ Running(r) /\ rpc'[r] \in {"call", "wait"}
        /\ \A q \in Requests : q # r => rpc'[q] = rpc[q] /\ todo'[q] = todo[q] /\ at'[q] = at[q]
        /\ todo'[r] \subseteq todo[r]
        /\ rpc'[r] = "wait" => at'[r] \in todo[r] \/ (rpc[r] = "wait" /\ at'[r] = at[r])
        /\ \A v \in Workers : v \notin todo[r] /\ ~(rpc[r] = "wait" /\ at[r] = v) => inbox'[v] = inbox[v]
    BY <1>2 DEF Moved
  <2>2. \A w \in Workers \ nodes : inbox'[w] = inbox[w] BY <1>0, <2>1
  <2>3. \A q \in Requests : todo'[q] \subseteq nodes /\ (rpc'[q] = "wait" => at'[q] \in nodes)
    BY <1>0, <2>1
  <2>4. \A q \in Requests : Running(q)' => Running(q) BY <2>1 DEF Running
  <2> QED BY <1>0, <2>1, <2>2, <2>3, <2>4
<1>3. ASSUME NEW r \in Requests, finish(r) PROVE Outside'
  <2>1. /\ rpc[r] = "call" /\ rpc' = [rpc EXCEPT ![r] = "done"] /\ at' = [at EXCEPT ![r] = Manager]
        /\ UNCHANGED <<cat, todo, inbox>>
    BY <1>3 DEF finish
  <2>2. \A q \in Requests : Running(q)' => Running(q) /\ q # r BY <1>0, <2>1 DEF Running
  <2>3. CASE r.op # "sync"
    <3>1. UNCHANGED <<nodes, spc>> BY <1>3, <2>3 DEF finish, joinVars
    <3> QED BY <1>0, <2>1, <2>2, <3>1
  <2>4. CASE r.op = "sync"
    <3>1. nodes' = nodes \cup {r.node} /\ (spc' = spc \/ spc' = [spc EXCEPT ![r.node] = "dump"])
      BY <1>3, <2>4 DEF finish
    <3>2. \A q \in Requests : Running(q) /\ q.op = "sync" => q = r
      BY <1>0, <1>a, <2>1, <2>4 DEF Locking, Running
    <3>3. \A w \in Workers : w \notin nodes' => w \notin nodes /\ spc'[w] = spc[w] BY <1>0, <3>1
    <3>4. nodes \subseteq nodes' BY <3>1
    <3>5. \A q \in Requests : todo'[q] \subseteq nodes' /\ (rpc'[q] = "wait" => at'[q] \in nodes')
      BY <1>0, <2>1, <3>4
    <3>6. \A q \in Requests : ~(Running(q)' /\ q.op = "sync") BY <2>2, <3>2
    <3> QED BY <1>0, <2>1, <3>3, <3>5, <3>6
  <2> QED BY <2>3, <2>4
<1>4. ASSUME NEW w \in nodes, NEW r \in Requests, Handled(w, r) PROVE Outside'
  <2>1. /\ cat' = [cat EXCEPT ![w] = applied(cat[w], r)] /\ UNCHANGED <<nodes, spc, todo, at>>
        /\ \A q \in Requests : q # r => rpc'[q] = rpc[q]
        /\ rpc' = rpc \/ (rpc[r] = "wait" /\ rpc'[r] = "call")
        /\ \A v \in Workers : v # w => inbox'[v] = inbox[v]
    BY <1>4 DEF Handled
  <2>2. \A v \in Workers \ nodes : cat'[v] = cat[v] /\ inbox'[v] = inbox[v] BY <1>0, <2>1
  <2>3. \A q \in Requests : Running(q)' => Running(q) BY <2>1 DEF Running
  <2>4. \A q \in Requests : rpc'[q] = "wait" => rpc[q] = "wait" BY <2>1
  <2> QED BY <1>0, <2>1, <2>2, <2>3, <2>4
<1>5. ASSUME NEW w \in Workers, Own(w) PROVE Outside'
  <2>1. UNCHANGED <<rpc, todo, at, nodes>>
    BY <1>5 DEF Own, syncKnown, writeDump, fetched, fetchFails, crash, start, fetchType, handlerVars, joinVars
  <2>2. \A v \in Workers : inbox[v] = {} => inbox'[v] = {}
    BY <1>0, <1>5 DEF Own, syncKnown, writeDump, fetched, fetchFails, crash, start, fetchType
  <2>3. \A v \in Workers : spc'[v] = "dump" => spc[v] = "dump"
    BY <1>0, <1>5 DEF Own, syncKnown, writeDump, fetched, fetchFails, crash, start, fetchType, joinVars
  <2>4. \A v \in Workers : spc[v] # "dump" /\ ~cat[v].db /\ ~cat[v].set => ~cat'[v].db /\ ~cat'[v].set
    <3>1. CASE writeDump(w) BY <1>0, <3>1 DEF writeDump
    <3>2. CASE fetched(w)
      <4>1. cat' = [cat EXCEPT ![w] = loadAndRegisterType(cat[w], fetch[w], cat[Manager].types[fetch[w]])]
        BY <3>2 DEF fetched
      <4>2. cat[w] \in Shape BY <1>0
      <4> QED BY <1>0, <4>1, <4>2, FetchData
    <3>3. CASE cat' = cat BY <3>3
    <3> QED BY <1>5, <3>1, <3>2, <3>3 DEF Own, syncKnown, fetchFails, crash, start, fetchType
  <2> QED BY <1>0, <2>1, <2>2, <2>3, <2>4 DEF Running
<1>6. CASE UNCHANGED vars BY <1>0, <1>6 DEF vars, handlerVars, joinVars, Running
<1>7. ASSUME NEW w \in Workers, NEW copy \in inbox[w], handle(w, copy) PROVE Outside'
  <2>1. w \in nodes BY <1>0
  <2> QED BY <1>0, <1>4, <1>7, <2>1, WorkerHandles
<1> QED BY <1>0, <1>1, <1>2, <1>3, <1>5, <1>6, <1>7, HandlerMoves
  DEF Next, ManagerStep, WorkerStep, Own

\* Requests that change the same thing run one after the other, or raced is set.
LEMMA ManagerHoldsKept ==
  ASSUME IdsInv, DataInv, [Next]_vars
  PROVE  ManagerHolds'
<1>0. CatalogTypes /\ Locking /\ ManagerHolds /\ Manager \in Nodes /\ Manager \notin Workers
      /\ Workers \subseteq Nodes /\ None \notin Requests
  BY CatalogAssumption DEF IdsInv, DataInv, Nodes
<1>a. \A r, q \in Requests : races(r, q)' = races(r, q) BY DEF races
<1>b. ASSUME raced => raced', cat'[Manager] = cat[Manager], \A q \in Requests : Running(q)' => Running(q)
      PROVE  ManagerHolds'
  BY <1>0, <1>a, <1>b DEF ManagerHolds
<1> USE DEF CatalogTypes
<1>1. ASSUME NEW r \in Requests, begin(r) PROVE ManagerHolds'
  <2> DEFINE M == cat[Manager]
             N == applied(cat[Manager], r)
  <2>1. /\ takesLock(r) => serverMutex = None
        /\ cat' = [cat EXCEPT ![Manager] = applied(cat[Manager], r)]
        /\ rpc' = [rpc EXCEPT ![r] = "call"]
        /\ raced' = (raced \/ \E q \in Requests : Running(q) /\ races(r, q))
    BY <1>1 DEF begin
  <2>2. cat'[Manager] = N /\ M \in Shape BY <1>0, <2>1
  <2>3. /\ r.op = "createDatabase" => N.db /\ N.set = M.set
        /\ r.op = "deleteDatabase" => ~N.db /\ ~N.set
        /\ r.op = "createSet" => N.db = M.db /\ N.set = M.db
        /\ r.op = "deleteSet" => N.db = M.db /\ ~N.set
        /\ r.op \in {"registerType", "sync"} => N.db = M.db /\ N.set = M.set
    BY <2>2, AppliedData
  <2>4. r.op \in Ops BY CatalogAssumption
  <2>5. \A q \in Requests : Running(q)' => q = r \/ Running(q) BY <1>0, <2>1 DEF Running
  <2> HIDE DEF M, N
  <2>6. SUFFICES ASSUME ~raced', NEW q \in Requests, Running(q)'
                 PROVE  /\ q.op = "createDatabase" => N.db
                        /\ q.op = "deleteDatabase" => ~N.db /\ ~N.set
                        /\ q.op = "createSet" => N.set = N.db
                        /\ q.op = "deleteSet" => ~N.set
                        /\ \A p \in Requests : Running(p)' => ~races(q, p)
    BY <1>a, <2>2 DEF ManagerHolds
  <2>7. ~raced /\ \A p \in Requests : Running(p) => ~races(r, p) /\ ~races(p, r)
    BY <2>1, <2>6 DEF races
  <2>8. ~races(r, r) BY DEF races
  <2>9. \A p \in Requests : Running(p)' => ~races(q, p)
    BY <1>0, <2>5, <2>6, <2>7, <2>8 DEF ManagerHolds
  <2>10. CASE q = r BY <2>3, <2>9, <2>10
  <2>11. CASE q # r
    <3>1. Running(q) /\ ~races(r, q) BY <2>5, <2>6, <2>7, <2>11
    <3>2. /\ q.op = "createDatabase" => M.db
          /\ q.op = "deleteDatabase" => ~M.db /\ ~M.set
          /\ q.op = "createSet" => M.set = M.db
          /\ q.op = "deleteSet" => ~M.set
      BY <1>0, <2>7, <3>1 DEF ManagerHolds, M
    <3>3. r.op = "deleteSet" \/ q.op = "deleteSet"
      BY <1>0, <2>1, <3>1 DEF Locking, takesLock
    <3>4. ~(r.op = "createSet" /\ q.op = "deleteSet") /\ ~(r.op = "deleteSet" /\ q.op = "createSet")
      BY <3>1 DEF races
    <3> QED BY <2>3, <2>4, <2>9, <3>2, <3>3, <3>4 DEF Ops
  <2> QED BY <2>10, <2>11
<1>2. ASSUME NEW r \in Requests, Moved(r) PROVE ManagerHolds'
  BY <1>b, <1>2 DEF Moved, Running
<1>3. ASSUME NEW r \in Requests, finish(r) PROVE ManagerHolds'
  <2>1. rpc' = [rpc EXCEPT ![r] = "done"] /\ UNCHANGED <<cat, raced>> BY <1>3 DEF finish
  <2> QED BY <1>0, <1>b, <2>1 DEF Running
<1>4. ASSUME NEW w \in Workers, NEW r \in Requests, Handled(w, r) PROVE ManagerHolds'
  <2>1. /\ cat' = [cat EXCEPT ![w] = applied(cat[w], r)] /\ raced' = raced
        /\ \A q \in Requests : q # r => rpc'[q] = rpc[q]
        /\ rpc' = rpc \/ (rpc[r] = "wait" /\ rpc'[r] = "call")
    BY <1>4 DEF Handled
  <2>2. cat'[Manager] = cat[Manager] BY <1>0, <2>1
  <2>3. \A q \in Requests : Running(q)' => Running(q) BY <2>1 DEF Running
  <2> QED BY <1>b, <2>1, <2>2, <2>3
<1>5. ASSUME NEW w \in Workers, Own(w) PROVE ManagerHolds'
  <2>1. UNCHANGED <<rpc, raced>> /\ cat'[Manager] = cat[Manager]
    BY <1>0, <1>5 DEF Own, syncKnown, writeDump, fetched, fetchFails, crash, start, fetchType, handlerVars
  <2> QED BY <1>b, <2>1 DEF Running
<1>6. CASE UNCHANGED vars BY <1>b, <1>6 DEF vars, handlerVars, Running
<1> QED BY <1>0, <1>1, <1>2, <1>3, <1>4, <1>5, <1>6, HandlerMoves, WorkerHandles
  DEF Next, ManagerStep, WorkerStep, Own

\* Steps after which a worker has the databases and sets that it had.
LEMMA FollowFrame ==
  ASSUME NEW v \in Workers, Follows(v), hasDb(v)' = hasDb(v), hasSet(v)' = hasSet(v),
         cat'[Manager].db = cat[Manager].db, cat'[Manager].set = cat[Manager].set,
         \A q \in Requests : q.op \in ChangesDb \cup ChangesSet /\ Coming(q, v) => Coming(q, v)',
         spc'[v] = "dump" =>
           /\ spc[v] = "dump" /\ dump'[v] = dump[v] /\ cat'[v].db = cat[v].db /\ cat'[v].set = cat[v].set,
         \A q \in Requests : Running(q)' => Running(q)
  PROVE  Follows(v)'
<1>1. hasDb(v)' = cat'[Manager].db \/ \E r \in Requests : Coming(r, v)' /\ r.op \in ChangesDb
  BY DEF Follows
<1>2. hasSet(v)' = cat'[Manager].set \/ \E r \in Requests : Coming(r, v)' /\ r.op \in ChangesSet
  BY DEF Follows
<1>3. spc'[v] = "dump" =>
       /\ ~cat'[v].set /\ (cat'[v].db => ~dump'[v].db)
       /\ \A r \in Requests : Running(r)' /\ r.op = "createDatabase" => ~dump'[v].db
  BY DEF Follows
<1> QED BY <1>1, <1>2, <1>3 DEF Follows, ChangesDb, ChangesSet

\* The answers of a request only become worse, and the worker was followed before.
LEMMA FollowSetup ==
  ASSUME DataInv, ~raced, \A q \in Requests : res'[q] => res[q], Succeeding',
         NEW v \in Workers \ stale, Settled(v)
  PROVE  Follows(v)
BY DEF DataInv, WorkersFollow, Succeeding

\* A request that goes on without a failure is still to reach whom it had to reach.
LEMMA FollowMoved ==
  ASSUME IdsInv, DataInv, NEW r \in Requests, Moved(r), ~raced', Succeeding',
         NEW v \in Workers \ stale', Settled(v)'
  PROVE  Follows(v)'
<1>1. /\ UNCHANGED <<cat, dump, spc, nodes, overwritten, unsynced, raced, stale>>
      /\ Running(r) /\ rpc'[r] \in {"call", "wait"} /\ (res'[r] => res[r])
      /\ \A q \in Requests : q # r => rpc'[q] = rpc[q] /\ todo'[q] = todo[q] /\ at'[q] = at[q] /\ res'[q] = res[q]
      /\ Pending(r, v) => v \in todo'[r] \/ (rpc'[r] = "wait" /\ at'[r] = v) \/ ~res'[r]
  BY DEF Moved
<1>2. Settled(v) BY <1>1 DEF Settled
<1>3. Follows(v) BY <1>1, <1>2, FollowSetup
<1>4. hasDb(v)' = hasDb(v) /\ hasSet(v)' = hasSet(v) BY <1>1 DEF hasDb, hasSet
<1>5. res'[r] BY DEF Succeeding
<1>6. \A q \in Requests : Coming(q, v) => Coming(q, v)' BY <1>1, <1>5 DEF Coming, Running, Pending
<1>7. \A q \in Requests : Running(q)' => Running(q) BY <1>1 DEF Running
<1> QED BY <1>1, <1>3, <1>4, <1>6, <1>7, FollowFrame

\* What the manager changes is then to be brought to every worker.
LEMMA FollowBegin ==
  ASSUME IdsInv, DataInv, NEW r \in Requests, begin(r), ~raced', Succeeding',
         NEW v \in Workers \ stale', Settled(v)'
  PROVE  Follows(v)'
<1> DEFINE M == cat[Manager]
           N == applied(cat[Manager], r)
<1>0. /\ CatalogTypes /\ Locking /\ Plain /\ Manager \in Nodes /\ Manager # v /\ v \in Nodes
      /\ None \notin Requests /\ r.op \in Ops
  BY CatalogAssumption DEF IdsInv, DataInv, Nodes
<1>1. /\ rpc[r] = "new" /\ (takesLock(r) => serverMutex = None)
      /\ cat' = [cat EXCEPT ![Manager] = applied(cat[Manager], r)]
      /\ rpc' = [rpc EXCEPT ![r] = "call"] /\ todo' = [todo EXCEPT ![r] = nodes]
      /\ res' = [res EXCEPT ![r] = accepted(cat[Manager], r)]
      /\ raced' = (raced \/ \E q \in Requests : Running(q) /\ races(r, q))
      /\ UNCHANGED <<at, nodes, spc, dump, overwritten, unsynced, stale>>
  BY DEF begin, joinVars
<1>2. cat'[v] = cat[v] /\ cat'[Manager] = N /\ M \in Shape BY <1>0, <1>1 DEF CatalogTypes
<1>3. /\ r.op = "createDatabase" => N.db /\ N.set = M.set
      /\ r.op = "deleteDatabase" => ~N.db /\ ~N.set
      /\ r.op = "createSet" => N.db = M.db /\ N.set = M.db
      /\ r.op = "deleteSet" => N.db = M.db /\ ~N.set
      /\ r.op \in {"registerType", "sync"} => N.db = M.db /\ N.set = M.set
  BY <1>2, AppliedData
<1>4. Settled(v)
  <2>1. registered(cat'[v]) = registered(cat[v]) BY <1>2
  <2> QED BY <1>1, <2>1 DEF Settled
<1>5. \A q \in Requests : res'[q] => res[q] BY <1>0, <1>1 DEF Plain, CatalogTypes
<1>6. Follows(v) BY <1>1, <1>4, <1>5, FollowSetup
<1>7. hasDb(v)' = hasDb(v) /\ hasSet(v)' = hasSet(v) BY <1>1, <1>2 DEF hasDb, hasSet
<1>8. Coming(r, v)' BY <1>0, <1>1, <1>4 DEF Coming, Running, Settled, CatalogTypes
<1>9. \A q \in Requests : Coming(q, v) => Coming(q, v)'
  BY <1>0, <1>1 DEF Coming, Running, CatalogTypes
<1>10. \A q \in Requests : Running(q)' => q = r \/ Running(q) BY <1>0, <1>1 DEF Running, CatalogTypes
<1> HIDE DEF M, N
<1>11. hasDb(v)' = N.db \/ \E q \in Requests : Coming(q, v)' /\ q.op \in ChangesDb
  <2>1. CASE r.op \in ChangesDb BY <1>8, <2>1
  <2>2. CASE r.op \notin ChangesDb
    <3>1. N.db = M.db BY <1>0, <1>3, <2>2 DEF Ops, ChangesDb
    <3> QED BY <1>6, <1>7, <1>9, <3>1 DEF Follows, M
  <2> QED BY <2>1, <2>2
<1>12. hasSet(v)' = N.set \/ \E q \in Requests : Coming(q, v)' /\ q.op \in ChangesSet
  <2>1. CASE r.op \in ChangesSet BY <1>8, <2>1
  <2>2. CASE r.op \notin ChangesSet
    <3>1. N.set = M.set BY <1>0, <1>3, <2>2 DEF Ops, ChangesSet
    <3> QED BY <1>6, <1>7, <1>9, <3>1 DEF Follows, M
  <2> QED BY <2>1, <2>2
<1>13. ASSUME spc[v] = "dump", r.op = "createDatabase" PROVE ~dump[v].db
  <2>1. res'[r] = accepted(M, r) BY <1>0, <1>1 DEF CatalogTypes, M
  <2>2. accepted(M, r) BY <2>1 DEF Succeeding
  <2>3. ~M.db BY <1>13, <2>2 DEF accepted
  <2>4. \A q \in Requests : Running(q) => ~takesLock(q)
    BY <1>0, <1>1, <1>13 DEF Locking, takesLock
  <2>5. \A q \in Requests : Coming(q, v) => q.op \notin ChangesDb
    BY <2>4 DEF Coming, ChangesDb, takesLock
  <2>6. hasDb(v) = M.db BY <1>6, <2>5 DEF Follows, M
  <2> QED BY <1>13, <2>3, <2>6 DEF hasDb
<1>14. spc'[v] = "dump" =>
       /\ ~cat'[v].set /\ (cat'[v].db => ~dump'[v].db)
       /\ \A q \in Requests : Running(q)' /\ q.op = "createDatabase" => ~dump'[v].db
  BY <1>1, <1>2, <1>6, <1>10, <1>13 DEF Follows
<1> QED BY <1>2, <1>11, <1>12, <1>14 DEF Follows, ChangesDb, ChangesSet

\* A worker that handles a request has what the manager has, before and after it writes its copy.
LEMMA FollowHandled ==
  ASSUME IdsInv, DataInv, NEW w \in Workers, NEW r \in Requests, Handled(w, r), ~raced', Succeeding',
         NEW v \in Workers \ stale', Settled(v)'
  PROVE  Follows(v)'
<1> DEFINE M == cat[Manager]
           N == applied(cat[w], r)
<1>0. /\ CatalogTypes /\ Locking /\ Plain /\ ManagerHolds
      /\ Manager \in Nodes /\ Manager \notin {v, w} /\ v \in Nodes /\ w \in Nodes /\ r.op \in Ops
  BY CatalogAssumption DEF IdsInv, DataInv, Nodes
<1>1. /\ cat' = [cat EXCEPT ![w] = applied(cat[w], r)]
      /\ UNCHANGED <<dump, spc, nodes, overwritten, unsynced, raced, todo, at>>
      /\ \A q \in Requests : q # r => rpc'[q] = rpc[q] /\ res'[q] = res[q]
      /\ \/ UNCHANGED <<rpc, res>>
         \/ rpc[r] = "wait" /\ at[r] = w /\ rpc'[r] = "call" /\ (res'[r] => res[r] /\ accepted(cat[w], r))
      /\ stale \subseteq stale' /\ ((Running(r) /\ at[r] = w) \/ w \in stale')
  BY DEF Handled
<1>2. cat'[Manager] = M /\ cat'[w] = N /\ (v # w => cat'[v] = cat[v]) /\ cat[w] \in Shape
  BY <1>0, <1>1 DEF CatalogTypes
<1>3. /\ r.op = "createDatabase" => N.db /\ N.set = cat[w].set
      /\ r.op = "deleteDatabase" => ~N.db /\ ~N.set
      /\ r.op = "createSet" => N.db = cat[w].db /\ N.set = cat[w].db
      /\ r.op = "deleteSet" => N.db = cat[w].db /\ ~N.set
      /\ r.op \in {"registerType", "sync"} => N.db = cat[w].db /\ N.set = cat[w].set
  BY <1>2, AppliedData
<1>4. Settled(v)
  <2>1. registered(cat[w]) \subseteq registered(cat'[w]) BY <1>2, AppliedRegisters
  <2>2. registered(cat[v]) \subseteq registered(cat'[v]) BY <1>2, <2>1
  <2> QED BY <1>1, <2>2 DEF Settled
<1>5. \A q \in Requests : res'[q] => res[q] BY <1>1
<1>6. Follows(v) BY <1>1, <1>4, <1>5, FollowSetup
<1>7. \A q \in Requests : (q # r \/ v # w) /\ Coming(q, v) => Coming(q, v)'
  BY <1>1 DEF Coming, Running
<1>8. \A q \in Requests : Running(q)' => Running(q) BY <1>1 DEF Running
<1>9. CASE v # w
  <2>1. hasDb(v)' = hasDb(v) /\ hasSet(v)' = hasSet(v) BY <1>1, <1>2, <1>9 DEF hasDb, hasSet
  <2> QED BY <1>1, <1>2, <1>6, <1>7, <1>8, <1>9, <2>1, FollowFrame
<1>10. ASSUME v = w PROVE Follows(v)'
  <2>1. Running(r) BY <1>1, <1>10
  <2>2. /\ r.op = "createDatabase" => M.db
        /\ r.op = "deleteDatabase" => ~M.db /\ ~M.set
        /\ r.op = "createSet" => M.set = M.db
        /\ r.op = "deleteSet" => ~M.set
    BY <1>0, <1>1, <2>1 DEF ManagerHolds
  <2>3. \A q \in Requests : Coming(q, v) /\ takesLock(q) /\ takesLock(r) => q = r
    BY <1>0, <2>1 DEF Coming, Locking
  <2>4. \A q \in Requests : Coming(q, v) /\ q # r => Coming(q, v)' BY <1>7
  <2>5. /\ hasDb(v) = M.db \/ \E q \in Requests : Coming(q, v) /\ q.op \in ChangesDb
        /\ hasSet(v) = M.set \/ \E q \in Requests : Coming(q, v) /\ q.op \in ChangesSet
        /\ spc[v] = "dump" =>
             /\ ~cat[v].set /\ (cat[v].db => ~dump[v].db)
             /\ \A q \in Requests : Running(q) /\ q.op = "createDatabase" => ~dump[v].db
    BY <1>6 DEF Follows, M
  <2>6. SUFFICES /\ hasDb(v)' = M.db \/ \E q \in Requests : Coming(q, v)' /\ q.op \in ChangesDb
                 /\ hasSet(v)' = M.set \/ \E q \in Requests : Coming(q, v)' /\ q.op \in ChangesSet
                 /\ spc[v] = "dump" => ~N.set /\ (N.db => ~dump[v].db)
    BY <1>1, <1>2, <1>8, <1>10, <2>5 DEF Follows, ChangesDb, ChangesSet
  <2> HIDE DEF M, N
  <2>b. /\ M.db \in BOOLEAN /\ M.set \in BOOLEAN /\ dump[w].db \in BOOLEAN /\ dump[w].set \in BOOLEAN
        /\ N.db \in BOOLEAN /\ N.set \in BOOLEAN
    <3>1. N \in Shape /\ M \in Shape /\ dump[w] \in Shape BY <1>0, <1>2, AppliedTypes DEF M, N, CatalogTypes
    <3> QED BY <3>1 DEF Shape
  <2>7. CASE spc[v] # "dump"
    <3>1. hasDb(v) = cat[w].db /\ hasSet(v) = cat[w].set BY <1>10, <2>7 DEF hasDb, hasSet
    <3>2. hasDb(v)' = N.db /\ hasSet(v)' = N.set BY <1>1, <1>2, <1>10, <2>7 DEF hasDb, hasSet
    <3>3. CASE r.op \in {"createDatabase", "deleteDatabase"}
      <4>1. hasDb(v)' = M.db BY <1>3, <2>2, <2>b, <3>2, <3>3
      <4>2. CASE r.op = "createDatabase"
        <5>1. N.set = cat[w].set /\ r.op \notin ChangesSet BY <1>3, <4>2 DEF ChangesSet
        <5> QED BY <2>4, <2>5, <2>7, <3>1, <3>2, <4>1, <5>1
      <4>3. CASE r.op = "deleteDatabase"
        <5>1. hasSet(v)' = M.set BY <1>3, <2>2, <2>b, <3>2, <4>3
        <5> QED BY <2>7, <4>1, <5>1
      <4> QED BY <3>3, <4>2, <4>3
    <3>4. CASE r.op = "createSet"
      <4>1. takesLock(r) /\ \A q \in Requests : q.op \in ChangesDb => takesLock(q) /\ q # r
        BY <3>4 DEF takesLock, ChangesDb
      <4>2. cat[w].db = M.db BY <2>3, <2>5, <3>1, <4>1
      <4> QED BY <1>3, <2>2, <2>7, <3>2, <3>4, <4>2
    <3>5. CASE r.op \in {"deleteSet", "registerType", "sync"}
      <4>1. N.db = cat[w].db /\ r.op \notin ChangesDb BY <1>3, <3>5 DEF ChangesDb
      <4>2. hasDb(v)' = M.db \/ \E q \in Requests : Coming(q, v)' /\ q.op \in ChangesDb
        BY <2>4, <2>5, <3>1, <3>2, <4>1
      <4>3. CASE r.op = "deleteSet"
        <5>1. hasSet(v)' = M.set BY <1>3, <2>2, <2>b, <3>2, <4>3
        <5> QED BY <2>7, <4>2, <5>1
      <4>4. CASE r.op # "deleteSet"
        <5>1. N.set = cat[w].set /\ r.op \notin ChangesSet BY <1>3, <3>5, <4>4 DEF ChangesSet
        <5> QED BY <2>4, <2>5, <2>7, <3>1, <3>2, <4>2, <5>1
      <4> QED BY <4>3, <4>4
    <3> QED BY <1>0, <3>3, <3>4, <3>5 DEF Ops
  <2>8. CASE spc[v] = "dump"
    <3>1. hasDb(v) = (dump[w].db \/ cat[w].db) /\ hasSet(v) = dump[w].set BY <1>10, <2>8 DEF hasDb, hasSet
    <3>2. hasDb(v)' = (dump[w].db \/ N.db) /\ hasSet(v)' = dump[w].set
      BY <1>1, <1>2, <1>10, <2>8 DEF hasDb, hasSet
    <3>3. ~Registers(r)
      <4>1. Registers(r) => r.type \in registered(cat'[w]) BY <1>2, AppliedRegisters DEF N
      <4> QED BY <1>1, <1>10, <2>8, <4>1 DEF Settled
    <3>4. r.op \in {"createDatabase", "deleteDatabase", "deleteSet", "sync"}
      BY <1>0, <3>3 DEF Registers, Ops
    <3>6. CASE r.op = "createDatabase"
      <4>1. N.db /\ N.set = cat[w].set /\ M.db /\ r.op \notin ChangesSet BY <1>3, <2>2, <3>6 DEF ChangesSet
      <4>2. hasDb(v)' = M.db BY <2>b, <3>2, <4>1
      <4>3. ~dump[v].db BY <2>1, <2>5, <2>8, <3>6
      <4>4. hasSet(v)' = M.set \/ \E q \in Requests : Coming(q, v)' /\ q.op \in ChangesSet
        BY <2>4, <2>5, <3>1, <3>2, <4>1
      <4> QED BY <1>10, <2>5, <2>8, <4>1, <4>2, <4>3, <4>4
    <3>7. CASE r.op = "deleteDatabase"
      <4>1. ~N.db /\ ~N.set /\ ~M.db /\ ~M.set /\ r.op \in ChangesDb /\ r.op \in ChangesSet
        BY <1>3, <2>2, <3>7 DEF ChangesDb, ChangesSet
      <4>2. dump[w].set => dump[w].db BY <1>0 DEF Plain
      <4>3. ASSUME ~dump[w].db PROVE hasDb(v)' = M.db /\ hasSet(v)' = M.set
        BY <2>b, <3>2, <4>1, <4>2, <4>3
      <4>4. CASE UNCHANGED <<rpc, res>>
        <5>1. CASE Coming(r, v)
          <6>1. Coming(r, v)' BY <1>1, <4>4, <5>1 DEF Coming, Running
          <6> QED BY <4>1, <6>1
        <5>2. CASE ~Coming(r, v)
          <6>1. takesLock(r) /\ \A q \in Requests : q.op \in ChangesDb => takesLock(q)
            BY <3>7 DEF takesLock, ChangesDb
          <6>2. hasDb(v) = M.db BY <2>3, <2>5, <5>2, <6>1
          <6>3. ~dump[w].db BY <3>1, <4>1, <6>2
          <6> QED BY <4>1, <4>3, <6>3
        <5> QED BY <5>1, <5>2
      <4>5. CASE res'[r] => res[r] /\ accepted(cat[w], r)
        <5>1. accepted(cat[w], r) BY <4>5 DEF Succeeding
        <5>2. cat[w].db BY <3>7, <5>1 DEF accepted
        <5>3. ~dump[w].db BY <1>10, <2>5, <2>8, <5>2
        <5> QED BY <4>1, <4>3, <5>3
      <4> QED BY <1>1, <4>4, <4>5
    <3>8. CASE r.op = "deleteSet"
      <4>1. N.db = cat[w].db /\ ~N.set /\ ~M.set /\ r.op \notin ChangesDb
        BY <1>3, <2>2, <3>8 DEF ChangesDb
      <4>2. hasDb(v)' = M.db \/ \E q \in Requests : Coming(q, v)' /\ q.op \in ChangesDb
        BY <2>4, <2>5, <3>1, <3>2, <4>1
      <4>3. CASE UNCHANGED <<rpc, res>>
        <5>1. Coming(r, v) => Coming(r, v)' BY <1>1, <4>3 DEF Coming, Running
        <5> QED BY <1>10, <2>4, <2>5, <2>8, <3>1, <3>2, <4>1, <4>2, <5>1
      <4>4. CASE res'[r] => res[r] /\ accepted(cat[w], r)
        <5>1. accepted(cat[w], r) BY <4>4 DEF Succeeding
        <5>2. cat[w].set BY <3>8, <5>1 DEF accepted
        <5> QED BY <1>10, <2>5, <2>8, <5>2
      <4> QED BY <1>1, <4>3, <4>4
    <3>9. CASE r.op = "sync"
      <4>1. N.db = cat[w].db /\ N.set = cat[w].set /\ r.op \notin ChangesDb /\ r.op \notin ChangesSet
        BY <1>3, <3>9 DEF ChangesDb, ChangesSet
      <4>2. hasDb(v)' = hasDb(v) /\ hasSet(v)' = hasSet(v) BY <3>1, <3>2, <4>1
      <4>3. hasDb(v)' = M.db \/ \E q \in Requests : Coming(q, v)' /\ q.op \in ChangesDb
        BY <2>4, <2>5, <4>1, <4>2
      <4>4. hasSet(v)' = M.set \/ \E q \in Requests : Coming(q, v)' /\ q.op \in ChangesSet
        BY <2>4, <2>5, <4>1, <4>2
      <4> QED BY <1>10, <2>5, <2>8, <4>1, <4>3, <4>4
    <3> QED BY <3>4, <3>6, <3>7, <3>8, <3>9
  <2> QED BY <2>7, <2>8
<1> QED BY <1>9, <1>10

\* A worker that joins starts from the manager's catalog.
LEMMA FollowFinish ==
  ASSUME IdsInv, DataInv, NEW r \in Requests, finish(r), ~raced', Succeeding',
         NEW v \in Workers \ stale', Settled(v)'
  PROVE  Follows(v)'
<1>0. CatalogTypes /\ Locking /\ Outside /\ Manager \in Nodes /\ v \in Nodes
  BY CatalogAssumption DEF IdsInv, DataInv, Nodes
<1>1. /\ rpc[r] = "call" /\ todo[r] = {} /\ rpc' = [rpc EXCEPT ![r] = "done"]
      /\ at' = [at EXCEPT ![r] = Manager] /\ UNCHANGED <<cat, todo, res, raced, stale>>
  BY DEF finish
<1>2. \A q \in Requests : Coming(q, v) => Coming(q, v)'
  BY <1>0, <1>1 DEF Coming, Running, CatalogTypes
<1>3. \A q \in Requests : Running(q)' => Running(q) /\ q # r BY <1>0, <1>1 DEF Running, CatalogTypes
<1>4. ASSUME v \in nodes, spc'[v] = spc[v], dump'[v] = dump[v], overwritten' = overwritten,
             unsynced \subseteq unsynced'
      PROVE  Follows(v)'
  <2>1. Settled(v) BY <1>1, <1>4 DEF Settled
  <2>2. Follows(v) BY <1>1, <2>1, FollowSetup
  <2>3. hasDb(v)' = hasDb(v) /\ hasSet(v)' = hasSet(v) BY <1>1, <1>4 DEF hasDb, hasSet
  <2> QED BY <1>1, <1>2, <1>3, <1>4, <2>2, <2>3, FollowFrame
<1>5. CASE r.op # "sync"
  <2>1. UNCHANGED <<nodes, spc, dump, overwritten, unsynced>> BY <1>5 DEF finish, joinVars
  <2> QED BY <1>4, <2>1 DEF Settled
<1>6. CASE r.op = "sync"
  <2>1. r.node \in Workers BY <1>6, CatalogAssumption
  <2>2. /\ nodes' = nodes \cup {r.node} /\ UNCHANGED overwritten
        /\ \/ /\ spc' = [spc EXCEPT ![r.node] = "dump"] /\ dump' = [dump EXCEPT ![r.node] = cat[Manager]]
              /\ unsynced' = unsynced
           \/ unsynced' = unsynced \cup {r.node} /\ UNCHANGED <<spc, dump>>
    BY <1>6 DEF finish
  <2>3. CASE v # r.node
    <3>1. v \in nodes /\ spc'[v] = spc[v] /\ dump'[v] = dump[v] /\ unsynced \subseteq unsynced'
      BY <1>0, <2>1, <2>2, <2>3 DEF CatalogTypes, Settled
    <3> QED BY <1>4, <2>2, <3>1
  <2>4. CASE v = r.node
    <3>1. spc'[v] = "dump" /\ dump'[v] = cat[Manager]
      BY <1>0, <2>1, <2>2, <2>4 DEF CatalogTypes, Settled
    <3>2. v \notin nodes BY <1>0, <1>1, <1>6, <2>4 DEF Outside, Running
    <3>3. ~cat[v].db /\ ~cat[v].set BY <1>0, <3>2 DEF Outside
    <3>4. \A q \in Requests : Running(q)' => q.op # "createDatabase"
      BY <1>0, <1>1, <1>3, <1>6 DEF Locking, Running, takesLock
    <3>5. cat[Manager].db \in BOOLEAN
      <4>1. cat[Manager] \in Shape BY <1>0 DEF CatalogTypes
      <4> QED BY <4>1 DEF Shape
    <3>6. hasDb(v)' = cat'[Manager].db /\ hasSet(v)' = cat'[Manager].set
      BY <1>1, <3>1, <3>3, <3>5 DEF hasDb, hasSet
    <3> QED BY <1>1, <3>3, <3>4, <3>6 DEF Follows
  <2> QED BY <2>3, <2>4
<1> QED BY <1>5, <1>6

\* A worker that writes its copy, crashes, starts or fetches a type keeps databases and sets.
LEMMA FollowOwn ==
  ASSUME IdsInv, DataInv, NEW w \in Workers, Own(w), ~raced', Succeeding',
         NEW v \in Workers \ stale', Settled(v)'
  PROVE  Follows(v)'
<1>0. CatalogTypes /\ Manager \in Nodes /\ Manager \notin {v, w} /\ v \in Nodes /\ w \in Nodes
  BY CatalogAssumption DEF IdsInv, Nodes
<1>1. UNCHANGED <<rpc, todo, at, res, nodes, raced, stale>> /\ cat'[Manager] = cat[Manager]
  BY <1>0 DEF Own, syncKnown, writeDump, fetched, fetchFails, crash, start, fetchType,
             handlerVars, joinVars, CatalogTypes
<1>2. ASSUME Settled(v), hasDb(v)' = hasDb(v), hasSet(v)' = hasSet(v),
             spc'[v] = "dump" =>
               spc[v] = "dump" /\ dump'[v] = dump[v] /\ cat'[v].db = cat[v].db /\ cat'[v].set = cat[v].set
      PROVE  Follows(v)'
  <2>1. Follows(v) BY <1>1, <1>2, FollowSetup
  <2>2. \A q \in Requests : (Coming(q, v) => Coming(q, v)') /\ (Running(q)' => Running(q))
    BY <1>1 DEF Coming, Running
  <2> QED BY <1>1, <1>2, <2>1, <2>2, FollowFrame
<1>3. CASE syncKnown(w) \/ start(w)
  <2>1. /\ UNCHANGED <<cat, dump, overwritten, unsynced>>
        /\ spc'[v] = "dump" <=> spc[v] = "dump"
    BY <1>0, <1>3 DEF syncKnown, start, CatalogTypes
  <2>2. Settled(v) /\ hasDb(v)' = hasDb(v) /\ hasSet(v)' = hasSet(v)
    BY <1>1, <2>1 DEF Settled, hasDb, hasSet
  <2> QED BY <1>2, <2>1, <2>2
<1>4. CASE writeDump(w)
  <2>1. /\ spc[w] = "dump" /\ spc' = [spc EXCEPT ![w] = "up"] /\ cat' = [cat EXCEPT ![w] = dump[w]]
        /\ overwritten' = IF cat[w] = emptyCatalog THEN overwritten ELSE overwritten \cup {w}
        /\ dump' = [dump EXCEPT ![w] = emptyCatalog] /\ unsynced' = unsynced
    BY <1>4 DEF writeDump
  <2>2. CASE v = w
    <3>1. cat[w] = emptyCatalog /\ v \notin overwritten BY <2>1, <2>2 DEF Settled
    <3>2. registered(cat[w]) = {} BY <3>1 DEF registered, emptyCatalog
    <3>3. Settled(v) BY <1>1, <2>1, <2>2, <3>1, <3>2 DEF Settled
    <3>4. dump[w].db \in BOOLEAN /\ ~cat[w].db
      <4>1. dump[w] \in Shape BY <1>0 DEF CatalogTypes
      <4> QED BY <3>1, <4>1 DEF Shape, emptyCatalog
    <3>5. cat'[v] = dump[w] /\ spc'[v] = "up" BY <1>0, <2>1, <2>2 DEF CatalogTypes
    <3>6. hasDb(v) = dump[w].db /\ hasSet(v) = dump[w].set BY <2>1, <2>2, <3>4 DEF hasDb, hasSet
    <3>7. hasDb(v)' = dump[w].db /\ hasSet(v)' = dump[w].set BY <3>5 DEF hasDb, hasSet
    <3> QED BY <1>2, <3>3, <3>5, <3>6, <3>7
  <2>3. CASE v # w
    <3>1. cat'[v] = cat[v] /\ spc'[v] = spc[v] /\ dump'[v] = dump[v] BY <1>0, <2>1, <2>3 DEF CatalogTypes
    <3>2. registered(cat'[v]) = registered(cat[v]) BY <3>1
    <3>3. Settled(v) BY <1>1, <2>1, <3>1, <3>2 DEF Settled
    <3>4. hasDb(v)' = hasDb(v) /\ hasSet(v)' = hasSet(v) BY <3>1 DEF hasDb, hasSet
    <3> QED BY <1>2, <3>1, <3>3, <3>4
  <2> QED BY <2>2, <2>3
<1>5. CASE crash(w)
  <2>1. /\ spc' = [spc EXCEPT ![w] = "down"] /\ dump' = [dump EXCEPT ![w] = emptyCatalog]
        /\ unsynced' = IF spc[w] = "dump" THEN unsynced \cup {w} ELSE unsynced
        /\ UNCHANGED <<cat, overwritten>>
    BY <1>5 DEF crash
  <2>2. v = w => spc[v] # "dump" /\ spc'[v] # "dump" BY <1>0, <2>1 DEF Settled, CatalogTypes
  <2>3. v # w => spc'[v] = spc[v] /\ dump'[v] = dump[v] BY <1>0, <2>1 DEF CatalogTypes
  <2>4. Settled(v) BY <1>1, <2>1, <2>2, <2>3 DEF Settled
  <2>5. hasDb(v)' = hasDb(v) /\ hasSet(v)' = hasSet(v) BY <2>1, <2>2, <2>3 DEF hasDb, hasSet
  <2> QED BY <1>2, <2>1, <2>2, <2>3, <2>4, <2>5
<1>6. CASE fetchFails(w) \/ \E t \in Types : fetchType(w, t)
  <2>1. UNCHANGED <<cat, spc, dump, overwritten, unsynced>> BY <1>6 DEF fetchFails, fetchType, joinVars
  <2>2. Settled(v) /\ hasDb(v)' = hasDb(v) /\ hasSet(v)' = hasSet(v)
    BY <1>1, <2>1 DEF Settled, hasDb, hasSet
  <2> QED BY <1>2, <2>1, <2>2
<1>7. CASE fetched(w)
  <2> DEFINE t == fetch[w]
             id == cat[Manager].types[t]
  <2>1. /\ t # None /\ UNCHANGED <<spc, dump, overwritten, unsynced>>
        /\ cat' = [cat EXCEPT ![w] = loadAndRegisterType(cat[w], t, id)]
    BY <1>7 DEF fetched, joinVars
  <2>2. t \in registered(cat[Manager]) BY <2>1 DEF IdsInv, Known
  <2>3. t \in Types /\ id \in Int /\ id # NoType BY <1>0, <2>2 DEF registered, CatalogTypes, Shape
  <2>4. cat[w] \in Shape BY <1>0 DEF CatalogTypes
  <2> HIDE DEF t, id
  <2>5. cat'[w] = loadAndRegisterType(cat[w], t, id) /\ (v # w => cat'[v] = cat[v])
    BY <1>0, <2>1 DEF CatalogTypes
  <2>6. registered(cat[w]) \subseteq registered(cat'[w])
    BY <2>3, <2>4, <2>5 DEF registered, Shape, loadAndRegisterType
  <2>7. registered(cat[v]) \subseteq registered(cat'[v]) BY <2>5, <2>6
  <2>8. Settled(v) BY <1>1, <2>1, <2>7 DEF Settled
  <2>9. cat'[v].db = cat[v].db /\ cat'[v].set = cat[v].set BY <2>4, <2>5, FetchData
  <2>10. hasDb(v)' = hasDb(v) /\ hasSet(v)' = hasSet(v) BY <2>1, <2>9 DEF hasDb, hasSet
  <2> QED BY <1>2, <2>1, <2>8, <2>9, <2>10
<1> QED BY <1>3, <1>4, <1>5, <1>6, <1>7 DEF Own

\* The databases and sets at the workers follow those of the manager.
LEMMA DataInvKept ==
  ASSUME IdsInv, DataInv, [Next]_vars
  PROVE  DataInv'
<1>0. CatalogTypes /\ Locking BY DEF IdsInv
<1>1. ASSUME ~raced', Succeeding', NEW v \in Workers \ stale', Settled(v)' PROVE Follows(v)'
  <2>1. CASE UNCHANGED vars
    <3>1. UNCHANGED <<cat, spc, dump, nodes, overwritten, unsynced, rpc, todo, at, res, raced, stale>>
      BY <2>1 DEF vars, handlerVars, joinVars
    <3>2. Settled(v) BY <1>1, <3>1 DEF Settled
    <3>3. Follows(v) BY <1>1, <3>1, <3>2, FollowSetup
    <3>4. hasDb(v)' = hasDb(v) /\ hasSet(v)' = hasSet(v) BY <3>1 DEF hasDb, hasSet
    <3>5. \A q \in Requests : (Coming(q, v) => Coming(q, v)') /\ (Running(q)' => Running(q))
      BY <3>1 DEF Coming, Running
    <3> QED BY <3>1, <3>3, <3>4, <3>5, FollowFrame
  <2>2. ASSUME NEW w \in Workers, NEW copy \in inbox[w], handle(w, copy) PROVE Follows(v)'
    BY <1>0, <1>1, <2>2, WorkerHandles, FollowHandled
  <2> QED BY <1>0, <1>1, <2>1, <2>2, HandlerMoves, FollowMoved, FollowBegin, FollowFinish, FollowOwn
    DEF Next, ManagerStep, WorkerStep, Own
<1>2. WorkersFollow' BY <1>1 DEF WorkersFollow
<1> QED BY <1>2, PlainKept, OutsideKept, ManagerHoldsKept DEF DataInv

\* At the beginning there is no database.
LEMMA DataInitial == Init => DataInv
<1> SUFFICES ASSUME Init PROVE DataInv OBVIOUS
<1>1. Manager \in Nodes /\ Workers \subseteq Nodes /\ Members \subseteq Workers BY CatalogAssumption DEF Nodes
<1>2. rpc \in [Requests -> {"unsent", "new"}] BY DEF Init
<1>3. \A r \in Requests : ~Running(r) BY <1>2 DEF Running
<1>4. \A n \in Nodes : ~cat[n].db /\ ~cat[n].set BY DEF Init, emptyCatalog
<1>5. \A w \in Workers : ~dump[w].set /\ spc[w] # "dump" /\ inbox[w] = {} /\ cat[w] = cat[Manager]
  BY <1>1 DEF Init, emptyCatalog
<1>6. Plain BY <1>1, <1>4, <1>5 DEF Init, Plain
<1>7. Outside BY <1>1, <1>2, <1>3, <1>4, <1>5 DEF Init, Outside
<1>8. ManagerHolds BY <1>3 DEF ManagerHolds
<1>9. WorkersFollow BY <1>5 DEF WorkersFollow, Follows, hasDb, hasSet
<1> QED BY <1>6, <1>7, <1>8, <1>9 DEF DataInv

\* When no request is handled and all were answered with success, a worker's catalog is the manager's,
\* whatever was retried, lost or broken on the way; the exceptions are those of the property.
THEOREM CatalogsAgreeCorrect == Spec => []CatalogsAgree
<1>1. ASSUME IdsInv, DataInv PROVE CatalogsAgree
  <2>1. SUFFICES ASSUME Reported, ~raced, \A r \in Requests : ~Running(r),
                        NEW w \in nodes \ (overwritten \cup unsynced \cup stale), spc[w] # "dump"
                 PROVE  cat[w] = cat[Manager]
    BY DEF CatalogsAgree
  <2>2. w \in Workers /\ cat[w] \in Shape /\ cat[Manager] \in Shape
    BY <1>1, CatalogAssumption DEF IdsInv, CatalogTypes, Nodes
  <2>3. Settled(w) /\ base(w) = cat[w] /\ hasDb(w) = cat[w].db /\ hasSet(w) = cat[w].set
    BY <2>1 DEF Settled, base, hasDb, hasSet
  <2>4. Succeeding
    BY <1>1, <2>1 DEF Succeeding, Reported, Running, DataInv, Plain, IdsInv, CatalogTypes
  <2>5. Agrees(w) /\ Follows(w)
    BY <1>1, <2>1, <2>2, <2>3, <2>4 DEF IdsInv, WorkersAgree, DataInv, WorkersFollow
  <2>6. serverMutex = None BY <1>1, <2>1 DEF IdsInv, Locking, CatalogTypes
  <2>7. cat[w].types = cat[Manager].types BY <2>3, <2>5, <2>6 DEF Agrees
  <2>8. cat[w].db = cat[Manager].db /\ cat[w].set = cat[Manager].set
    BY <2>1, <2>3, <2>5 DEF Follows, Coming
  <2> QED BY <2>2, <2>7, <2>8 DEF Shape
<1> QED BY <1>1, IdsInitial, IdsInvKept, DataInitial, DataInvKept, PTL DEF Spec

=============================================================================
