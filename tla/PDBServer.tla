------------------------------- MODULE PDBServer -------------------------------
(***************************************************************************)
(* The server of pdbServer/source/PDBServer.cc and ServerWork.cc on top of *)
(* the worker queue: the listener gives every connection to a worker, that *)
(* worker reads the requests of the connection one after the other, takes  *)
(* another worker from the same queue for each handler and waits for it to *)
(* buzz.  A ShutDown request ends the server and destroys the queue.       *)
(*                                                                         *)
(* A connection and the requests on it are the jobs of the queue.  Clients *)
(* send a request, wait for its answer and close when they like.  The      *)
(* buzzer of one request is its flag signalSent: that its sleeper is woken *)
(* is shown in PDBBuzzer.  What a handler does is left out but for its     *)
(* use of the connection, which ends when it buzzes.                       *)
(***************************************************************************)
EXTENDS PDBWorkerQueue

CONSTANTS Conns,     \* the connections clients make
          MaxReqs,   \* bound: requests on one connection
          Kinds,     \* what requests may be
          listener,  \* the thread in PDBServer::listen
          Spurious   \* the wait for a buzzer may return without a buzz

Requests == Conns \X (1 .. MaxReqs)

ASSUME ServerAssumption ==
  /\ Jobs = Conns \cup Requests /\ Conns \cap Requests = {}
  /\ MaxReqs \in Nat \ {0}
  /\ Kinds \subseteq {"handled", "unknown", "shutDown"}
  /\ Callers = {listener}
  /\ Spurious \in BOOLEAN

VARIABLES
  sent,         \* the number of requests the client has sent
  read,         \* the number of requests its worker has read
  answered,     \* the requests whose handler has buzzed, or that were acknowledged
  signalSent,   \* of the buzzer of each connection's present request
  closed,       \* the connections that either side has closed
  accepting,    \* the listener is in accept(), past its test of allDone
  allDone

clientVars == <<sent, closed>>
serverVars == <<read, answered, signalSent, accepting, allDone>>
sVars == <<qVars, clientVars, serverVars>>

ServerInit ==
  /\ QueueInit
  /\ sent = [c \in Conns |-> 0] /\ read = [c \in Conns |-> 0]
  /\ answered = {} /\ closed = {}
  /\ signalSent = [c \in Conns |-> FALSE]
  /\ accepting = TRUE /\ allDone = FALSE

-----------------------------------------------------------------------------
(* Clients *)

Answered(c) == sent[c] = 0 \/ <<c, sent[c]>> \in answered

sendRequest(c) ==
  /\ c \notin closed /\ Answered(c) /\ sent[c] < MaxReqs
  /\ sent' = [sent EXCEPT ![c] = @ + 1]
  /\ UNCHANGED <<qVars, closed, serverVars>>

closeConnection(c) ==
  /\ c \notin closed /\ Answered(c)
  /\ closed' = closed \cup {c}
  /\ UNCHANGED <<qVars, sent, serverVars>>

-----------------------------------------------------------------------------
(* PDBServer::listen *)

\* while (!allDone)
testAllDone ==
  /\ gpc[listener] = "out" /\ ~accepting /\ ~allDone
  /\ accepting' = TRUE
  /\ UNCHANGED <<qVars, clientVars, read, answered, signalSent, allDone>>

\* The connection is accepted; handleRequest asks for a worker.
accept(c) ==
  /\ accepting /\ c \notin asked
  /\ callGetWorker(listener, c)
  /\ accepting' = FALSE
  /\ UNCHANGED <<clientVars, read, answered, signalSent, allDone>>

Listener ==
  \/ testAllDone
  \/ (GetWorker(listener) \/ executeThen(listener, "out")) /\ UNCHANGED <<clientVars, serverVars>>

-----------------------------------------------------------------------------
(* ServerWork::execute and PDBServer::handleOneRequest *)

Serves(w, c) == wpc[w] = "run" /\ runMe[w] = c

\* The worker is in getObjectTypeID().
Reading(w, c) == Serves(w, c) /\ gpc[w] = "out"

\* Mutant: the buzzer of the last request is used again.
readRequest_OldBuzzer(w, c) ==
  /\ "handled" \in Kinds /\ Reading(w, c) /\ read[c] < sent[c]
  /\ read' = [read EXCEPT ![c] = @ + 1]
  /\ callGetWorker(w, <<c, read[c] + 1>>)
  /\ UNCHANGED <<clientVars, answered, signalSent, accepting, allDone>>

\* There is a handler: a worker is wanted to run it, and a new buzzer.
readRequest(w, c) ==
  /\ "handled" \in Kinds /\ Reading(w, c) /\ read[c] < sent[c]
  /\ read' = [read EXCEPT ![c] = @ + 1]
  /\ signalSent' = [signalSent EXCEPT ![c] = FALSE]
  /\ callGetWorker(w, <<c, read[c] + 1>>)
  /\ UNCHANGED <<clientVars, answered, accepting, allDone>>

\* handlers.count(requestID) == 0: the connection is dropped.
readUnknown(w, c) ==
  /\ "unknown" \in Kinds /\ Reading(w, c) /\ read[c] < sent[c]
  /\ read' = [read EXCEPT ![c] = @ + 1]
  /\ closed' = closed \cup {c}
  /\ workReturns(w)
  /\ UNCHANGED <<sent, answered, signalSent, accepting, allDone>>

\* ShutDown: clean up, acknowledge, allDone.
readShutDown(w, c) ==
  /\ "shutDown" \in Kinds /\ Reading(w, c) /\ read[c] < sent[c]
  /\ read' = [read EXCEPT ![c] = @ + 1]
  /\ answered' = answered \cup {<<c, read[c] + 1>>}
  /\ closed' = closed \cup {c}
  /\ allDone' = TRUE
  /\ workReturns(w)
  /\ UNCHANGED <<sent, signalSent, accepting>>

\* CloseConnection, or nothing more to read.
readClose(w, c) ==
  /\ Reading(w, c) /\ read[c] = sent[c] /\ c \in closed
  /\ workReturns(w)
  /\ UNCHANGED <<clientVars, serverVars>>

\* callerBuzzer->wait().
wait(w, c) ==
  /\ Serves(w, c) /\ gpc[w] = "buzz"
  /\ signalSent[c] \/ Spurious
  /\ gpc' = [gpc EXCEPT ![w] = "out"]
  /\ UNCHANGED <<queueVars, workerVars, got, job, asked, ended, clientVars, serverVars>>

ServerWork(w, c) ==
  \/ readRequest(w, c) \/ readUnknown(w, c) \/ readShutDown(w, c) \/ readClose(w, c)
  \/ wait(w, c)
  \/ (GetWorker(w) \/ executeThen(w, "buzz")) /\ UNCHANGED <<clientVars, serverVars>>

-----------------------------------------------------------------------------
(* The handler of request r in worker w *)

\* The answer is sent and the caller is buzzed; every path of execute() does.
buzz(w, r) ==
  /\ wpc[w] = "run" /\ runMe[w] = r /\ r \notin answered
  /\ answered' = answered \cup {r}
  /\ signalSent' = [signalSent EXCEPT ![r[1]] = TRUE]
  /\ UNCHANGED <<qVars, clientVars, read, accepting, allDone>>

\* The handler returns, and so does NothingWork.
handlerReturns(w) ==
  /\ runMe[w] \in answered \cup {Nothing}
  /\ workReturns(w)
  /\ UNCHANGED <<clientVars, serverVars>>

-----------------------------------------------------------------------------
\* startServer() sees allDone, and the server is destroyed.
stopServer == allDone /\ shutDown /\ UNCHANGED <<clientVars, serverVars>>

WorkerThread(w) ==
  \/ Enter(w) /\ UNCHANGED <<clientVars, serverVars>>
  \/ \E c \in Conns : ServerWork(w, c)
  \/ \E r \in Requests : buzz(w, r)
  \/ handlerReturns(w)

\* Every client is gone and no worker has anything to do.
ServerAtRest == AtRest /\ closed = Conns /\ Conns \subseteq asked

ServerNext ==
  \/ \E c \in Conns : sendRequest(c) \/ closeConnection(c) \/ accept(c)
  \/ Listener
  \/ \E w \in Workers : WorkerThread(w)
  \/ \E t \in Threads : spuriousWakeup(t) /\ UNCHANGED <<clientVars, serverVars>>
  \/ stopServer
  \/ Destructor /\ UNCHANGED <<clientVars, serverVars>>
  \/ ServerAtRest /\ UNCHANGED sVars

ServerSpec == ServerInit /\ [][ServerNext]_sVars

\* Every thread is scheduled, handlers come to their end, clients close their
\* connections once they are answered, connections that wait are accepted, and
\* wake-ups of getWorker() without a cause do not go on for ever.
ServerFairness ==
  /\ \A c \in Conns : WF_sVars(closeConnection(c)) /\ WF_sVars(accept(c))
  /\ WF_sVars(Listener)
  /\ \A w \in Workers : WF_sVars(WorkerThread(w))
  /\ WF_sVars(stopServer) /\ WF_sVars(Destructor /\ UNCHANGED <<clientVars, serverVars>>)
  /\ <>[][\A t \in Threads : ~spuriousWakeup(t)]_sVars

FairServerSpec == ServerSpec /\ ServerFairness

-----------------------------------------------------------------------------
(* Properties *)

\* ServerWork and the handler share one PDBCommunicator.  While a handler runs,
\* until it buzzes, the worker of its connection does not read the next request.
OneReader ==
  \A w, v \in Workers, r \in Requests :
    (wpc[w] = "run" /\ runMe[w] = r /\ r \notin answered) => ~Reading(v, r[1])

\* A worker that runs a connection and wants another one for a handler never
\* comes away with nullptr: handleOneRequest uses what getWorker() returns
\* without a test.
WorkersGetWorkers == \A w \in Workers : gpc[w] # "null"

\* A request is handled, or refused with a message: its client hears of it.
EveryRequestAnswered ==
  \A r \in Requests : sent[r[1]] = r[2] ~> r \in answered

=============================================================================
