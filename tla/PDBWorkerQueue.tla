----------------------------- MODULE PDBWorkerQueue -----------------------------
(***************************************************************************)
(* The pool of worker threads of work/source/PDBWorkerQueue.cc and         *)
(* PDBWorker.cc: getWorker, execute, the life of a worker thread (enter)   *)
(* and the destructor of the queue.                                        *)
(*                                                                         *)
(* Any thread may call getWorker: threads from outside, a worker in the    *)
(* middle of its work (see PDBServer), and the destructor.  A critical     *)
(* section of waitingMutex, of workingMutex or of a worker's workerMutex   *)
(* is one step.                                                            *)
(***************************************************************************)
EXTENDS Naturals, Sequences, FiniteSets

CONSTANTS Workers,      \* the threads of the pool
          Callers,      \* threads outside of the pool
          Main,         \* the thread that destroys the queue
          Jobs,         \* pieces of work, each handed over once
          Nothing,      \* NothingWork
          MayShutDown,  \* the queue may be destroyed
          nullptr

Threads == Callers \cup Workers \cup {Main}

ASSUME QueueAssumption ==
  /\ IsFiniteSet(Workers) /\ Workers # {}
  /\ Callers \cap Workers = {} /\ Main \notin Callers \cup Workers
  /\ Nothing \notin Jobs /\ nullptr \notin Jobs \cup Workers \cup {Nothing}
  /\ MayShutDown \in BOOLEAN

VARIABLES
  waiting,        \* the workers nobody has, used as a stack
  working,        \* the workers that were handed out
  numOut,         \* the workers that exist
  shuttingDown,
  okToExecute, runMe,   \* of each PDBWorker
  wpc,            \* where each worker is in enter()
  gpc,            \* where each thread is in getWorker(), execute() and after it
  got,            \* the worker that getWorker() returned to it
  job,            \* the work it wants done
  asked, ended    \* history: jobs drawn, jobs done

queueVars == <<waiting, working, numOut, shuttingDown>>
workerVars == <<okToExecute, runMe, wpc>>
callVars == <<gpc, got, job>>
qVars == <<queueVars, workerVars, callVars, asked, ended>>

QueueInit ==
  /\ waiting = <<>> /\ working = {} /\ numOut = Cardinality(Workers) /\ shuttingDown = FALSE
  /\ okToExecute = [w \in Workers |-> FALSE]
  /\ runMe = [w \in Workers |-> nullptr]
  /\ wpc = [w \in Workers |-> "check"]
  /\ gpc = [t \in Threads |-> "out"]
  /\ got = [t \in Threads |-> nullptr]
  /\ job = [t \in Threads |-> nullptr]
  /\ asked = {} /\ ended = {}

Blocked == {t \in Threads : gpc[t] = "blocked"}

-----------------------------------------------------------------------------
(* getWorker() and execute() *)

\* A thread comes with a piece of work.
callGetWorker(t, j) ==
  /\ gpc[t] = "out"
  /\ gpc' = [gpc EXCEPT ![t] = "enter"]
  /\ job' = [job EXCEPT ![t] = j]
  /\ asked' = asked \cup {j}
  /\ UNCHANGED <<queueVars, workerVars, got, ended>>

\* while (waiting.size() == 0 && numOut != 0) pthread_cond_wait(...)
getWorkerWaits(t) ==
  /\ gpc[t] \in {"enter", "woken"}
  /\ waiting = <<>> /\ numOut # 0
  /\ gpc' = [gpc EXCEPT ![t] = "blocked"]
  /\ UNCHANGED <<queueVars, workerVars, got, job, asked, ended>>

\* Mutant: nullptr when no worker is free.
getWorkerNull_WhenBusy(t) ==
  /\ gpc[t] \in {"enter", "woken"}
  /\ waiting = <<>>
  /\ gpc' = [gpc EXCEPT ![t] = "null"]
  /\ UNCHANGED <<queueVars, workerVars, got, job, asked, ended>>

getWorkerNull(t) ==
  /\ gpc[t] \in {"enter", "woken"}
  /\ numOut = 0
  /\ gpc' = [gpc EXCEPT ![t] = "null"]
  /\ UNCHANGED <<queueVars, workerVars, got, job, asked, ended>>

\* Mutant: the worker is looked at but stays in the queue.
getWorkerTakes_NoPop(t) ==
  /\ gpc[t] \in {"enter", "woken"}
  /\ waiting # <<>> /\ numOut # 0
  /\ got' = [got EXCEPT ![t] = waiting[Len(waiting)]]
  /\ gpc' = [gpc EXCEPT ![t] = "assign"]
  /\ UNCHANGED <<queueVars, workerVars, job, asked, ended>>

getWorkerTakes(t) ==
  /\ gpc[t] \in {"enter", "woken"}
  /\ waiting # <<>> /\ numOut # 0
  /\ got' = [got EXCEPT ![t] = waiting[Len(waiting)]]
  /\ waiting' = SubSeq(waiting, 1, Len(waiting) - 1)
  /\ gpc' = [gpc EXCEPT ![t] = "assign"]
  /\ UNCHANGED <<working, numOut, shuttingDown, workerVars, job, asked, ended>>

\* A thread is told to go on without having got a signal.
spuriousWakeup(t) ==
  /\ gpc[t] = "blocked"
  /\ gpc' = [gpc EXCEPT ![t] = "woken"]
  /\ UNCHANGED <<queueVars, workerVars, got, job, asked, ended>>

\* working.insert(myWorker), under the other mutex.
rememberWorking(t) ==
  /\ gpc[t] = "assign"
  /\ working' = working \cup {got[t]}
  /\ gpc' = [gpc EXCEPT ![t] = "execute"]
  /\ UNCHANGED <<waiting, numOut, shuttingDown, workerVars, got, job, asked, ended>>

\* PDBWorker::execute; next is where the thread goes on.
executeThen(t, next) ==
  /\ gpc[t] = "execute"
  /\ runMe' = [runMe EXCEPT ![got[t]] = job[t]]
  /\ okToExecute' = [okToExecute EXCEPT ![got[t]] = TRUE]
  /\ got' = [got EXCEPT ![t] = nullptr]
  /\ job' = [job EXCEPT ![t] = IF next = "enter" THEN Nothing ELSE nullptr]
  /\ gpc' = [gpc EXCEPT ![t] = next]
  /\ UNCHANGED <<queueVars, wpc, asked, ended>>

-----------------------------------------------------------------------------
(* PDBWorkerQueue::enter() and PDBWorker::enter() *)

checkShuttingDown(w) ==
  /\ wpc[w] = "check"
  /\ wpc' = [wpc EXCEPT ![w] = IF shuttingDown THEN "leave" ELSE "push"]
  /\ UNCHANGED <<queueVars, okToExecute, runMe, callVars, asked, ended>>

\* Mutant: nobody is told about the new worker.
pushWaiting_NoSignal(w) ==
  /\ wpc[w] = "push"
  /\ waiting' = Append(waiting, w)
  /\ wpc' = [wpc EXCEPT ![w] = "idle"]
  /\ UNCHANGED <<working, numOut, shuttingDown, okToExecute, runMe, callVars, asked, ended>>

\* waiting.push_back(temp); pthread_cond_signal(&waitingSignal).
pushWaiting(w) ==
  /\ wpc[w] = "push"
  /\ waiting' = Append(waiting, w)
  /\ wpc' = [wpc EXCEPT ![w] = "idle"]
  /\ \/ Blocked = {} /\ UNCHANGED gpc
     \/ \E t \in Blocked : gpc' = [gpc EXCEPT ![t] = "woken"]
  /\ UNCHANGED <<working, numOut, shuttingDown, okToExecute, runMe, got, job, asked, ended>>

waitForWork(w) ==
  /\ wpc[w] = "idle" /\ okToExecute[w]
  /\ wpc' = [wpc EXCEPT ![w] = "run"]
  /\ UNCHANGED <<queueVars, okToExecute, runMe, callVars, asked, ended>>

\* runMe->execute comes back.
workReturns(w) ==
  /\ wpc[w] = "run"
  /\ wpc' = [wpc EXCEPT ![w] = "clear"]
  /\ UNCHANGED <<queueVars, okToExecute, runMe, callVars, asked, ended>>

\* Mutant: okToExecute stays set.
clearOkToExecute_Kept(w) ==
  /\ wpc[w] = "clear"
  /\ ended' = ended \cup ({runMe[w]} \cap Jobs)
  /\ wpc' = [wpc EXCEPT ![w] = "erase"]
  /\ UNCHANGED <<queueVars, okToExecute, runMe, callVars, asked>>

\* okToExecute = false, outside of workerMutex.
clearOkToExecute(w) ==
  /\ wpc[w] = "clear"
  /\ okToExecute' = [okToExecute EXCEPT ![w] = FALSE]
  /\ ended' = ended \cup ({runMe[w]} \cap Jobs)
  /\ wpc' = [wpc EXCEPT ![w] = "erase"]
  /\ UNCHANGED <<queueVars, runMe, callVars, asked>>

\* working.erase(temp); temp->reset().
eraseWorking(w) ==
  /\ wpc[w] = "erase"
  /\ working' = working \ {w}
  /\ runMe' = [runMe EXCEPT ![w] = nullptr]
  /\ wpc' = [wpc EXCEPT ![w] = "check"]
  /\ UNCHANGED <<waiting, numOut, shuttingDown, okToExecute, callVars, asked, ended>>

\* Mutant: the last worker signals one thread instead of all.
leave_SignalsOne(w) ==
  /\ wpc[w] = "leave"
  /\ numOut' = numOut - 1
  /\ wpc' = [wpc EXCEPT ![w] = "dead"]
  /\ \/ (numOut' # 0 \/ Blocked = {}) /\ UNCHANGED gpc
     \/ numOut' = 0 /\ \E t \in Blocked : gpc' = [gpc EXCEPT ![t] = "woken"]
  /\ UNCHANGED <<waiting, working, shuttingDown, okToExecute, runMe, got, job, asked, ended>>

\* numOut--; the last worker wakes every thread that waits for one.
leave(w) ==
  /\ wpc[w] = "leave"
  /\ numOut' = numOut - 1
  /\ wpc' = [wpc EXCEPT ![w] = "dead"]
  /\ gpc' = IF numOut' = 0
              THEN [t \in Threads |-> IF t \in Blocked THEN "woken" ELSE gpc[t]]
              ELSE gpc
  /\ UNCHANGED <<waiting, working, shuttingDown, okToExecute, runMe, got, job, asked, ended>>

-----------------------------------------------------------------------------
(* ~PDBWorkerQueue() *)

shutDown ==
  /\ MayShutDown /\ gpc[Main] = "out" /\ ~shuttingDown
  /\ shuttingDown' = TRUE
  /\ gpc' = [gpc EXCEPT ![Main] = "enter"]
  /\ job' = [job EXCEPT ![Main] = Nothing]
  /\ UNCHANGED <<waiting, working, numOut, workerVars, got, asked, ended>>

\* pthread_join with every worker.
join ==
  /\ gpc[Main] = "null" /\ \A w \in Workers : wpc[w] = "dead"
  /\ gpc' = [gpc EXCEPT ![Main] = "joined"]
  /\ UNCHANGED <<queueVars, workerVars, got, job, asked, ended>>

-----------------------------------------------------------------------------
(* The queue by itself: callers hand over work that returns *)

Submit(t) == \E j \in Jobs \ asked : callGetWorker(t, j)

\* A caller that gets nullptr drops its work.
dropWork(t) ==
  /\ gpc[t] = "null"
  /\ gpc' = [gpc EXCEPT ![t] = "out"]
  /\ job' = [job EXCEPT ![t] = nullptr]
  /\ UNCHANGED <<queueVars, workerVars, got, asked, ended>>

GetWorker(t) == getWorkerWaits(t) \/ getWorkerNull(t) \/ getWorkerTakes(t) \/ rememberWorking(t)

Enter(w) ==
  \/ checkShuttingDown(w) \/ pushWaiting(w) \/ waitForWork(w)
  \/ clearOkToExecute(w) \/ eraseWorking(w) \/ leave(w)

Caller(t) == GetWorker(t) \/ executeThen(t, "out") \/ dropWork(t)

Destructor == GetWorker(Main) \/ executeThen(Main, "enter") \/ join

\* Nobody wants a worker, and no worker has anything to do.
AtRest ==
  /\ \A t \in Callers : gpc[t] = "out"
  /\ gpc[Main] \in {"out", "joined"}
  /\ \A w \in Workers : wpc[w] = "dead" \/ (wpc[w] = "idle" /\ ~okToExecute[w])

Next ==
  \/ \E t \in Callers : Submit(t) \/ Caller(t)
  \/ \E t \in Threads : spuriousWakeup(t)
  \/ \E w \in Workers : Enter(w) \/ workReturns(w)
  \/ shutDown \/ Destructor
  \/ AtRest /\ UNCHANGED qVars

Spec == QueueInit /\ [][Next]_qVars

\* Every thread is scheduled, work comes back, and wake-ups without a cause do
\* not go on for ever.  Nobody has to submit work or to destroy the queue.
Fairness ==
  /\ \A t \in Callers : WF_qVars(Caller(t))
  /\ \A w \in Workers : WF_qVars(Enter(w) \/ workReturns(w))
  /\ WF_qVars(Destructor)
  /\ <>[][\A t \in Threads : ~spuriousWakeup(t)]_qVars

FairSpec == Spec /\ Fairness

-----------------------------------------------------------------------------
(* Properties *)

\* Every variable has its type; the pool never counts more workers than it made.
TypeOK ==
  /\ waiting \in Seq(Workers) /\ working \subseteq Workers
  /\ numOut \in 0 .. Cardinality(Workers) /\ shuttingDown \in BOOLEAN
  /\ okToExecute \in [Workers -> BOOLEAN]
  /\ runMe \in [Workers -> Jobs \cup {Nothing, nullptr}]
  /\ wpc \in [Workers -> {"check", "push", "idle", "run", "clear", "erase", "leave", "dead"}]
  /\ gpc \in [Threads -> {"out", "enter", "blocked", "woken", "assign", "execute", "buzz", "null", "joined"}]
  /\ got \in [Threads -> Workers \cup {nullptr}]
  /\ job \in [Threads -> Jobs \cup {Nothing, nullptr}]
  /\ asked \subseteq Jobs /\ ended \subseteq Jobs

\* "Why did I find != 1 copies of the worker?": a worker that has done its work
\* is in the set of working workers.
ErasesItself == \A w \in Workers : wpc[w] = "erase" => w \in working

InWaiting(w) == {i \in 1 .. Len(waiting) : waiting[i] = w}
HeldBy(w) == {t \in Threads : got[t] = w}

\* An idle worker is in the queue once, or one thread has it, or it was told to
\* execute: no worker is handed out twice and none is forgotten (PDBWorkerQueue.h:
\* "the thread inside of it becomes a zombie").
IdleWorkerInOnePlace ==
  \A w \in Workers :
    Cardinality(InWaiting(w)) + Cardinality(HeldBy(w)) + (IF okToExecute[w] THEN 1 ELSE 0)
      = IF wpc[w] \in {"idle", "run", "clear"} THEN 1 ELSE 0

\* PDBWorkerQueue.h, of getWorker(): nullptr only "if there are no workers at all
\* in this PDBWorkerQueue object (not even any busy ones)".
NullMeansNoWorkers ==
  (\E t \in Threads : gpc[t] = "null") => \A w \in Workers : wpc[w] = "dead"

\* What the queue implements: a pool in which a job is done once, by one worker.
Pool == INSTANCE WorkerPool WITH
  Idle <- nullptr, Gone <- "gone",
  does <- [w \in Workers |-> IF wpc[w] = "dead" THEN "gone"
                             ELSE IF okToExecute[w] THEN runMe[w] ELSE nullptr],
  finished <- ended

\* Every step of the queue is a step of WorkerPool or leaves it alone, and work that
\* was handed over is done, also while the queue is being destroyed.
ImplementsPool == Pool!LiveSpec

\* The destructor of the queue comes to its end.
ShutdownCompletes == shuttingDown ~> gpc[Main] = "joined"

=============================================================================
