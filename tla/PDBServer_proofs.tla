--------------------------- MODULE PDBServer_proofs ---------------------------
(***************************************************************************)
(* Proofs about the worker queue, for any number of workers, of threads    *)
(* that ask for them and of jobs, with and without its destruction, and    *)
(* about the server on top of it, whose workers ask for workers.           *)
(***************************************************************************)
EXTENDS PDBServer, FiniteSetTheorems, SequenceTheorems, TLAPS

WStates == {"check", "push", "idle", "run", "clear", "erase", "leave", "dead"}
GStates == {"out", "enter", "blocked", "woken", "assign", "execute", "buzz", "null", "joined"}

Types ==
  /\ waiting \in Seq(Workers)
  /\ okToExecute \in [Workers -> BOOLEAN]
  /\ runMe \in [Workers -> Jobs \cup {Nothing, nullptr}]
  /\ wpc \in [Workers -> WStates]
  /\ gpc \in [Threads -> GStates]
  /\ got \in [Threads -> Workers \cup {nullptr}]
  /\ job \in [Threads -> Jobs \cup {Nothing, nullptr}]

Free(w) == wpc[w] = "idle" /\ ~okToExecute[w]
Queued(w) == \E i \in 1 .. Len(waiting) : waiting[i] = w
Held(w) == \E t \in Threads : got[t] = w

\* A worker that is queued or held is free, is so once, and not both; a worker that is
\* neither has work or is on its way.
Places ==
  /\ \A t \in Threads : got[t] # nullptr <=> gpc[t] \in {"assign", "execute"}
  /\ \A i, k \in 1 .. Len(waiting) : waiting[i] = waiting[k] => i = k
  /\ \A t, u \in Threads : got[t] # nullptr /\ got[t] = got[u] => t = u
  /\ \A w \in Workers : Queued(w) => Free(w) /\ ~Held(w)
  /\ \A w \in Workers : Held(w) => Free(w)
  /\ \A w \in Workers : Free(w) => Queued(w) \/ Held(w)
  /\ \A w \in Workers : okToExecute[w] => wpc[w] \in {"idle", "run", "clear"}
  /\ \A w \in Workers : wpc[w] \in {"run", "clear"} => okToExecute[w]

Alive == {w \in Workers : wpc[w] # "dead"}

\* numOut counts the workers that have not ended; a thread sees that there are none.
Counted ==
  /\ numOut = Cardinality(Alive)
  /\ (\E t \in Threads : gpc[t] = "null") => numOut = 0

\* A job is with one thread or with one worker until it is done.
JobsOnce ==
  /\ \A t \in Threads :
       gpc[t] \in {"enter", "blocked", "woken", "assign", "execute"} => job[t] # nullptr
  /\ \A t \in Threads : job[t] \in Jobs => job[t] \in asked \ ended
  /\ \A t, u \in Threads : job[t] \in Jobs /\ job[t] = job[u] => t = u
  /\ \A w \in Workers : okToExecute[w] => runMe[w] # nullptr
  /\ \A w \in Workers : okToExecute[w] /\ runMe[w] \in Jobs =>
       runMe[w] \in asked \ ended /\ \A t \in Threads : job[t] # runMe[w]
  /\ \A v, w \in Workers :
       okToExecute[v] /\ okToExecute[w] /\ runMe[v] \in Jobs /\ runMe[v] = runMe[w] => v = w
  /\ ended \subseteq asked

Inv == Types /\ Places /\ Counted /\ JobsOnce

-----------------------------------------------------------------------------

\* The queue starts in the invariant: every worker is on its way to the stack.
LEMMA Initial == QueueInit => Inv
<1> SUFFICES ASSUME QueueInit PROVE Inv OBVIOUS
<1> USE DEF QueueInit
<1>1. Types BY DEF Types, WStates, GStates
<1>2. Places
  <2>1. \A w \in Workers : ~Queued(w) /\ ~Free(w) BY DEF Queued, Free
  <2>2. \A w \in Workers : ~Held(w) BY QueueAssumption DEF Held
  <2> QED BY <2>1, <2>2 DEF Places
<1>3. Counted
  <2>1. Alive = Workers BY DEF Alive
  <2> QED BY <2>1 DEF Counted
<1>4. JobsOnce BY QueueAssumption DEF JobsOnce
<1> QED BY <1>1, <1>2, <1>3, <1>4 DEF Inv

-----------------------------------------------------------------------------
(* One lemma for each group of steps *)

\* A thread moves between the states of getWorker() without a worker.
LEMMA ThreadMoves ==
  ASSUME Inv, NEW t \in Threads,
         getWorkerWaits(t) \/ getWorkerNull(t) \/ spuriousWakeup(t)
  PROVE  Inv'
<1> USE DEF Inv, getWorkerWaits, getWorkerNull, spuriousWakeup, queueVars, workerVars
<1>1. \E s \in {"blocked", "null", "woken"} : gpc' = [gpc EXCEPT ![t] = s]
      /\ gpc[t] \in {"enter", "woken", "blocked"} /\ (s = "null" => numOut = 0)
  OBVIOUS
<1>2. UNCHANGED <<waiting, working, numOut, okToExecute, runMe, wpc, got, job, asked, ended>>
  OBVIOUS
<1>3. Types' BY <1>1, <1>2 DEF Types, GStates
<1>4. Places'
  <2>1. \A w : Queued(w)' = Queued(w) /\ Held(w)' = Held(w) /\ Free(w)' = Free(w)
    BY <1>2 DEF Queued, Held, Free
  <2> QED BY <1>1, <1>2, <2>1 DEF Places, Types
<1>5. Counted'
  <2>1. Alive' = Alive BY <1>2 DEF Alive
  <2> QED BY <1>1, <1>2, <2>1 DEF Counted, Types
<1>6. JobsOnce' BY <1>1, <1>2 DEF JobsOnce, Types
<1> QED BY <1>3, <1>4, <1>5, <1>6

\* A thread comes with a job, goes away without one or, as the destructor, begins and ends.
LEMMA JobMoves ==
  ASSUME Inv, NEW t \in Threads,
         (\E j \in Jobs \ asked : callGetWorker(t, j)) \/ dropWork(t) \/ shutDown \/ join
  PROVE  Inv'
<1> USE DEF Inv, callGetWorker, dropWork, shutDown, join, queueVars, workerVars
<1>1. Main \in Threads BY DEF Threads
<1>2. PICK u \in Threads : \E s \in {"enter", "out", "joined"} :
        /\ gpc[u] \in {"out", "null"} /\ gpc' = [gpc EXCEPT ![u] = s]
        /\ \/ s = "enter" /\ \E j \in Jobs \ asked :
                job' = [job EXCEPT ![u] = j] /\ asked' = asked \cup {j}
           \/ s = "enter" /\ job' = [job EXCEPT ![u] = Nothing] /\ UNCHANGED asked
           \/ s = "out" /\ job' = [job EXCEPT ![u] = nullptr] /\ UNCHANGED asked
           \/ s = "joined" /\ UNCHANGED <<job, asked>>
  BY <1>1
<1>3. UNCHANGED <<waiting, working, numOut, okToExecute, runMe, wpc, got, ended>>
  OBVIOUS
<1>4. Types' BY <1>2, <1>3 DEF Types, GStates
<1>5. Places'
  <2>1. \A w : Queued(w)' = Queued(w) /\ Held(w)' = Held(w) /\ Free(w)' = Free(w)
    BY <1>3 DEF Queued, Held, Free
  <2> QED BY <1>2, <1>3, <2>1 DEF Places, Types
<1>6. Counted'
  <2>1. Alive' = Alive BY <1>3 DEF Alive
  <2> QED BY <1>2, <1>3, <2>1 DEF Counted, Types
<1>7. JobsOnce'
  <2>1. CASE \E j \in Jobs \ asked : job' = [job EXCEPT ![u] = j] /\ asked' = asked \cup {j}
    BY <1>2, <1>3, <2>1, QueueAssumption DEF JobsOnce, Types
  <2>2. CASE job' = [job EXCEPT ![u] = Nothing] /\ UNCHANGED asked
    BY <1>2, <1>3, <2>2, QueueAssumption DEF JobsOnce, Types
  <2>3. CASE job' = [job EXCEPT ![u] = nullptr] /\ gpc' = [gpc EXCEPT ![u] = "out"]
             /\ UNCHANGED asked
    BY <1>3, <2>3, QueueAssumption DEF JobsOnce, Types
  <2>4. CASE UNCHANGED <<job, asked>> /\ gpc' = [gpc EXCEPT ![u] = "joined"]
    BY <1>3, <2>4 DEF JobsOnce, Types
  <2> QED BY <1>2, <2>1, <2>2, <2>3, <2>4
<1> QED BY <1>4, <1>5, <1>6, <1>7

\* What pop_back leaves of the stack.
LEMMA Pop ==
  ASSUME NEW S, NEW s \in Seq(S), s # <<>>
  PROVE  /\ Len(s) \in Nat /\ Len(s) > 0 /\ s[Len(s)] \in S
         /\ SubSeq(s, 1, Len(s) - 1) \in Seq(S)
         /\ Len(SubSeq(s, 1, Len(s) - 1)) = Len(s) - 1
         /\ \A i \in 1 .. Len(s) - 1 : SubSeq(s, 1, Len(s) - 1)[i] = s[i]
<1>1. Len(s) \in Nat /\ Len(s) > 0 BY EmptySeq, LenProperties
<1>2. s[Len(s)] \in S BY <1>1
<1> DEFINE m == Len(s) - 1
<1>3. m \in Int /\ 1 \in Int /\ \A i \in 1 .. m : s[i] \in S BY <1>1
<1>4. /\ SubSeq(s, 1, m) \in Seq(S)
      /\ Len(SubSeq(s, 1, m)) = IF 1 <= m THEN m - 1 + 1 ELSE 0
      /\ \A i \in 1 .. m - 1 + 1 : SubSeq(s, 1, m)[i] = s[1 + i - 1]
  <2> HIDE DEF m
  <2> QED BY <1>3, SubSeqProperties
<1>5. m - 1 + 1 = m /\ \A i \in 1 .. m : 1 + i - 1 = i BY <1>1
<1>6. Len(SubSeq(s, 1, m)) = m
  <2>1. m \in Nat BY <1>1
  <2> HIDE DEF m
  <2> QED BY <1>4, <2>1
<1>7. \A i \in 1 .. m : SubSeq(s, 1, m)[i] = s[i]
  <2> HIDE DEF m
  <2> QED BY <1>4, <1>5
<1> QED BY <1>1, <1>2, <1>4, <1>6, <1>7

\* getWorker() takes the worker on top of the stack.
LEMMA Takes ==
  ASSUME Inv, NEW t \in Threads, getWorkerTakes(t)
  PROVE  Inv'
<1> USE DEF Inv, getWorkerTakes, workerVars
<1> DEFINE n == Len(waiting)
           x == waiting[n]
<1>1. /\ n \in Nat /\ n > 0 /\ x \in Workers
      /\ waiting' \in Seq(Workers) /\ Len(waiting') = n - 1
      /\ \A i \in 1 .. n - 1 : waiting'[i] = waiting[i]
  BY Pop DEF Types
<1>2. /\ got[t] = nullptr /\ got' = [got EXCEPT ![t] = x]
      /\ gpc[t] \in {"enter", "woken"} /\ gpc' = [gpc EXCEPT ![t] = "assign"]
  BY DEF Places
<1>3. UNCHANGED <<numOut, okToExecute, runMe, wpc, job, asked, ended>> OBVIOUS
<1>4. Types' BY <1>1, <1>2, <1>3 DEF Types, GStates
<1>5. Places'
  <2>1. x # nullptr BY <1>1, QueueAssumption
  <2>2. \A w \in Workers : Queued(w)' <=> Queued(w) /\ w # x
    BY <1>1 DEF Queued, Places
  <2>3. \A w \in Workers : Held(w)' <=> Held(w) \/ w = x
    <3>1. \A w \in Workers : w # nullptr BY QueueAssumption
    <3> QED BY <1>2, <3>1 DEF Held, Types
  <2>4. \A w : Free(w)' = Free(w) BY <1>3 DEF Free
  <2>5. Queued(x) BY <1>1 DEF Queued
  <2>6. \A i, k \in 1 .. Len(waiting') : waiting'[i] = waiting'[k] => i = k
    BY <1>1 DEF Places
  <2>7. \A u, v \in Threads : got'[u] # nullptr /\ got'[u] = got'[v] => u = v
    <3>1. \A u \in Threads : got[u] # x BY <1>1, <2>5 DEF Places, Held
    <3> QED BY <1>2, <3>1 DEF Places, Types
  <2>8. \A u \in Threads : got'[u] # nullptr <=> gpc'[u] \in {"assign", "execute"}
    BY <1>2, <2>1 DEF Places, Types
  <2> HIDE DEF x
  <2> QED BY <1>1, <1>3, <2>2, <2>3, <2>4, <2>5, <2>6, <2>7, <2>8 DEF Places
<1>6. Counted'
  <2>1. Alive' = Alive BY <1>3 DEF Alive
  <2> QED BY <1>2, <1>3, <2>1 DEF Counted, Types
<1>7. JobsOnce' BY <1>2, <1>3 DEF JobsOnce, Types
<1> QED BY <1>4, <1>5, <1>6, <1>7

\* Putting a worker into the set of working workers changes nothing else.
LEMMA Remembers ==
  ASSUME Inv, NEW t \in Threads, rememberWorking(t)
  PROVE  Inv'
<1> USE DEF Inv, rememberWorking, workerVars
<1>1. Types' BY DEF Types, GStates
<1>2. Places'
  <2>1. \A w : Queued(w)' = Queued(w) /\ Held(w)' = Held(w) /\ Free(w)' = Free(w)
    BY DEF Queued, Held, Free
  <2> QED BY <2>1 DEF Places, Types
<1>3. Counted'
  <2>1. Alive' = Alive BY DEF Alive
  <2> QED BY <2>1 DEF Counted, Types
<1>4. JobsOnce' BY DEF JobsOnce, Types
<1> QED BY <1>1, <1>2, <1>3, <1>4

\* execute() gives the worker that the thread holds its job.
LEMMA Executes ==
  ASSUME Inv, NEW t \in Threads, NEW s \in {"out", "enter", "buzz"}, executeThen(t, s)
  PROVE  Inv'
<1> USE DEF Inv, executeThen, queueVars
<1> DEFINE x == got[t]
<1>1. /\ x \in Workers /\ x # nullptr /\ Free(x) /\ Held(x)
      /\ job[t] \in Jobs \cup {Nothing} /\ job[t] # nullptr
  BY DEF Types, Places, JobsOnce, Held
<1>2. /\ runMe' = [runMe EXCEPT ![x] = job[t]]
      /\ okToExecute' = [okToExecute EXCEPT ![x] = TRUE]
      /\ got' = [got EXCEPT ![t] = nullptr]
      /\ gpc' = [gpc EXCEPT ![t] = s]
      /\ \E k \in {Nothing, nullptr} : job' = [job EXCEPT ![t] = k] /\ (s = "enter" => k = Nothing)
  OBVIOUS
<1>3. UNCHANGED <<waiting, numOut, wpc, asked, ended>> OBVIOUS
<1>4. Types' BY <1>1, <1>2, <1>3 DEF Types, GStates
<1>5. Places'
  <2>1. \A w \in Workers : Queued(w)' = Queued(w) BY <1>3 DEF Queued
  <2>2. \A w \in Workers : Held(w)' <=> Held(w) /\ w # x
    <3>1. \A w \in Workers : w # nullptr BY QueueAssumption
    <3>2. \A u \in Threads : u # t => got[u] # x BY <1>1 DEF Places
    <3> QED BY <1>2, <3>1, <3>2 DEF Held, Types
  <2>3. \A w \in Workers : Free(w)' <=> Free(w) /\ w # x BY <1>1, <1>2, <1>3 DEF Free, Types
  <2>4. \A w \in Workers : Held(w) => ~Queued(w) BY DEF Places
  <2>5. \A u, v \in Threads : got'[u] # nullptr /\ got'[u] = got'[v] => u = v
    BY <1>2 DEF Places, Types
  <2>6. \A u \in Threads : got'[u] # nullptr <=> gpc'[u] \in {"assign", "execute"}
    BY <1>2 DEF Places, Types
  <2>7. \A w \in Workers : okToExecute'[w] => wpc'[w] \in {"idle", "run", "clear"}
    BY <1>1, <1>2, <1>3 DEF Places, Types, Free
  <2>8. \A w \in Workers : wpc'[w] \in {"run", "clear"} => okToExecute'[w]
    BY <1>1, <1>2, <1>3 DEF Places, Types
  <2>9. \A i, k \in 1 .. Len(waiting') : waiting'[i] = waiting'[k] => i = k
    BY <1>3 DEF Places
  <2> HIDE DEF x
  <2> QED BY <1>1, <2>1, <2>2, <2>3, <2>4, <2>5, <2>6, <2>7, <2>8, <2>9 DEF Places
<1>6. Counted'
  <2>1. Alive' = Alive BY <1>3 DEF Alive
  <2> QED BY <1>2, <1>3, <2>1 DEF Counted, Types
<1>7. JobsOnce'
  <2>1. \A u \in Threads : job'[u] \in Jobs => u # t /\ job'[u] = job[u] /\ job'[u] # job[t]
    BY <1>2, QueueAssumption DEF JobsOnce, Types
  <2>2. \A u \in Threads :
          gpc'[u] \in {"enter", "blocked", "woken", "assign", "execute"} => job'[u] # nullptr
    BY <1>2, QueueAssumption DEF JobsOnce, Types
  <2>3. \A w \in Workers : okToExecute'[w] =>
          \/ w = x /\ runMe'[w] = job[t]
          \/ w # x /\ okToExecute[w] /\ runMe'[w] = runMe[w]
    BY <1>1, <1>2 DEF Types
  <2>4. \A w \in Workers : okToExecute'[w] => runMe'[w] # nullptr
    BY <1>1, <2>3 DEF JobsOnce
  <2>5. \A w \in Workers : okToExecute'[w] /\ runMe'[w] \in Jobs =>
          runMe'[w] \in asked' \ ended' /\ \A u \in Threads : job'[u] # runMe'[w]
    BY <1>3, <2>1, <2>3 DEF JobsOnce
  <2>6. \A v, w \in Workers :
          okToExecute'[v] /\ okToExecute'[w] /\ runMe'[v] \in Jobs /\ runMe'[v] = runMe'[w]
            => v = w
    BY <1>1, <2>3 DEF JobsOnce
  <2> QED BY <1>3, <2>1, <2>2, <2>4, <2>5, <2>6 DEF JobsOnce
<1> QED BY <1>4, <1>5, <1>6, <1>7

\* A worker puts itself on the stack and signals one of the threads that wait.
LEMMA Pushes ==
  ASSUME Inv, NEW x \in Workers, pushWaiting(x)
  PROVE  Inv'
<1> USE DEF Inv, pushWaiting
<1> DEFINE n == Len(waiting)
<1>1. /\ n \in Nat /\ waiting' \in Seq(Workers) /\ Len(waiting') = n + 1
      /\ \A i \in 1 .. n : waiting'[i] = waiting[i]
      /\ waiting'[n + 1] = x
  BY AppendProperties DEF Types
<1>2. /\ wpc[x] = "push" /\ wpc' = [wpc EXCEPT ![x] = "idle"]
      /\ UNCHANGED <<numOut, okToExecute, runMe, got, job, asked, ended>>
  OBVIOUS
<1>3. gpc' \in [Threads -> GStates]
      /\ \A t \in Threads : gpc'[t] = gpc[t] \/ (gpc[t] = "blocked" /\ gpc'[t] = "woken")
  BY DEF Blocked, Types, GStates
<1>4. Types' BY <1>1, <1>2, <1>3 DEF Types, WStates
<1>5. ~okToExecute[x] /\ ~Queued(x) /\ ~Held(x) /\ ~Free(x) BY <1>2 DEF Places, Free
<1>6. Places'
  <2>1. \A w \in Workers : Queued(w)' <=> Queued(w) \/ w = x BY <1>1 DEF Queued
  <2>2. \A w \in Workers : Held(w)' = Held(w) BY <1>2 DEF Held
  <2>3. \A w \in Workers : Free(w)' <=> Free(w) \/ w = x BY <1>2, <1>5 DEF Free, Types
  <2>4. \A i, k \in 1 .. Len(waiting') : waiting'[i] = waiting'[k] => i = k
    BY <1>1, <1>5 DEF Places, Queued
  <2>5. \A t \in Threads : got'[t] # nullptr <=> gpc'[t] \in {"assign", "execute"}
    BY <1>2, <1>3 DEF Places
  <2>6. \A t, u \in Threads : got'[t] # nullptr /\ got'[t] = got'[u] => t = u
    BY <1>2 DEF Places
  <2>7. \A w \in Workers : okToExecute'[w] => wpc'[w] \in {"idle", "run", "clear"}
    BY <1>2 DEF Places, Types
  <2>8. \A w \in Workers : wpc'[w] \in {"run", "clear"} => okToExecute'[w]
    BY <1>2 DEF Places, Types
  <2> QED BY <1>5, <2>1, <2>2, <2>3, <2>4, <2>5, <2>6, <2>7, <2>8 DEF Places
<1>7. Counted'
  <2>1. Alive' = Alive BY <1>2 DEF Alive, Types
  <2> QED BY <1>2, <1>3, <2>1 DEF Counted
<1>8. JobsOnce' BY <1>2, <1>3 DEF JobsOnce
<1> QED BY <1>4, <1>6, <1>7, <1>8

\* The steps of a worker that is neither on the stack nor with a thread.
LEMMA WorkerMoves ==
  ASSUME Inv, NEW x \in Workers,
         \/ checkShuttingDown(x) \/ waitForWork(x) \/ workReturns(x)
         \/ clearOkToExecute(x) \/ eraseWorking(x)
  PROVE  Inv'
<1> USE DEF Inv, checkShuttingDown, waitForWork, workReturns, clearOkToExecute, eraseWorking,
            queueVars, callVars
<1>1. UNCHANGED <<waiting, numOut, gpc, got, job, asked>> OBVIOUS
<1>2. PICK s \in WStates :
        /\ wpc' = [wpc EXCEPT ![x] = s] /\ s # "dead" /\ wpc[x] # "dead"
        /\ \/ s \in {"leave", "push"} /\ wpc[x] = "check" /\ UNCHANGED <<okToExecute, runMe, ended>>
           \/ s = "run" /\ wpc[x] = "idle" /\ okToExecute[x] /\ UNCHANGED <<okToExecute, runMe, ended>>
           \/ s = "clear" /\ wpc[x] = "run" /\ UNCHANGED <<okToExecute, runMe, ended>>
           \/ /\ s = "erase" /\ wpc[x] = "clear" /\ UNCHANGED runMe
              /\ okToExecute' = [okToExecute EXCEPT ![x] = FALSE]
              /\ ended' = ended \cup ({runMe[x]} \cap Jobs)
           \/ s = "check" /\ wpc[x] = "erase" /\ UNCHANGED <<okToExecute, ended>>
              /\ runMe' = [runMe EXCEPT ![x] = nullptr]
  BY DEF WStates
<1>3. Types' BY <1>1, <1>2 DEF Types
<1>4. ~Free(x) /\ ~Queued(x) /\ ~Held(x) BY <1>2 DEF Places, Free
<1>5. Places'
  <2>1. \A w \in Workers : Queued(w)' = Queued(w) /\ Held(w)' = Held(w) BY <1>1 DEF Queued, Held
  <2>2. \A w \in Workers : Free(w)' = Free(w) BY <1>2, <1>4 DEF Free, Types
  <2>3. \A w \in Workers : okToExecute'[w] => wpc'[w] \in {"idle", "run", "clear"}
    BY <1>2 DEF Places, Types
  <2>4. \A w \in Workers : wpc'[w] \in {"run", "clear"} => okToExecute'[w]
    BY <1>2 DEF Places, Types
  <2> QED BY <1>1, <1>4, <2>1, <2>2, <2>3, <2>4 DEF Places
<1>6. Counted'
  <2>1. Alive' = Alive BY <1>2 DEF Alive, Types
  <2> QED BY <1>1, <2>1 DEF Counted
<1>7. JobsOnce'
  <2>1. CASE UNCHANGED <<okToExecute, runMe, ended>> BY <1>1, <2>1 DEF JobsOnce
  <2>2. CASE wpc[x] = "clear" /\ UNCHANGED runMe
             /\ okToExecute' = [okToExecute EXCEPT ![x] = FALSE]
             /\ ended' = ended \cup ({runMe[x]} \cap Jobs)
    <3>1. okToExecute[x] BY <2>2 DEF Places
    <3>2. \A w \in Workers : okToExecute'[w] => okToExecute[w] /\ w # x BY <2>2 DEF Types
    <3>3. \A w \in Workers : okToExecute'[w] /\ runMe[w] \in Jobs => runMe[w] \notin ended'
      BY <2>2, <3>1, <3>2 DEF JobsOnce
    <3>4. \A t \in Threads : job[t] \in Jobs => job[t] \notin ended'
      BY <2>2, <3>1 DEF JobsOnce
    <3>5. ended' \subseteq asked BY <2>2, <3>1 DEF JobsOnce
    <3> QED BY <1>1, <2>2, <3>2, <3>3, <3>4, <3>5 DEF JobsOnce
  <2>3. CASE wpc[x] = "erase" /\ UNCHANGED <<okToExecute, ended>>
             /\ runMe' = [runMe EXCEPT ![x] = nullptr]
    <3>1. ~okToExecute[x] BY <2>3 DEF Places
    <3>2. \A w \in Workers : okToExecute[w] => runMe'[w] = runMe[w] BY <2>3, <3>1 DEF Types
    <3> QED BY <1>1, <2>3, <3>2 DEF JobsOnce
  <2> QED BY <1>2, <2>1, <2>2, <2>3
<1> QED BY <1>3, <1>5, <1>6, <1>7

\* A worker that ends is one less.
LEMMA OneLess ==
  ASSUME NEW x \in Workers, wpc[x] # "dead"
  PROVE  /\ IsFiniteSet(Alive) /\ Cardinality(Alive) \in Nat \ {0}
         /\ Cardinality(Alive \ {x}) = Cardinality(Alive) - 1
<1>1. Alive \subseteq Workers /\ x \in Alive BY DEF Alive
<1>2. IsFiniteSet(Alive) BY <1>1, QueueAssumption, FS_Subset
<1>3. Cardinality(Alive \ {x}) = Cardinality(Alive) - 1 BY <1>1, <1>2, FS_RemoveElement
<1>4. Cardinality(Alive) \in Nat /\ Cardinality(Alive) # 0
  BY <1>1, <1>2, FS_CardinalityType, FS_EmptySet
<1> QED BY <1>2, <1>3, <1>4

\* A worker ends; the last one wakes all threads.
LEMMA Leaves ==
  ASSUME Inv, NEW x \in Workers, leave(x)
  PROVE  Inv'
<1> USE DEF Inv, leave
<1>1. /\ wpc[x] = "leave" /\ wpc' = [wpc EXCEPT ![x] = "dead"] /\ numOut' = numOut - 1
      /\ UNCHANGED <<waiting, okToExecute, runMe, got, job, asked, ended>>
  OBVIOUS
<1>2. gpc' \in [Threads -> GStates]
      /\ \A t \in Threads : gpc'[t] = gpc[t] \/ (gpc[t] = "blocked" /\ gpc'[t] = "woken")
  BY DEF Blocked, Types, GStates
<1>3. Types' BY <1>1, <1>2 DEF Types, WStates
<1>4. Places'
  <2>1. ~Free(x) /\ ~Queued(x) /\ ~Held(x) /\ ~okToExecute[x] BY <1>1 DEF Places, Free
  <2>2. \A w \in Workers : Queued(w)' = Queued(w) /\ Held(w)' = Held(w) BY <1>1 DEF Queued, Held
  <2>3. \A w \in Workers : Free(w)' = Free(w) BY <1>1, <2>1 DEF Free, Types
  <2>4. \A w \in Workers : okToExecute'[w] => wpc'[w] \in {"idle", "run", "clear"}
    BY <1>1, <2>1 DEF Places, Types
  <2>5. \A w \in Workers : wpc'[w] \in {"run", "clear"} => okToExecute'[w]
    BY <1>1 DEF Places, Types
  <2>6. \A t \in Threads : got'[t] # nullptr <=> gpc'[t] \in {"assign", "execute"}
    BY <1>1, <1>2 DEF Places
  <2> QED BY <1>1, <2>1, <2>2, <2>3, <2>4, <2>5, <2>6 DEF Places
<1>5. Counted'
  <2>1. Alive' = Alive \ {x} BY <1>1 DEF Alive, Types
  <2>2. Cardinality(Alive) \in Nat \ {0} /\ Cardinality(Alive \ {x}) = Cardinality(Alive) - 1
    BY <1>1, OneLess
  <2>3. \A t \in Threads : gpc'[t] # "null" BY <1>2, <2>2 DEF Counted
  <2> QED BY <1>1, <2>1, <2>2, <2>3 DEF Counted
<1>6. JobsOnce' BY <1>1, <1>2 DEF JobsOnce
<1> QED BY <1>3, <1>4, <1>5, <1>6

\* Every step of getWorker(), execute(), enter() and the destructor keeps the invariant.
LEMMA InvKept ==
  ASSUME Inv, [Next]_qVars
  PROVE  Inv'
<1>1. Main \in Threads /\ Callers \subseteq Threads BY DEF Threads
<1>2. ASSUME NEW t \in Threads, GetWorker(t) PROVE Inv'
  BY <1>2, ThreadMoves, Takes, Remembers DEF GetWorker
<1>3. ASSUME NEW t \in Callers, Submit(t) \/ Caller(t) PROVE Inv'
  BY <1>1, <1>2, <1>3, JobMoves, Executes DEF Submit, Caller
<1>4. ASSUME NEW t \in Threads, spuriousWakeup(t) PROVE Inv' BY <1>4, ThreadMoves
<1>5. ASSUME NEW w \in Workers, Enter(w) \/ workReturns(w) PROVE Inv'
  BY <1>5, WorkerMoves, Pushes, Leaves DEF Enter
<1>6. CASE shutDown \/ Destructor
  BY <1>1, <1>2, <1>6, JobMoves, Executes DEF Destructor
<1>7. CASE UNCHANGED qVars
  <2> USE <1>7 DEF qVars, queueVars, workerVars, callVars
  <2>1. Types' BY DEF Inv, Types
  <2>2. \A w : Queued(w)' = Queued(w) /\ Held(w)' = Held(w) /\ Free(w)' = Free(w)
    BY DEF Queued, Held, Free
  <2>3. Places' BY <2>2 DEF Inv, Places
  <2>4. Alive' = Alive BY DEF Alive
  <2>5. Counted' BY <2>4 DEF Inv, Counted
  <2>6. JobsOnce' BY DEF Inv, JobsOnce
  <2> QED BY <2>1, <2>3, <2>5, <2>6 DEF Inv
<1> QED BY <1>3, <1>4, <1>5, <1>6, <1>7 DEF Next

\* Types, Places, Counted and JobsOnce hold in every behaviour of the queue.
THEOREM Invariance == Spec => []Inv
  BY Initial, InvKept, PTL DEF Spec

-----------------------------------------------------------------------------
(* What follows from the invariant *)

\* getWorker() answers nullptr only when every worker thread has ended.
THEOREM NullMeansNoWorkersCorrect == Spec => []NullMeansNoWorkers
<1>1. Inv => NullMeansNoWorkers
  <2> SUFFICES ASSUME Inv, NEW t \in Threads, gpc[t] = "null", NEW w \in Workers, wpc[w] # "dead"
               PROVE  FALSE
    BY DEF NullMeansNoWorkers
  <2>1. Cardinality(Alive) # 0 BY OneLess
  <2> QED BY <2>1 DEF Inv, Counted
<1> QED BY <1>1, Invariance, PTL

\* A set without two different elements has one or none.
LEMMA CountOf ==
  ASSUME NEW S, \A a, b \in S : a = b
  PROVE  Cardinality(S) = IF S = {} THEN 0 ELSE 1
<1>1. CASE S = {} BY <1>1, FS_EmptySet
<1>2. CASE S # {}
  <2>1. PICK a : a \in S BY <1>2
  <2>2. S = {a} BY <2>1
  <2> QED BY <1>2, <2>2, FS_Singleton
<1> QED BY <1>1, <1>2

\* A worker is never handed out twice and never forgotten: while it has no work it is
\* on the stack once or with one thread.
THEOREM IdleWorkerInOnePlaceCorrect == Spec => []IdleWorkerInOnePlace
<1>1. Inv => IdleWorkerInOnePlace
  <2> SUFFICES ASSUME Inv, NEW w \in Workers
               PROVE  Cardinality(InWaiting(w)) + Cardinality(HeldBy(w))
                        + (IF okToExecute[w] THEN 1 ELSE 0)
                      = IF wpc[w] \in {"idle", "run", "clear"} THEN 1 ELSE 0
    BY DEF IdleWorkerInOnePlace
  <2>1. Cardinality(InWaiting(w)) = IF Queued(w) THEN 1 ELSE 0
    <3>1. \A i, k \in InWaiting(w) : i = k BY DEF Inv, Places, InWaiting
    <3>2. InWaiting(w) = {} <=> ~Queued(w) BY DEF InWaiting, Queued
    <3> QED BY <3>1, <3>2, CountOf
  <2>2. Cardinality(HeldBy(w)) = IF Held(w) THEN 1 ELSE 0
    <3>1. w # nullptr BY QueueAssumption
    <3>2. \A t, u \in HeldBy(w) : t = u BY <3>1 DEF Inv, Places, HeldBy
    <3>3. HeldBy(w) = {} <=> ~Held(w) BY DEF HeldBy, Held
    <3> QED BY <3>2, <3>3, CountOf
  <2>3. Queued(w) => Free(w) /\ ~Held(w) BY DEF Inv, Places
  <2>4. Held(w) => Free(w) BY DEF Inv, Places
  <2>5. Free(w) => Queued(w) \/ Held(w) BY DEF Inv, Places
  <2>6. okToExecute[w] => wpc[w] \in {"idle", "run", "clear"} BY DEF Inv, Places
  <2>7. wpc[w] \in {"run", "clear"} => okToExecute[w] BY DEF Inv, Places
  <2>8. okToExecute[w] \in BOOLEAN BY DEF Inv, Types
  <2> HIDE DEF Inv
  <2> QED BY <2>1, <2>2, <2>3, <2>4, <2>5, <2>6, <2>7, <2>8 DEF Free
<1> QED BY <1>1, Invariance, PTL

-----------------------------------------------------------------------------
(* The set of working workers *)

\* A worker is put into the set before it gets its work and stays there until it erases itself.
InSet ==
  /\ \A t \in Threads : gpc[t] = "execute" => got[t] \in working
  /\ \A w \in Workers : okToExecute[w] \/ wpc[w] = "erase" => w \in working

\* The set of working workers follows the workers, though it has its own lock.
LEMMA InSetKept ==
  ASSUME Inv, InSet, [Next]_qVars
  PROVE  InSet'
<1> USE DEF InSet
<1>1. Main \in Threads /\ Callers \subseteq Threads BY DEF Threads
<1>2. ASSUME UNCHANGED <<working, okToExecute, wpc, got>>, NEW t \in Threads, NEW s,
             gpc' = [gpc EXCEPT ![t] = s], s # "execute"
      PROVE  InSet'
  BY <1>2 DEF Inv, Types
<1>3. ASSUME NEW t \in Threads, GetWorker(t) \/ spuriousWakeup(t) PROVE InSet'
  <2>1. CASE getWorkerWaits(t) \/ getWorkerNull(t) \/ spuriousWakeup(t)
    BY <1>2, <2>1 DEF getWorkerWaits, getWorkerNull, spuriousWakeup, queueVars, workerVars
  <2>2. CASE getWorkerTakes(t) BY <2>2 DEF getWorkerTakes, workerVars, Inv, Types
  <2>3. CASE rememberWorking(t) BY <2>3 DEF rememberWorking, workerVars, Inv, Types
  <2> QED BY <1>3, <2>1, <2>2, <2>3 DEF GetWorker
<1>4. ASSUME NEW t \in Threads, NEW s \in {"out", "enter"}, executeThen(t, s) PROVE InSet'
  BY <1>4 DEF executeThen, queueVars, Inv, Types
<1>5. ASSUME NEW t \in Threads, Submit(t) \/ dropWork(t) \/ shutDown \/ join PROVE InSet'
  BY <1>1, <1>2, <1>5 DEF Submit, callGetWorker, dropWork, shutDown, join, queueVars, workerVars
<1>6. ASSUME NEW x \in Workers, pushWaiting(x) \/ leave(x) PROVE InSet'
  <2>1. \A t \in Threads : gpc'[t] = "execute" => gpc[t] = "execute"
    BY <1>6 DEF pushWaiting, leave, Blocked, Inv, Types
  <2> QED BY <1>6, <2>1 DEF pushWaiting, leave, Inv, Types
<1>7. ASSUME NEW x \in Workers, checkShuttingDown(x) \/ waitForWork(x) \/ workReturns(x)
      PROVE  InSet'
  BY <1>7 DEF checkShuttingDown, waitForWork, workReturns, queueVars, callVars, Inv, Types
<1>8. ASSUME NEW x \in Workers, clearOkToExecute(x) PROVE InSet'
  BY <1>8 DEF clearOkToExecute, queueVars, callVars, Inv, Types, Places
<1>9. ASSUME NEW x \in Workers, eraseWorking(x) PROVE InSet'
  <2>1. ~okToExecute[x] /\ ~Held(x) BY <1>9 DEF eraseWorking, Inv, Places, Free
  <2> QED BY <1>9, <2>1 DEF eraseWorking, callVars, Inv, Types, Held
<1>10. CASE UNCHANGED qVars BY <1>10 DEF qVars, queueVars, workerVars, callVars
<1> QED BY <1>1, <1>3, <1>4, <1>5, <1>6, <1>7, <1>8, <1>9, <1>10
        DEF Next, Caller, Destructor, Enter

\* The assertion of PDBWorkerQueue::enter holds: a worker finds itself in the set of working
\* workers when it erases itself, though it leaves the stack and enters the set under
\* different locks.
THEOREM ErasesItselfCorrect == Spec => []ErasesItself
<1>1. QueueInit => InSet BY DEF QueueInit, InSet
<1>2. InSet => ErasesItself BY DEF InSet, ErasesItself
<1> QED BY <1>1, <1>2, InSetKept, Invariance, PTL DEF Spec

-----------------------------------------------------------------------------
(* The queue implements WorkerPool *)

Does(w) == IF wpc[w] = "dead" THEN "gone" ELSE IF okToExecute[w] THEN runMe[w] ELSE nullptr

\* A step that changes neither okToExecute nor ended, ends no worker and leaves runMe of
\* a worker at work alone is not seen by WorkerPool.
LEMMA Unseen ==
  ASSUME Inv, UNCHANGED <<okToExecute, ended>>,
         \A w \in Workers : wpc'[w] = "dead" <=> wpc[w] = "dead",
         \A w \in Workers : okToExecute[w] => runMe'[w] = runMe[w]
  PROVE  UNCHANGED <<[w \in Workers |-> Does(w)], ended>>
<1>1. \A w \in Workers : Does(w)' = Does(w) BY DEF Does
<1> QED BY <1>1

\* Every step of the queue is a step of WorkerPool or leaves it alone: a job is given to a
\* worker that has none, never twice, and is done once ("gone" is a name for a worker that
\* has ended, and no job).
THEOREM ImplementsPoolSafely ==
  ASSUME "gone" \notin Jobs \cup {Nothing, nullptr}
  PROVE  Spec => Pool!Spec
<1> DEFINE does == [w \in Workers |-> Does(w)]
<1>1. QueueInit => Pool!Init
  BY DEF QueueInit, Pool!Init
<1>2. ASSUME Inv, [Next]_qVars PROVE [Pool!Next]_<<does, ended>>
  <2>1. ASSUME NEW t \in Threads, NEW s \in {"out", "enter", "buzz"}, executeThen(t, s)
        PROVE  Pool!Next
    <3>0. got[t] \in Workers /\ job[t] \in Jobs \cup {Nothing}
      BY <1>2, <2>1 DEF executeThen, Inv, Types, Places, JobsOnce
    <3>1. PICK x \in Workers, j \in Jobs \cup {Nothing} : x = got[t] /\ j = job[t] BY <3>0
    <3>2. wpc[x] = "idle" /\ ~okToExecute[x]
      BY <1>2, <3>1 DEF Inv, Places, Held, Free
    <3>3. j \in Jobs => j \notin ended /\ \A v \in Workers : Does(v) # j
      BY <1>2, <3>1, QueueAssumption DEF Inv, JobsOnce, Does
    <3>4. Does(x) = nullptr BY <3>2 DEF Does
    <3>5. /\ runMe' = [runMe EXCEPT ![x] = j] /\ okToExecute' = [okToExecute EXCEPT ![x] = TRUE]
          /\ UNCHANGED <<wpc, ended>>
      BY <2>1, <3>1 DEF executeThen
    <3>6. \A w \in Workers : Does(w)' = IF w = x THEN j ELSE Does(w)
      BY <1>2, <3>2, <3>5 DEF Does, Inv, Types
    <3>7. does' = [does EXCEPT ![x] = j] BY <3>6
    <3>8. Pool!Give(x, j)
      BY <3>3, <3>4, <3>5, <3>7 DEF Pool!Give, Does
    <3> QED BY <3>8 DEF Pool!Next
  <2>2. ASSUME NEW x \in Workers, clearOkToExecute(x) PROVE Pool!Next
    <3>1. /\ okToExecute[x] /\ wpc[x] = "clear" /\ UNCHANGED runMe
          /\ okToExecute' = [okToExecute EXCEPT ![x] = FALSE]
          /\ wpc' = [wpc EXCEPT ![x] = "erase"]
          /\ ended' = ended \cup ({runMe[x]} \cap Jobs)
      BY <1>2, <2>2 DEF clearOkToExecute, Inv, Places
    <3>2. Does(x) = runMe[x] /\ runMe[x] \in Jobs \cup {Nothing}
      BY <1>2, <3>1 DEF Does, Inv, Types, JobsOnce
    <3>3. \A w \in Workers : Does(w)' = IF w = x THEN nullptr ELSE Does(w)
      BY <1>2, <3>1 DEF Does, Inv, Types
    <3>4. does' = [does EXCEPT ![x] = nullptr] BY <3>3
    <3>5. Pool!Finish(x) BY <3>1, <3>2, <3>4 DEF Pool!Finish, Does
    <3> QED BY <3>5 DEF Pool!Next
  <2>3. ASSUME NEW x \in Workers, leave(x) PROVE Pool!Next
    <3>1. /\ ~okToExecute[x] /\ wpc[x] = "leave" /\ wpc' = [wpc EXCEPT ![x] = "dead"]
          /\ UNCHANGED <<okToExecute, runMe, ended>>
      BY <1>2, <2>3 DEF leave, Inv, Places
    <3>2. Does(x) = nullptr BY <3>1 DEF Does
    <3>3. \A w \in Workers : Does(w)' = IF w = x THEN "gone" ELSE Does(w)
      BY <1>2, <3>1 DEF Does, Inv, Types
    <3>4. does' = [does EXCEPT ![x] = "gone"] BY <3>3
    <3>5. Pool!Leave(x) BY <3>1, <3>2, <3>4 DEF Pool!Leave, Does
    <3> QED BY <3>5 DEF Pool!Next
  <2>4. ASSUME NEW w \in Workers,
               \/ checkShuttingDown(w) \/ pushWaiting(w) \/ waitForWork(w)
               \/ workReturns(w) \/ eraseWorking(w)
        PROVE  UNCHANGED <<does, ended>>
    <3>1. UNCHANGED <<okToExecute, ended>>
      BY <2>4 DEF checkShuttingDown, pushWaiting, waitForWork, workReturns, eraseWorking
    <3>2. \A v \in Workers : wpc'[v] = "dead" <=> wpc[v] = "dead"
      BY <1>2, <2>4 DEF checkShuttingDown, pushWaiting, waitForWork, workReturns, eraseWorking,
                        Inv, Types
    <3>3. \A v \in Workers : okToExecute[v] => runMe'[v] = runMe[v]
      BY <1>2, <2>4 DEF checkShuttingDown, pushWaiting, waitForWork, workReturns, eraseWorking,
                        Inv, Types, Places
    <3> QED BY <1>2, <3>1, <3>2, <3>3, Unseen
  <2>5. ASSUME UNCHANGED <<okToExecute, ended, wpc, runMe>> PROVE UNCHANGED <<does, ended>>
    BY <1>2, <2>5, Unseen
  <2>6. ASSUME NEW t \in Threads, GetWorker(t) \/ spuriousWakeup(t) \/ dropWork(t) \/ Submit(t)
        PROVE  UNCHANGED <<does, ended>>
    BY <2>5, <2>6 DEF GetWorker, getWorkerWaits, getWorkerNull, getWorkerTakes, rememberWorking,
                      spuriousWakeup, dropWork, Submit, callGetWorker, workerVars
  <2>7. CASE shutDown \/ join \/ UNCHANGED qVars
    BY <2>5, <2>7 DEF shutDown, join, qVars, workerVars
  <2>8. Main \in Threads /\ Callers \subseteq Threads BY DEF Threads
  <2> HIDE DEF does
  <2> QED BY <1>2, <2>1, <2>2, <2>3, <2>4, <2>6, <2>7, <2>8
          DEF Next, Caller, Destructor, Enter
<1>3. QED BY <1>1, <1>2, Invariance, PTL DEF Spec, Pool!Spec, Does

-----------------------------------------------------------------------------
(* The server on top of the queue *)

ServerTypes ==
  /\ sent \in [Conns -> 0 .. MaxReqs] /\ read \in [Conns -> Nat]
  /\ signalSent \in [Conns -> BOOLEAN]
  /\ answered \subseteq Requests
  /\ \A c \in Conns : read[c] <= sent[c]

\* Only requests that were read are handed to the queue or answered.
ReadFirst == \A r \in Requests : r \in asked \cup answered => r[2] <= read[r[1]]

\* A worker that wants a worker is at work on a connection.
CallersServe == \A w \in Workers : gpc[w] # "out" => wpc[w] = "run" /\ runMe[w] \in Conns

Asking == {"enter", "blocked", "woken", "assign", "execute"}

\* A request that is not answered is the last one read on its connection, its buzzer was
\* not used, and the worker of the connection either still brings it to the queue or waits.
Open(r) == r[2] = read[r[1]] /\ ~signalSent[r[1]]

Outstanding ==
  /\ \A t \in Threads, r \in Requests : job[t] = r /\ r \notin answered =>
       t \in Workers /\ Serves(t, r[1]) /\ gpc[t] \in Asking /\ Open(r)
  /\ \A w \in Workers, r \in Requests : okToExecute[w] /\ runMe[w] = r /\ r \notin answered =>
       Open(r) /\ \E v \in Workers : Serves(v, r[1]) /\ gpc[v] = "buzz"

ServerInv == ServerTypes /\ ReadFirst /\ CallersServe

\* The steps that the queue takes by itself
QueueStep ==
  \/ \E t \in Threads : GetWorker(t) \/ spuriousWakeup(t)
  \/ executeThen(listener, "out") \/ executeThen(Main, "enter")
  \/ \E w \in Workers : executeThen(w, "buzz") \/ Enter(w)
  \/ shutDown \/ join

\* The listener, the destructor and the workers are different threads.
LEMMA ThreadSets ==
  /\ listener \in Threads /\ Main \in Threads /\ Workers \subseteq Threads
  /\ listener \notin Workers /\ Main \notin Workers
  BY QueueAssumption, ServerAssumption DEF Threads

\* The steps of the queue keep its invariant whoever asks for workers.
LEMMA QueueStepInv == ASSUME Inv, QueueStep PROVE Inv'
<1>1. ASSUME NEW t \in Threads, GetWorker(t) \/ spuriousWakeup(t) PROVE Inv'
  BY <1>1, ThreadMoves, Takes, Remembers DEF GetWorker
<1>2. ASSUME NEW w \in Workers, Enter(w) PROVE Inv'
  BY <1>2, WorkerMoves, Pushes, Leaves DEF Enter
<1> QED BY <1>1, <1>2, ThreadSets, JobMoves, Executes DEF QueueStep

\* What the server sees of a step of the queue.
LEMMA QueueStepDoes ==
  ASSUME Inv, Inv', CallersServe, QueueStep
  PROVE  /\ asked' = asked
         /\ \A w \in Workers : gpc'[w] # "out" => gpc[w] # "out"
         /\ \A w \in Workers : wpc[w] = "run" => wpc'[w] = "run" /\ runMe'[w] = runMe[w]
         /\ \A w \in Workers : gpc[w] = "buzz" => gpc'[w] = "buzz"
         /\ \A t \in Threads : job'[t] \in Jobs => job'[t] = job[t]
         /\ \A w \in Workers : gpc[w] \in Asking /\ job'[w] \in Jobs => gpc'[w] \in Asking
         /\ \A w \in Workers : okToExecute'[w] /\ runMe'[w] \in Jobs =>
              \/ okToExecute[w] /\ runMe[w] = runMe'[w]
              \/ \E t \in Threads : job[t] = runMe'[w] /\ (t \in Workers => gpc'[t] = "buzz")
<1> DEFINE P ==
      /\ asked' = asked
      /\ \A w \in Workers : gpc'[w] # "out" => gpc[w] # "out"
      /\ \A w \in Workers : wpc[w] = "run" => wpc'[w] = "run" /\ runMe'[w] = runMe[w]
      /\ \A w \in Workers : gpc[w] = "buzz" => gpc'[w] = "buzz"
      /\ \A t \in Threads : job'[t] \in Jobs => job'[t] = job[t]
      /\ \A w \in Workers : gpc[w] \in Asking /\ job'[w] \in Jobs => gpc'[w] \in Asking \cup {"null"}
      /\ \A w \in Workers : okToExecute'[w] /\ runMe'[w] \in Jobs =>
              \/ okToExecute[w] /\ runMe[w] = runMe'[w]
              \/ \E t \in Threads : job[t] = runMe'[w] /\ (t \in Workers => gpc'[t] = "buzz")
<1> SUFFICES P
  <2>1. ASSUME P, NEW w \in Workers, gpc[w] \in Asking, gpc'[w] = "null" PROVE FALSE
    <3>1. wpc[w] = "run" BY <2>1 DEF CallersServe, Asking
    <3>2. wpc'[w] = "run" BY <2>1, <3>1
    <3>3. w \in Alive' BY <3>2 DEF Alive
    <3>4. IsFiniteSet(Alive') /\ Alive' \subseteq Workers BY QueueAssumption, FS_Subset DEF Alive
    <3>5. Cardinality(Alive') # 0 BY <3>3, <3>4, FS_EmptySet
    <3> QED BY <2>1, <3>5, ThreadSets DEF Inv, Counted
  <2> QED BY <2>1
<1>0. Types BY DEF Inv
<1>1. ASSUME NEW t \in Threads, GetWorker(t) \/ spuriousWakeup(t) PROVE P
  <2>1. /\ UNCHANGED <<asked, wpc, runMe, okToExecute, job>>
        /\ gpc[t] \in Asking
        /\ \E s \in Asking \cup {"null"} : gpc' = [gpc EXCEPT ![t] = s]
    BY <1>1 DEF GetWorker, getWorkerWaits, getWorkerNull, getWorkerTakes, rememberWorking,
                spuriousWakeup, workerVars, Asking
  <2> QED BY <1>0, <2>1, ThreadSets DEF Types, Asking
<1>2. ASSUME NEW t \in Threads, NEW s \in {"out", "enter", "buzz"}, executeThen(t, s),
             t \in Workers => s = "buzz"
      PROVE  P
  <2>1. got[t] \in Workers /\ wpc[got[t]] = "idle"
    BY <1>2 DEF executeThen, Inv, Places, Held, Free, Types
  <2>2. /\ UNCHANGED <<asked, wpc>> /\ gpc[t] = "execute" /\ gpc' = [gpc EXCEPT ![t] = s]
        /\ runMe' = [runMe EXCEPT ![got[t]] = job[t]]
        /\ okToExecute' = [okToExecute EXCEPT ![got[t]] = TRUE]
        /\ \E k \in {Nothing, nullptr} : job' = [job EXCEPT ![t] = k]
    BY <1>2 DEF executeThen
  <2>3. Nothing \notin Jobs /\ nullptr \notin Jobs BY QueueAssumption
  <2>4. \A u \in Threads : job'[u] \in Jobs => u # t /\ job'[u] = job[u]
    BY <1>0, <2>2, <2>3 DEF Types
  <2>5. \A w \in Workers : w # got[t] => runMe'[w] = runMe[w] /\ okToExecute'[w] = okToExecute[w]
    BY <1>0, <2>1, <2>2 DEF Types
  <2>6. runMe'[got[t]] = job[t] BY <1>0, <2>1, <2>2 DEF Types
  <2>7. \A u \in Threads : gpc'[u] = IF u = t THEN s ELSE gpc[u] BY <1>0, <2>2 DEF Types
  <2>8. \A w \in Workers : okToExecute'[w] /\ runMe'[w] \in Jobs =>
              \/ okToExecute[w] /\ runMe[w] = runMe'[w]
              \/ \E u \in Threads : job[u] = runMe'[w] /\ (u \in Workers => gpc'[u] = "buzz")
    BY <1>2, <2>5, <2>6, <2>7
  <2> QED BY <1>2, <2>1, <2>2, <2>4, <2>5, <2>7, <2>8, ThreadSets DEF Asking
<1>3. ASSUME NEW w \in Workers, Enter(w) PROVE P
  <2>1. /\ UNCHANGED <<asked, job>>
        /\ wpc[w] # "run"
        /\ \A v \in Workers : v # w => wpc'[v] = wpc[v] /\ runMe'[v] = runMe[v] /\ okToExecute'[v] = okToExecute[v]
    BY <1>0, <1>3 DEF Enter, checkShuttingDown, pushWaiting, waitForWork, clearOkToExecute, eraseWorking,
                leave, callVars, Types
  <2>2. okToExecute'[w] => okToExecute[w] /\ runMe'[w] = runMe[w]
    BY <1>0, <1>3 DEF Enter, checkShuttingDown, pushWaiting, waitForWork, clearOkToExecute, eraseWorking,
                leave, callVars, Types, Inv, Places
  <2>3. \A t \in Threads : gpc'[t] = gpc[t] \/ (gpc[t] = "blocked" /\ gpc'[t] = "woken")
    BY <1>0, <1>3 DEF Enter, checkShuttingDown, pushWaiting, waitForWork, clearOkToExecute, eraseWorking,
                leave, callVars, Types, Blocked
  <2> QED BY <2>1, <2>2, <2>3, ThreadSets DEF Asking
<1>4. CASE shutDown \/ join
  <2>1. /\ UNCHANGED <<asked, wpc, runMe, okToExecute>>
        /\ \A u \in Threads : u # Main => gpc'[u] = gpc[u] /\ job'[u] = job[u]
        /\ job'[Main] \in {job[Main], Nothing}
    BY <1>0, <1>4, ThreadSets DEF shutDown, join, workerVars, Types
  <2> QED BY <2>1, ThreadSets, QueueAssumption DEF Asking
<1> QED BY <1>1, <1>2, <1>3, <1>4, ThreadSets DEF QueueStep

\* The steps of the server by what they do to the queue
ServerCases ==
  \/ QueueStep /\ UNCHANGED <<clientVars, serverVars>>
  \/ \E c \in Conns : sendRequest(c) \/ closeConnection(c) \/ accept(c)
  \/ testAllDone
  \/ \E w \in Workers, c \in Conns :
       readRequest(w, c) \/ readUnknown(w, c) \/ readShutDown(w, c) \/ readClose(w, c) \/ wait(w, c)
  \/ \E w \in Workers, r \in Requests : buzz(w, r)
  \/ \E w \in Workers : handlerReturns(w)
  \/ UNCHANGED sVars

\* Every step of the server is one of those.
LEMMA ServerStepCases == [ServerNext]_sVars => ServerCases
<1> SUFFICES ASSUME [ServerNext]_sVars PROVE ServerCases OBVIOUS
<1>1. ASSUME NEW w \in Workers, WorkerThread(w) PROVE ServerCases
  <2>1. CASE Enter(w) /\ UNCHANGED <<clientVars, serverVars>> BY <2>1 DEF QueueStep, ServerCases
  <2>2. ASSUME NEW c \in Conns, ServerWork(w, c) PROVE ServerCases
    <3>1. CASE (GetWorker(w) \/ executeThen(w, "buzz")) /\ UNCHANGED <<clientVars, serverVars>>
      BY <3>1, ThreadSets DEF QueueStep, ServerCases
    <3> QED BY <2>2, <3>1 DEF ServerWork, ServerCases
  <2>3. CASE \E r \in Requests : buzz(w, r) BY <2>3 DEF ServerCases
  <2>4. CASE handlerReturns(w) BY <2>4 DEF ServerCases
  <2> QED BY <1>1, <2>1, <2>2, <2>3, <2>4 DEF WorkerThread
<1>2. CASE Listener BY <1>2, ThreadSets DEF Listener, QueueStep, ServerCases
<1>3. CASE \E t \in Threads : spuriousWakeup(t) /\ UNCHANGED <<clientVars, serverVars>>
  BY <1>3 DEF QueueStep, ServerCases
<1>4. CASE stopServer \/ (Destructor /\ UNCHANGED <<clientVars, serverVars>>)
  BY <1>4, ThreadSets DEF stopServer, Destructor, QueueStep, ServerCases
<1>5. CASE \E c \in Conns : sendRequest(c) \/ closeConnection(c) \/ accept(c)
  BY <1>5 DEF ServerCases
<1>6. CASE UNCHANGED sVars BY <1>6 DEF ServerCases
<1> QED BY <1>1, <1>2, <1>3, <1>4, <1>5, <1>6 DEF ServerNext

\* Requests and connections are jobs of the queue and are told apart.
LEMMA RequestParts ==
  /\ \A r \in Requests : r[1] \in Conns /\ r[2] \in 1 .. MaxReqs /\ r = <<r[1], r[2]>> /\ r \in Jobs /\ r \notin Conns
  /\ Conns \subseteq Jobs /\ Nothing \notin Conns /\ Nothing \notin Requests
  /\ \A c \in Conns, i \in 1 .. MaxReqs : <<c, i>> \in Requests
  BY ServerAssumption, QueueAssumption DEF Requests

\* The request that is read next was not handed over before.
LEMMA NextIsNew ==
  ASSUME ServerTypes, ReadFirst, NEW c \in Conns, read[c] < sent[c]
  PROVE  /\ <<c, read[c] + 1>> \in Requests /\ <<c, read[c] + 1>> \in Jobs
         /\ <<c, read[c] + 1>> \notin asked /\ <<c, read[c] + 1>> \notin answered
<1>1. read[c] \in Nat /\ sent[c] \in 0 .. MaxReqs /\ MaxReqs \in Nat
  BY ServerAssumption DEF ServerTypes
<1>2. read[c] + 1 \in 1 .. MaxReqs BY <1>1
<1>3. <<c, read[c] + 1>> \in Requests /\ <<c, read[c] + 1>> \in Jobs BY <1>2, RequestParts
<1>4. ~(read[c] + 1 <= read[c]) BY <1>1
<1> QED BY <1>3, <1>4 DEF ReadFirst

\* A worker that returns is not on its way to another one.
LEMMA ReturnsOut ==
  ASSUME Inv, ServerInv, NEW w \in Workers,
         handlerReturns(w) \/ \E c \in Conns : Reading(w, c)
  PROVE  gpc[w] = "out"
  BY RequestParts DEF ServerInv, ServerTypes, CallersServe, handlerReturns, Reading

\* The invariant of the queue, with workers among those who ask for workers.
LEMMA ServerKeepsQueue ==
  ASSUME Inv, ServerInv, [ServerNext]_sVars
  PROVE  Inv'
<1>0. ServerTypes /\ ReadFirst BY DEF ServerInv
<1>1. CASE QueueStep BY <1>1, QueueStepInv
<1>2. ASSUME UNCHANGED qVars PROVE Inv'
  BY <1>2, InvKept DEF Next
<1>3. ASSUME NEW c \in Conns, accept(c) PROVE Inv'
  <2>1. \E j \in Jobs \ asked : callGetWorker(listener, j) BY <1>3, RequestParts DEF accept
  <2> QED BY <2>1, ThreadSets, JobMoves
<1>4. ASSUME NEW w \in Workers, NEW c \in Conns, readRequest(w, c) PROVE Inv'
  <2>1. \E j \in Jobs \ asked : callGetWorker(w, j) BY <1>0, <1>4, NextIsNew DEF readRequest
  <2> QED BY <2>1, ThreadSets, JobMoves
<1>5. ASSUME NEW w \in Workers, workReturns(w) PROVE Inv' BY <1>5, WorkerMoves
<1>6. ASSUME NEW w \in Workers, NEW c \in Conns, wait(w, c) PROVE Inv'
  <2> USE <1>6 DEF wait, queueVars, workerVars
  <2>1. Types' BY DEF Inv, Types, GStates
  <2>2. \A v : Queued(v)' = Queued(v) /\ Held(v)' = Held(v) /\ Free(v)' = Free(v)
    BY DEF Queued, Held, Free
  <2>3. Places' BY <2>2 DEF Inv, Places, Types
  <2>4. Alive' = Alive BY DEF Alive
  <2>5. Counted' BY <2>4 DEF Inv, Counted, Types
  <2>6. JobsOnce' BY DEF Inv, JobsOnce, Types
  <2> QED BY <2>1, <2>3, <2>5, <2>6 DEF Inv
<1>7. ASSUME NEW c \in Conns, sendRequest(c) \/ closeConnection(c) PROVE Inv'
  BY <1>2, <1>7 DEF sendRequest, closeConnection
<1>8. CASE testAllDone BY <1>2, <1>8 DEF testAllDone
<1>9. ASSUME NEW w \in Workers, NEW c \in Conns,
             readUnknown(w, c) \/ readShutDown(w, c) \/ readClose(w, c)
      PROVE  Inv'
  BY <1>5, <1>9 DEF readUnknown, readShutDown, readClose
<1>10. ASSUME NEW w \in Workers, NEW r \in Requests, buzz(w, r) PROVE Inv' BY <1>2, <1>10 DEF buzz
<1>11. ASSUME NEW w \in Workers, handlerReturns(w) PROVE Inv' BY <1>5, <1>11 DEF handlerReturns
<1>12. CASE UNCHANGED sVars BY <1>2, <1>12 DEF sVars
<1> QED BY <1>1, <1>3, <1>4, <1>6, <1>7, <1>8, <1>9, <1>10, <1>11, <1>12, ServerStepCases DEF ServerCases

\* Requests are read before they are handed over, by a worker that serves a connection.
LEMMA ServerInvKept ==
  ASSUME Inv, Inv', ServerInv, [ServerNext]_sVars
  PROVE  ServerInv'
<1>0. ServerTypes /\ ReadFirst /\ CallersServe /\ Types BY DEF ServerInv, Inv
<1> USE DEF clientVars, serverVars
<1>1. CASE QueueStep /\ UNCHANGED <<clientVars, serverVars>>
  <2>1. ServerTypes' BY <1>0, <1>1 DEF ServerTypes
  <2>2. ReadFirst' BY <1>0, <1>1, QueueStepDoes DEF ReadFirst
  <2>3. CallersServe' BY <1>0, <1>1, QueueStepDoes DEF CallersServe
  <2> QED BY <2>1, <2>2, <2>3 DEF ServerInv
<1>2. ASSUME NEW w \in Workers, workReturns(w), gpc[w] = "out" PROVE CallersServe' /\ UNCHANGED asked
  BY <1>0, <1>2 DEF workReturns, CallersServe, callVars, Types
<1>3. ASSUME NEW c \in Conns, sendRequest(c) \/ closeConnection(c) \/ accept(c) PROVE ServerInv'
  <2>1. CASE sendRequest(c)
    <3>1. ServerTypes'
      BY <1>0, <2>1, ServerAssumption DEF ServerTypes, sendRequest
    <3>2. ReadFirst' /\ CallersServe' BY <1>0, <2>1 DEF ReadFirst, CallersServe, sendRequest, qVars, workerVars, callVars
    <3> QED BY <3>1, <3>2 DEF ServerInv
  <2>2. CASE closeConnection(c)
    BY <1>0, <2>2 DEF ServerInv, ServerTypes, ReadFirst, CallersServe, closeConnection, qVars, workerVars, callVars
  <2>3. CASE accept(c)
    <3>1. ServerTypes' BY <1>0, <2>3 DEF ServerTypes, accept
    <3>2. ReadFirst' BY <1>0, <2>3, RequestParts DEF ReadFirst, accept, callGetWorker
    <3>3. CallersServe'
      BY <1>0, <2>3, ThreadSets DEF CallersServe, accept, callGetWorker, workerVars, Types
    <3> QED BY <3>1, <3>2, <3>3 DEF ServerInv
  <2> QED BY <1>3, <2>1, <2>2, <2>3
<1>4. CASE testAllDone
  BY <1>0, <1>4 DEF ServerInv, ServerTypes, ReadFirst, CallersServe, testAllDone, qVars, workerVars, callVars
<1>5. ASSUME NEW w \in Workers, NEW c \in Conns, readRequest(w, c) PROVE ServerInv'
  <2>1. \A d \in Conns : read'[d] = IF d = c THEN read[c] + 1 ELSE read[d]
    BY <1>0, <1>5 DEF readRequest, ServerTypes
  <2>2. read[c] \in Nat /\ sent[c] \in Nat /\ read[c] + 1 <= sent[c]
    BY <1>0, <1>5, ServerAssumption DEF readRequest, ServerTypes
  <2>3. ServerTypes' BY <1>0, <1>5, <2>1, <2>2 DEF ServerTypes, readRequest
  <2>4. ReadFirst'
    <3>1. \A d \in Conns : read[d] \in Nat /\ read'[d] \in Nat /\ read[d] <= read'[d]
      BY <1>0, <2>1 DEF ServerTypes
    <3>2. asked' = asked \cup {<<c, read[c] + 1>>} /\ answered' = answered
      BY <1>5 DEF readRequest, callGetWorker
    <3>3. ASSUME NEW r \in Requests, r \in asked' \cup answered' PROVE r[2] <= read'[r[1]]
      <4>1. CASE r = <<c, read[c] + 1>> BY <2>1, <2>2, <4>1
      <4>2. CASE r \in asked \cup answered
        <5>1. r[1] \in Conns /\ r[2] \in Nat BY RequestParts, ServerAssumption
        <5>2. r[2] <= read[r[1]] BY <1>0, <4>2 DEF ReadFirst
        <5> QED BY <3>1, <5>1, <5>2
      <4> QED BY <3>2, <3>3, <4>1, <4>2
    <3> QED BY <3>3 DEF ReadFirst
  <2>5. CallersServe'
    BY <1>0, <1>5, ThreadSets DEF CallersServe, readRequest, Reading, Serves, callGetWorker, workerVars, Types
  <2> QED BY <2>3, <2>4, <2>5 DEF ServerInv
<1>6. ASSUME NEW w \in Workers, NEW c \in Conns, readUnknown(w, c) \/ readShutDown(w, c) PROVE ServerInv'
  <2>1. \A d \in Conns : read'[d] = IF d = c THEN read[c] + 1 ELSE read[d]
    BY <1>0, <1>6 DEF readUnknown, readShutDown, ServerTypes
  <2>2. read[c] \in Nat /\ sent[c] \in Nat /\ read[c] + 1 <= sent[c]
    BY <1>0, <1>6, ServerAssumption DEF readUnknown, readShutDown, ServerTypes
  <2>3. answered' \subseteq answered \cup {<<c, read[c] + 1>>} /\ <<c, read[c] + 1>> \in Requests
    BY <1>0, <1>6, NextIsNew DEF readUnknown, readShutDown
  <2>4. ServerTypes' BY <1>0, <1>6, <2>1, <2>2, <2>3 DEF ServerTypes, readUnknown, readShutDown
  <2>5. CallersServe' /\ UNCHANGED asked
    BY <1>2, <1>6 DEF readUnknown, readShutDown, Reading
  <2>6. ReadFirst'
    <3>1. \A d \in Conns : read[d] \in Nat /\ read'[d] \in Nat /\ read[d] <= read'[d]
      BY <1>0, <2>1 DEF ServerTypes
    <3>3. ASSUME NEW r \in Requests, r \in asked' \cup answered' PROVE r[2] <= read'[r[1]]
      <4>1. CASE r = <<c, read[c] + 1>> BY <2>1, <2>2, <4>1
      <4>2. CASE r \in asked \cup answered
        <5>1. r[1] \in Conns /\ r[2] \in Nat BY RequestParts, ServerAssumption
        <5>2. r[2] <= read[r[1]] BY <1>0, <4>2 DEF ReadFirst
        <5> QED BY <3>1, <5>1, <5>2
      <4> QED BY <2>3, <2>5, <3>3, <4>1, <4>2
    <3> QED BY <3>3 DEF ReadFirst
  <2> QED BY <2>4, <2>5, <2>6 DEF ServerInv
<1>7. ASSUME NEW w \in Workers, NEW c \in Conns, readClose(w, c) PROVE ServerInv'
  <2>1. CallersServe' /\ UNCHANGED asked BY <1>2, <1>7 DEF readClose, Reading
  <2> QED BY <1>0, <1>7, <2>1 DEF ServerInv, ServerTypes, ReadFirst, readClose
<1>8. ASSUME NEW w \in Workers, NEW c \in Conns, wait(w, c) PROVE ServerInv'
  <2>1. ServerTypes' /\ ReadFirst' BY <1>0, <1>8 DEF ServerTypes, ReadFirst, wait
  <2>2. CallersServe' BY <1>0, <1>8, ThreadSets DEF CallersServe, wait, workerVars, Types
  <2> QED BY <2>1, <2>2 DEF ServerInv
<1>9. ASSUME NEW w \in Workers, NEW r \in Requests, buzz(w, r) PROVE ServerInv'
  <2>1. r[1] \in Conns BY RequestParts
  <2>2. ServerTypes' BY <1>0, <1>9, <2>1 DEF ServerTypes, buzz
  <2>3. r \in asked BY <1>9, RequestParts DEF buzz, Inv, Places, JobsOnce
  <2>4. ReadFirst' BY <1>0, <1>9, <2>3 DEF ReadFirst, buzz, qVars
  <2>5. CallersServe' BY <1>0, <1>9 DEF CallersServe, buzz, qVars, workerVars, callVars
  <2> QED BY <2>2, <2>4, <2>5 DEF ServerInv
<1>10. ASSUME NEW w \in Workers, handlerReturns(w) PROVE ServerInv'
  <2>1. CallersServe' /\ UNCHANGED asked BY <1>2, <1>10, ReturnsOut DEF handlerReturns
  <2> QED BY <1>0, <1>10, <2>1 DEF ServerInv, ServerTypes, ReadFirst, handlerReturns
<1>11. CASE UNCHANGED sVars
  BY <1>0, <1>11 DEF ServerInv, ServerTypes, ReadFirst, CallersServe, sVars, qVars, workerVars, callVars
<1> QED BY <1>1, <1>3, <1>4, <1>5, <1>6, <1>7, <1>8, <1>9, <1>10, <1>11, ServerStepCases DEF ServerCases

\* The worker of a connection brings or awaits a request as long as it is not answered.
LEMMA OutstandingKept ==
  ASSUME Inv, Inv', ServerInv, ServerInv', Outstanding, ~Spurious, [ServerNext]_sVars
  PROVE  Outstanding'
<1>0. ServerTypes /\ ReadFirst /\ CallersServe /\ Types BY DEF ServerInv, Inv
<1> USE DEF clientVars, serverVars
<1>01. ASSUME NEW v \in Workers, NEW w \in Workers, NEW c \in Conns, Serves(v, c), Serves(w, c) PROVE v = w
  BY <1>01, RequestParts DEF Inv, Places, JobsOnce, Serves
<1>02. \A r \in Requests : r[1] \in Conns /\ r \in Jobs BY RequestParts
\* Once the worker of a connection reads again, none of its requests is outstanding.
<1>03. ASSUME NEW w \in Workers, NEW c \in Conns, Reading(w, c), NEW r \in Requests, r[1] = c, r \notin answered
       PROVE  /\ \A t \in Threads : job[t] # r
              /\ \A v \in Workers : okToExecute[v] => runMe[v] # r
  BY <1>01, <1>03 DEF Outstanding, Reading, Asking, Serves
<1>1. CASE QueueStep /\ UNCHANGED <<clientVars, serverVars>>
  <2>1. \A r : Open(r)' = Open(r) BY <1>1 DEF Open
  <2>2. \A v \in Workers, c \in Conns : Serves(v, c) => Serves(v, c)'
    BY <1>0, <1>1, QueueStepDoes DEF Serves
  <2>3. ASSUME NEW t \in Threads, NEW r \in Requests, job'[t] = r, r \notin answered
        PROVE  t \in Workers /\ Serves(t, r[1])' /\ gpc'[t] \in Asking /\ Open(r)'
    <3>1. job[t] = r BY <1>0, <1>02, <1>1, <2>3, QueueStepDoes
    <3>2. t \in Workers /\ Serves(t, r[1]) /\ gpc[t] \in Asking /\ Open(r)
      BY <2>3, <3>1 DEF Outstanding
    <3>3. gpc'[t] \in Asking BY <1>0, <1>02, <1>1, <2>3, <3>2, QueueStepDoes
    <3> QED BY <1>02, <2>1, <2>2, <3>2, <3>3
  <2>4. ASSUME NEW w \in Workers, NEW r \in Requests, okToExecute'[w], runMe'[w] = r, r \notin answered
        PROVE  Open(r)' /\ \E v \in Workers : Serves(v, r[1])' /\ gpc'[v] = "buzz"
    <3>1. CASE okToExecute[w] /\ runMe[w] = r
      <4>1. PICK v \in Workers : Serves(v, r[1]) /\ gpc[v] = "buzz" BY <2>4, <3>1 DEF Outstanding
      <4>2. gpc'[v] = "buzz" BY <1>0, <1>1, <4>1, QueueStepDoes
      <4> QED BY <1>02, <2>1, <2>2, <2>4, <3>1, <4>1, <4>2 DEF Outstanding
    <3>2. CASE \E t \in Threads : job[t] = r /\ (t \in Workers => gpc'[t] = "buzz")
      <4>1. PICK t \in Threads : job[t] = r /\ (t \in Workers => gpc'[t] = "buzz") BY <3>2
      <4>2. t \in Workers /\ Serves(t, r[1]) /\ Open(r) BY <2>4, <4>1 DEF Outstanding
      <4> QED BY <1>02, <2>1, <2>2, <4>1, <4>2
    <3> QED BY <1>0, <1>02, <1>1, <2>4, <3>1, <3>2, QueueStepDoes
  <2> QED BY <1>1, <2>3, <2>4 DEF Outstanding
\* A step that leaves the queue, the buzzers and the numbers of requests read alone.
<1>2. ASSUME UNCHANGED <<qVars, read, signalSent, answered>> PROVE Outstanding'
  BY <1>2 DEF Outstanding, Open, Serves, qVars, workerVars, callVars
<1>3. ASSUME NEW c \in Conns, sendRequest(c) \/ closeConnection(c) PROVE Outstanding'
  BY <1>2, <1>3 DEF sendRequest, closeConnection
<1>4. ASSUME NEW c \in Conns, accept(c) PROVE Outstanding'
  <2>1. UNCHANGED <<workerVars, read, signalSent, answered>> BY <1>4 DEF accept, callGetWorker
  <2>2. \A t \in Threads : t # listener => gpc'[t] = gpc[t] /\ job'[t] = job[t]
    BY <1>0, <1>4 DEF accept, callGetWorker, Types
  <2>3. job'[listener] = c BY <1>0, <1>4, ThreadSets DEF accept, callGetWorker, Types
  <2>4. \A r \in Requests : r # c BY RequestParts
  <2> QED BY <2>1, <2>2, <2>3, <2>4, ThreadSets DEF Outstanding, Open, Serves, workerVars
<1>5. CASE testAllDone BY <1>2, <1>5 DEF testAllDone
<1>6. ASSUME NEW w \in Workers, NEW c \in Conns, readRequest(w, c) PROVE Outstanding'
  <2>1. PICK n \in Requests : n = <<c, read[c] + 1>> /\ n \notin asked /\ n \notin answered
    BY <1>0, <1>6, NextIsNew DEF readRequest
  <2>2. /\ UNCHANGED <<workerVars, answered>> /\ Reading(w, c)
        /\ \A t \in Threads : t # w => gpc'[t] = gpc[t] /\ job'[t] = job[t]
        /\ job'[w] = n /\ gpc'[w] = "enter"
    BY <1>0, <1>6, <2>1, ThreadSets DEF readRequest, callGetWorker, Types
  <2>3. \A d \in Conns : d # c => read'[d] = read[d] /\ signalSent'[d] = signalSent[d]
    BY <1>0, <1>6 DEF readRequest, ServerTypes
  <2>4. read'[c] = read[c] + 1 /\ signalSent'[c] = FALSE
    BY <1>0, <1>6 DEF readRequest, ServerTypes
  <2>5. n[1] = c /\ n[2] = read[c] + 1 BY <2>1
  <2>6. \A v, d : Serves(v, d)' = Serves(v, d) BY <2>2 DEF Serves, workerVars
  <2>7. Open(n)' BY <2>4, <2>5 DEF Open
  <2>8. ASSUME NEW t \in Threads, NEW r \in Requests, job'[t] = r, r \notin answered
        PROVE  t \in Workers /\ Serves(t, r[1])' /\ gpc'[t] \in Asking /\ Open(r)'
    <3>1. CASE t = w BY <2>2, <2>5, <2>6, <2>7, <2>8, <3>1 DEF Reading, Asking
    <3>2. CASE t # w
      <4>1. job[t] = r BY <2>2, <2>8, <3>2
      <4>2. t \in Workers /\ Serves(t, r[1]) /\ gpc[t] \in Asking /\ Open(r) BY <2>8, <4>1 DEF Outstanding
      <4>3. r[1] # c BY <1>03, <2>2, <2>8, <4>1
      <4>4. Open(r)' BY <1>02, <2>3, <4>2, <4>3 DEF Open
      <4> QED BY <2>2, <2>6, <3>2, <4>2, <4>4
    <3> QED BY <3>1, <3>2
  <2>9. ASSUME NEW v \in Workers, NEW r \in Requests, okToExecute'[v], runMe'[v] = r, r \notin answered
        PROVE  Open(r)' /\ \E x \in Workers : Serves(x, r[1])' /\ gpc'[x] = "buzz"
    <3>1. okToExecute[v] /\ runMe[v] = r BY <2>2, <2>9 DEF workerVars
    <3>2. Open(r) /\ r[1] # c BY <1>03, <2>2, <2>9, <3>1 DEF Outstanding
    <3>3. Open(r)' BY <1>02, <2>3, <3>2 DEF Open
    <3>4. PICK x \in Workers : Serves(x, r[1]) /\ gpc[x] = "buzz" BY <2>9, <3>1 DEF Outstanding
    <3>5. x # w BY <2>2, <3>4 DEF Reading
    <3> QED BY <2>2, <2>6, <3>3, <3>4, <3>5, ThreadSets
  <2> QED BY <2>2, <2>8, <2>9 DEF Outstanding
\* The worker of a connection is done with it.
<1>7. ASSUME NEW w \in Workers, NEW c \in Conns,
             readUnknown(w, c) \/ readShutDown(w, c) \/ readClose(w, c)
      PROVE  Outstanding'
  <2>1. Reading(w, c) /\ workReturns(w) /\ UNCHANGED signalSent /\ answered \subseteq answered'
        /\ \A d \in Conns : d # c => read'[d] = read[d]
    BY <1>0, <1>7 DEF readUnknown, readShutDown, readClose, ServerTypes
  <2>2. UNCHANGED <<okToExecute, runMe, gpc, job>> /\ \A v \in Workers : v # w => wpc'[v] = wpc[v]
    BY <1>0, <2>1 DEF workReturns, callVars, Types
  <2>3. \A r \in Requests : r[1] # c => Open(r)' = Open(r) BY <1>02, <2>1 DEF Open
  <2>4. \A v \in Workers : v # w => \A d : Serves(v, d)' = Serves(v, d) BY <2>2 DEF Serves
  <2>5. ASSUME NEW t \in Threads, NEW r \in Requests, job'[t] = r, r \notin answered'
        PROVE  t \in Workers /\ Serves(t, r[1])' /\ gpc'[t] \in Asking /\ Open(r)'
    <3>1. job[t] = r /\ r \notin answered BY <2>1, <2>2, <2>5
    <3>2. t \in Workers /\ Serves(t, r[1]) /\ gpc[t] \in Asking /\ Open(r) BY <3>1 DEF Outstanding
    <3>3. r[1] # c BY <1>03, <2>1, <3>1
    <3>4. t # w BY <2>1, <3>2 DEF Reading, Asking
    <3> QED BY <2>2, <2>3, <2>4, <3>2, <3>3, <3>4
  <2>6. ASSUME NEW v \in Workers, NEW r \in Requests, okToExecute'[v], runMe'[v] = r, r \notin answered'
        PROVE  Open(r)' /\ \E x \in Workers : Serves(x, r[1])' /\ gpc'[x] = "buzz"
    <3>1. okToExecute[v] /\ runMe[v] = r /\ r \notin answered BY <2>1, <2>2, <2>6
    <3>2. Open(r) /\ r[1] # c BY <1>03, <2>1, <3>1 DEF Outstanding
    <3>3. PICK x \in Workers : Serves(x, r[1]) /\ gpc[x] = "buzz" BY <3>1 DEF Outstanding
    <3>4. x # w BY <2>1, <3>3 DEF Reading
    <3> QED BY <2>2, <2>3, <2>4, <3>2, <3>3, <3>4
  <2> QED BY <2>5, <2>6 DEF Outstanding
\* The buzzer that ends the wait has been used, so the request is answered.
<1>8. ASSUME NEW w \in Workers, NEW c \in Conns, wait(w, c) PROVE Outstanding'
  <2>1. /\ Serves(w, c) /\ gpc[w] = "buzz" /\ signalSent[c]
        /\ UNCHANGED <<workerVars, job, answered, read, signalSent>>
        /\ \A t \in Threads : t # w => gpc'[t] = gpc[t]
    BY <1>0, <1>8, ThreadSets DEF wait, Types
  <2>2. \A v, d : Serves(v, d)' = Serves(v, d) BY <2>1 DEF Serves, workerVars
  <2>3. \A r : Open(r)' = Open(r) BY <2>1 DEF Open
  <2>4. \A r \in Requests : r[1] = c => ~Open(r) BY <2>1 DEF Open
  <2>5. \A t \in Threads, r \in Requests : job[t] = r /\ r \notin answered => t # w
    BY <2>1 DEF Outstanding, Asking
  <2>6. ASSUME NEW v \in Workers, NEW r \in Requests, okToExecute'[v], runMe'[v] = r, r \notin answered
        PROVE  Open(r)' /\ \E x \in Workers : Serves(x, r[1])' /\ gpc'[x] = "buzz"
    <3>1. okToExecute[v] /\ runMe[v] = r BY <2>1, <2>6 DEF workerVars
    <3>2. Open(r) /\ r[1] # c BY <2>4, <2>6, <3>1 DEF Outstanding
    <3>3. PICK x \in Workers : Serves(x, r[1]) /\ gpc[x] = "buzz" BY <2>6, <3>1 DEF Outstanding
    <3>4. x # w BY <1>02, <2>1, <3>2, <3>3 DEF Serves
    <3> QED BY <2>1, <2>2, <2>3, <3>2, <3>3, <3>4, ThreadSets
  <2> QED BY <2>1, <2>2, <2>3, <2>5, <2>6 DEF Outstanding
<1>9. ASSUME NEW w \in Workers, NEW r \in Requests, buzz(w, r) PROVE Outstanding'
  <2>1. UNCHANGED <<workerVars, callVars, read>> /\ answered' = answered \cup {r}
        /\ \A d \in Conns : d # r[1] => signalSent'[d] = signalSent[d]
    BY <1>0, <1>9 DEF buzz, qVars, ServerTypes
  <2>2. r \notin answered /\ Open(r)
    BY <1>9 DEF buzz, Outstanding, Inv, Places
  <2>3. ASSUME NEW q \in Requests, q \notin answered', Open(q) PROVE Open(q)'
    <3>1. q # r BY <2>1, <2>3
    <3>2. q[1] # r[1] BY <2>2, <2>3, <3>1, RequestParts DEF Open
    <3> QED BY <1>02, <2>1, <2>3, <3>2 DEF Open
  <2>4. \A v, d : Serves(v, d)' = Serves(v, d) BY <2>1 DEF Serves, workerVars
  <2> QED BY <2>1, <2>3, <2>4 DEF Outstanding, workerVars, callVars
<1>10. ASSUME NEW w \in Workers, handlerReturns(w) PROVE Outstanding'
  <2>1. /\ UNCHANGED <<okToExecute, runMe, gpc, job, read, signalSent, answered>>
        /\ \A v \in Workers : v # w => wpc'[v] = wpc[v]
    BY <1>0, <1>10 DEF handlerReturns, workReturns, callVars, Types
  <2>2. \A d \in Conns : ~Serves(w, d)
    BY <1>0, <1>10, RequestParts DEF handlerReturns, Serves, ServerTypes
  <2>3. \A v \in Workers, d \in Conns : Serves(v, d) => Serves(v, d)' BY <2>1, <2>2 DEF Serves
  <2> QED BY <1>02, <2>1, <2>3 DEF Outstanding, Open
<1>11. CASE UNCHANGED sVars BY <1>2, <1>11 DEF sVars
<1> QED BY <1>1, <1>3, <1>4, <1>5, <1>6, <1>7, <1>8, <1>9, <1>10, <1>11, ServerStepCases DEF ServerCases

\* Nothing is outstanding when the server starts.
LEMMA ServerInitial == ServerInit => Inv /\ ServerInv /\ Outstanding
<1> SUFFICES ASSUME ServerInit PROVE Inv /\ ServerInv /\ Outstanding OBVIOUS
<1>1. Inv BY Initial DEF ServerInit
<1>2. ServerInv
  BY ServerAssumption, ThreadSets DEF ServerInit, QueueInit, ServerInv, ServerTypes, ReadFirst, CallersServe
<1>3. Outstanding
  <2>1. \A r \in Requests : r # nullptr BY RequestParts, QueueAssumption
  <2> QED BY <2>1 DEF ServerInit, QueueInit, Outstanding
<1> QED BY <1>1, <1>2, <1>3

\* The workers of the server keep the invariant of the queue, although they ask for workers
\* themselves: what is proved of the queue holds in the server.
THEOREM ServerInvariance == ServerSpec => [](Inv /\ ServerInv)
  BY ServerInitial, ServerKeepsQueue, ServerInvKept, PTL DEF ServerSpec

\* handleOneRequest never gets nullptr from getWorker(): its own worker is alive and counted.
THEOREM WorkersGetWorkersCorrect == ServerSpec => []WorkersGetWorkers
<1>1. Inv /\ ServerInv => WorkersGetWorkers
  <2> SUFFICES ASSUME Inv, ServerInv, NEW w \in Workers, gpc[w] = "null" PROVE FALSE
    BY DEF WorkersGetWorkers
  <2>1. wpc[w] = "run" BY DEF ServerInv, CallersServe
  <2>2. Cardinality(Alive) # 0 BY <2>1, OneLess
  <2> QED BY <2>2, ThreadSets DEF Inv, Counted
<1> QED BY <1>1, ServerInvariance, PTL

\* The worker of a connection and the handler of its request never use the connection at
\* the same time, as long as the wait for the buzzer does not return without a buzz.
THEOREM OneReaderCorrect ==
  ASSUME ~Spurious
  PROVE  ServerSpec => []OneReader
<1>1. Inv /\ ServerInv /\ Inv' /\ ServerInv' /\ Outstanding /\ [ServerNext]_sVars => Outstanding'
  BY OutstandingKept
<1>2. Inv /\ Outstanding => OneReader
  <2> SUFFICES ASSUME Inv, Outstanding, NEW w \in Workers, NEW v \in Workers, NEW r \in Requests,
                      wpc[w] = "run", runMe[w] = r, r \notin answered, Reading(v, r[1])
               PROVE  FALSE
    BY DEF OneReader
  <2>1. okToExecute[w] BY DEF Inv, Places
  <2>2. PICK x \in Workers : Serves(x, r[1]) /\ gpc[x] = "buzz" BY <2>1 DEF Outstanding
  <2>3. okToExecute[x] /\ okToExecute[v] BY <2>2 DEF Inv, Places, Serves, Reading
  <2>4. r[1] \in Jobs BY RequestParts
  <2>5. x = v BY <2>2, <2>3, <2>4 DEF Inv, JobsOnce, Serves, Reading
  <2> QED BY <2>2, <2>5 DEF Reading
<1> QED BY <1>1, <1>2, ServerInitial, ServerInvariance, PTL DEF ServerSpec

=============================================================================
