------------------------------- MODULE PDBBuzzer -------------------------------
(***************************************************************************)
(* The buzzer of work/source/PDBBuzzer.cc in the way every parallel job of *)
(* the system uses it: one thread hands work to several workers and runs   *)
(*      while (counter < n) buzzer->wait();                                *)
(* and each worker ends with buzz(WorkAllDone, counter), whose function    *)
(* adds one to the counter, or, in the error paths of PDBScanWork, with    *)
(* buzz(GenericError), for which such a buzzer has no function.            *)
(*                                                                         *)
(* buzz() is one critical section of waitingMutex.  The loop reads counter *)
(* outside of it, so the test and the call of wait() are separate steps.   *)
(***************************************************************************)
EXTENDS Naturals, FiniteSets

CONSTANT Workers   \* the threads that buzz, once each

ASSUME BuzzerAssumption == IsFiniteSet(Workers)

VARIABLES
  signalSent,
  counter,      \* what the function of the buzzer counts
  state,        \* the waiting thread: "test", "lock", "asleep" or "done"
  buzzed        \* the workers that have buzzed

vars == <<signalSent, counter, state, buzzed>>

n == Cardinality(Workers)

Init ==
  /\ signalSent = FALSE /\ counter = 0
  /\ state = "test"
  /\ buzzed = {}

-----------------------------------------------------------------------------
\* pthread_cond_signal: the waiting thread, if it sleeps, is woken; wait() returns.
Signal == state' = IF state = "asleep" THEN "test" ELSE state

\* Mutant: a signal that finds nobody waiting is not remembered.
remember_Never == UNCHANGED signalSent

remember == signalSent' = TRUE

\* buzz(withMe, counter): the function, the signal, the flag.
buzz(w) ==
  /\ w \notin buzzed
  /\ counter' = counter + 1
  /\ Signal /\ remember
  /\ buzzed' = buzzed \cup {w}

\* buzz(withMe) on the same buzzer: there is no noStringFunc to invoke.
buzzError(w) ==
  /\ w \notin buzzed
  /\ Signal /\ remember
  /\ buzzed' = buzzed \cup {w}
  /\ UNCHANGED counter

\* Mutant: the loop ends one worker too early.
testCounter_OffByOne ==
  /\ state = "test"
  /\ state' = IF counter + 1 < n THEN "lock" ELSE "done"
  /\ UNCHANGED <<signalSent, counter, buzzed>>

\* while (counter < n)
testCounter ==
  /\ state = "test"
  /\ state' = IF counter < n THEN "lock" ELSE "done"
  /\ UNCHANGED <<signalSent, counter, buzzed>>

\* Mutant: wait() sleeps without looking at signalSent.
wait_Sleeps ==
  /\ state = "lock" /\ state' = "asleep"
  /\ UNCHANGED <<signalSent, counter, buzzed>>

\* wait(): a signal that was sent before is used up, otherwise the thread sleeps.
wait ==
  /\ state = "lock"
  /\ IF signalSent
       THEN state' = "test" /\ signalSent' = FALSE
       ELSE state' = "asleep" /\ UNCHANGED signalSent
  /\ UNCHANGED <<counter, buzzed>>

spuriousWakeup ==
  /\ state = "asleep"
  /\ state' = "test"
  /\ UNCHANGED <<signalSent, counter, buzzed>>

Done == state = "done" /\ buzzed = Workers

Next ==
  \/ \E w \in Workers : buzz(w) \/ buzzError(w)
  \/ testCounter \/ wait \/ spuriousWakeup
  \/ Done /\ UNCHANGED vars

Spec == Init /\ [][Next]_vars

-----------------------------------------------------------------------------
(* Properties *)

\* Every variable has its type; the counter never passes the number of workers.
TypeOK ==
  /\ signalSent \in BOOLEAN /\ counter \in 0 .. n
  /\ state \in {"test", "lock", "asleep", "done"}
  /\ buzzed \subseteq Workers

\* No worker that has buzzed so far took its error path.
AllCounted == counter = Cardinality(buzzed)

\* A thread asleep in wait() still has a worker to wait for: no buzz that was
\* counted, at whatever moment between the test of the counter and the sleep it
\* came, is lost (signalSent in buzz() and wait()).
SleeperWillBeWoken == state = "asleep" /\ AllCounted => ~signalSent /\ buzzed # Workers

\* The thread goes on only after every worker has buzzed, although wait()
\* returns more often than that and some workers may fail.
DoneAfterAll == state = "done" => buzzed = Workers

=============================================================================
