--------------------------- MODULE PageCircularBuffer ---------------------------
(***************************************************************************)
(* The blocking ring of pages of src/storage/source/PageCircularBuffer.cc, *)
(* with its iterator.  It is the flush buffer of the storage server, the   *)
(* receive buffer of the page scanner and the hand-over buffer of the      *)
(* shuffle, broadcast, combiner and aggregation pipelines.                 *)
(*                                                                         *)
(* Producers serialise on addPageMutex, consumers on mutex: the two sides  *)
(* touch pageArrayHead, pageArrayTail and the slots under different locks. *)
(* Every access to them that the other side can observe is a step of its   *)
(* own.  A shared_ptr assignment is one step (it is not atomic in C++, so  *)
(* the code can do worse than this model, never better).                   *)
(***************************************************************************)
EXTENDS Naturals, FiniteSets

CONSTANTS Producers,   \* threads that call addPageToTail
          Consumers,   \* threads that loop on an iterator over the buffer
          Pages,       \* the pages handed over, each one once
          bufferSize,  \* argument of the constructor
          nullptr

ASSUME BufferAssumption ==
  /\ bufferSize \in Nat \ {0}
  /\ nullptr \notin Pages
  /\ Consumers # {}
  /\ nullptr \notin Producers \cup Consumers

maxArraySize == bufferSize + 1

Slots == 0 .. maxArraySize - 1

VARIABLES
  pageArray, pageArrayHead, pageArrayTail, closed,
  addPageMutex,   \* the producer that holds it, or nullptr
  mutex,          \* the consumer that holds it, or nullptr
  pstate,         \* where each producer is in addPageToTail
  page,           \* the argument of each producer's call
  cstate,         \* where each consumer is in hasNext / popPageFromHead
  ret,            \* the local variable of popPageFromHead
  added,          \* history: pages addPageToTail was called with
  got,            \* history: pages popPageFromHead returned
  gap             \* history: a pop took nullptr out of a buffer that was not empty

bufVars == <<pageArray, pageArrayHead, pageArrayTail, closed>>
pVars == <<addPageMutex, pstate, page, added>>
cVars == <<mutex, cstate, ret, got, gap>>
vars == <<bufVars, pVars, cVars>>

PStates == {"idle", "full", "store", "notify"}
CStates == {"loop", "enter", "waiting", "woken", "test", "take", "clear", "done"}

-----------------------------------------------------------------------------
\* Mutant: the spare slot that tells a full ring from an empty one is forgotten.
isFull_NoSpareSlot == FALSE

isFull == pageArrayHead = (pageArrayTail + 1) % maxArraySize
isEmpty == pageArrayHead = pageArrayTail
getSize == ((pageArrayTail + maxArraySize) - pageArrayHead) % maxArraySize
\* Mutant: `&&' for `||'.
hasNext_And == ~closed /\ ~isEmpty

hasNext == ~closed \/ ~isEmpty

initArray ==
  /\ pageArray = [i \in Slots |-> nullptr]
  /\ pageArrayHead = 0
  /\ pageArrayTail = 0

Init ==
  /\ initArray
  /\ closed = FALSE
  /\ addPageMutex = nullptr /\ mutex = nullptr
  /\ pstate = [p \in Producers |-> "idle"]
  /\ page = [p \in Producers |-> nullptr]
  /\ cstate = [c \in Consumers |-> "loop"]
  /\ ret = [c \in Consumers |-> nullptr]
  /\ added = {} /\ got = {} /\ gap = FALSE

Waiting == {c \in Consumers : cstate[c] = "waiting"}

\* pthread_cond_signal and pthread_cond_broadcast on cond
Signal ==
  \/ Waiting = {} /\ UNCHANGED cstate
  \/ \E c \in Waiting : cstate' = [cstate EXCEPT ![c] = "woken"]

Broadcast ==
  cstate' = [c \in Consumers |-> IF c \in Waiting THEN "woken" ELSE cstate[c]]

-----------------------------------------------------------------------------
(* addPageToTail *)

\* pthread_mutex_lock(&addPageMutex)
AddLock(p, pg) ==
  /\ pstate[p] = "idle" /\ ~closed
  /\ addPageMutex = nullptr
  /\ pg \notin added
  /\ addPageMutex' = p
  /\ pstate' = [pstate EXCEPT ![p] = "full"]
  /\ page' = [page EXCEPT ![p] = pg]
  /\ added' = added \cup {pg}
  /\ UNCHANGED <<bufVars, cVars>>

\* one turn of the while (isFull()) loop: signal without the mutex, yield
AddSpin(p) ==
  /\ pstate[p] = "full" /\ isFull
  /\ Signal
  /\ UNCHANGED <<bufVars, pVars, mutex, ret, got, gap>>

\* the tail moves before the slot is written
AddAdvance(p) ==
  /\ pstate[p] = "full" /\ ~isFull
  /\ pageArrayTail' = (pageArrayTail + 1) % maxArraySize
  /\ pstate' = [pstate EXCEPT ![p] = "store"]
  /\ UNCHANGED <<pageArray, pageArrayHead, closed, addPageMutex, page, added, cVars>>

\* write the slot and unlock addPageMutex
AddStore(p) ==
  /\ pstate[p] = "store"
  /\ pageArray' = [pageArray EXCEPT ![pageArrayTail] = page[p]]
  /\ addPageMutex' = nullptr
  /\ pstate' = [pstate EXCEPT ![p] = "notify"]
  /\ UNCHANGED <<pageArrayHead, pageArrayTail, closed, page, added, cVars>>

\* Mutant: consumers are woken only by the page that ends the empty state.
AddNotify_OnlyFirst(p) ==
  /\ pstate[p] = "notify"
  /\ mutex = nullptr
  /\ IF getSize = 1 THEN Broadcast ELSE UNCHANGED cstate
  /\ pstate' = [pstate EXCEPT ![p] = "idle"]
  /\ page' = [page EXCEPT ![p] = nullptr]
  /\ UNCHANGED <<bufVars, addPageMutex, added, mutex, ret, got, gap>>

\* wake consumers under mutex and return
AddNotify(p) ==
  /\ pstate[p] = "notify"
  /\ mutex = nullptr
  /\ IF getSize <= 2 THEN Broadcast ELSE Signal
  /\ pstate' = [pstate EXCEPT ![p] = "idle"]
  /\ page' = [page EXCEPT ![p] = nullptr]
  /\ UNCHANGED <<bufVars, addPageMutex, added, mutex, ret, got, gap>>

-----------------------------------------------------------------------------
(* The consumer's loop: while (iter->hasNext()) page = iter->next() *)

LoopTest(c) ==
  /\ cstate[c] = "loop"
  /\ cstate' = [cstate EXCEPT ![c] = IF hasNext THEN "enter" ELSE "done"]
  /\ UNCHANGED <<bufVars, pVars, mutex, ret, got, gap>>

\* lock mutex; an empty open buffer makes the thread wait, once, on cond
PopEnter(c) ==
  /\ cstate[c] = "enter"
  /\ mutex = nullptr
  /\ \/ /\ isEmpty /\ ~closed
        /\ cstate' = [cstate EXCEPT ![c] = "waiting"]
        /\ UNCHANGED mutex
     \/ /\ ~(isEmpty /\ ~closed)
        /\ cstate' = [cstate EXCEPT ![c] = "test"]
        /\ mutex' = c
  /\ UNCHANGED <<bufVars, pVars, ret, got, gap>>

\* POSIX lets pthread_cond_wait return without a signal
SpuriousWake(c) ==
  /\ cstate[c] = "waiting"
  /\ cstate' = [cstate EXCEPT ![c] = "woken"]
  /\ UNCHANGED <<bufVars, pVars, mutex, ret, got, gap>>

PopReacquire(c) ==
  /\ cstate[c] = "woken"
  /\ mutex = nullptr
  /\ mutex' = c
  /\ cstate' = [cstate EXCEPT ![c] = "test"]
  /\ UNCHANGED <<bufVars, pVars, ret, got, gap>>

\* nothing there, although the thread was woken or the buffer closed
PopNothing(c) ==
  /\ cstate[c] = "test" /\ isEmpty
  /\ mutex' = nullptr
  /\ cstate' = [cstate EXCEPT ![c] = "loop"]
  /\ UNCHANGED <<bufVars, pVars, ret, got, gap>>

PopAdvance(c) ==
  /\ cstate[c] = "test" /\ ~isEmpty
  /\ pageArrayHead' = (pageArrayHead + 1) % maxArraySize
  /\ cstate' = [cstate EXCEPT ![c] = "take"]
  /\ UNCHANGED <<pageArray, pageArrayTail, closed, pVars, mutex, ret, got, gap>>

PopTake(c) ==
  /\ cstate[c] = "take"
  /\ ret' = [ret EXCEPT ![c] = pageArray[pageArrayHead]]
  /\ cstate' = [cstate EXCEPT ![c] = "clear"]
  /\ gap' = (gap \/ pageArray[pageArrayHead] = nullptr)
  /\ UNCHANGED <<bufVars, pVars, mutex, got>>

\* Mutant: the slot keeps its page.
PopClear_KeepSlot(c) ==
  /\ cstate[c] = "clear"
  /\ got' = got \cup ({ret[c]} \ {nullptr})
  /\ mutex' = nullptr
  /\ ret' = [ret EXCEPT ![c] = nullptr]
  /\ cstate' = [cstate EXCEPT ![c] = "loop"]
  /\ UNCHANGED <<bufVars, pVars, gap>>

\* clear the slot, unlock mutex and return ret
PopClear(c) ==
  /\ cstate[c] = "clear"
  /\ pageArray' = [pageArray EXCEPT ![pageArrayHead] = nullptr]
  /\ got' = got \cup ({ret[c]} \ {nullptr})
  /\ mutex' = nullptr
  /\ ret' = [ret EXCEPT ![c] = nullptr]
  /\ cstate' = [cstate EXCEPT ![c] = "loop"]
  /\ UNCHANGED <<pageArrayHead, pageArrayTail, closed, pVars, gap>>

\* Mutant: the waiting consumers are not told.
close_NoBroadcast ==
  /\ ~closed /\ mutex = nullptr
  /\ added = Pages /\ \A p \in Producers : pstate[p] = "idle"
  /\ closed' = TRUE
  /\ UNCHANGED <<pageArray, pageArrayHead, pageArrayTail, pVars, cVars>>

\* close(): the owner of the buffer calls it when the producers are through
close ==
  /\ ~closed /\ mutex = nullptr
  /\ added = Pages /\ \A p \in Producers : pstate[p] = "idle"
  /\ closed' = TRUE
  /\ Broadcast
  /\ UNCHANGED <<pageArray, pageArrayHead, pageArrayTail, pVars, mutex, ret, got, gap>>

-----------------------------------------------------------------------------
addPageToTail(p) ==
  \/ \E pg \in Pages : AddLock(p, pg)
  \/ AddSpin(p) \/ AddAdvance(p) \/ AddStore(p) \/ AddNotify(p)

popPageFromHead(c) ==
  \/ PopEnter(c) \/ PopReacquire(c) \/ PopNothing(c)
  \/ PopAdvance(c) \/ PopTake(c) \/ PopClear(c)

Terminated == \A c \in Consumers : cstate[c] = "done"

Next ==
  \/ \E p \in Producers : addPageToTail(p)
  \/ \E c \in Consumers : LoopTest(c) \/ popPageFromHead(c) \/ SpuriousWake(c)
  \/ close
  \/ Terminated /\ UNCHANGED vars

Spec == Init /\ [][Next]_vars

\* Every thread that can run is scheduled, and spurious wake-ups stop.
Fairness ==
  /\ \A p \in Producers : WF_vars(addPageToTail(p))
  /\ \A c \in Consumers : WF_vars(LoopTest(c) \/ popPageFromHead(c))
  /\ WF_vars(close)
  /\ <>[][\A c \in Consumers : ~SpuriousWake(c)]_vars

FairSpec == Spec /\ Fairness

-----------------------------------------------------------------------------
(* Properties *)

TypeOK ==
  /\ pageArray \in [Slots -> Pages \cup {nullptr}]
  /\ pageArrayHead \in Slots /\ pageArrayTail \in Slots
  /\ closed \in BOOLEAN /\ gap \in BOOLEAN
  /\ addPageMutex \in Producers \cup {nullptr}
  /\ mutex \in Consumers \cup {nullptr}
  /\ pstate \in [Producers -> PStates]
  /\ page \in [Producers -> Pages \cup {nullptr}]
  /\ cstate \in [Consumers -> CStates]
  /\ ret \in [Consumers -> Pages \cup {nullptr}]
  /\ added \subseteq Pages /\ got \subseteq Pages

\* No page is returned by two calls of popPageFromHead, whatever the race
\* between the store of a slot and its removal does to the ring.
ReturnedOnce == \A c \in Consumers : cstate[c] = "clear" => ret[c] \notin got

\* The consumers never all sleep in pthread_cond_wait on a buffer that has
\* pages, unless a producer is still on its way to the signal: a single `if'
\* around the wait and signals sent without the mutex lose no wake-up.
NoLostWakeup ==
  (~isEmpty /\ Waiting = Consumers) =>
     \E p \in Producers : pstate[p] \in {"store", "notify"}

\* The slots after the head, up to the tail
Live == {(pageArrayHead + k) % maxArraySize : k \in 1 .. getSize}

InTransit(pg) ==
  \/ \E p \in Producers : pstate[p] \in {"full", "store"} /\ page[p] = pg
  \/ \E i \in Live : pageArray[i] = pg
  \/ \E c \in Consumers :
       \/ cstate[c] = "take" /\ pageArray[pageArrayHead] = pg
       \/ cstate[c] = "clear" /\ ret[c] = pg

\* As long as no pop has taken nullptr out of a non-empty buffer, every page
\* passed to addPageToTail has been returned or still can be: the ring never
\* overwrites or skips a page, full or not.
KeptUnlessGap == ~gap => \A pg \in added \ got : InTransit(pg)

\* addPageToTail returns: a full buffer is drained by the consumers.
AddReturns == \A p \in Producers : pstate[p] # "idle" ~> pstate[p] = "idle"

\* Once the buffer is closed every consumer leaves its loop.
ConsumersFinish == closed ~> Terminated
=============================================================================
