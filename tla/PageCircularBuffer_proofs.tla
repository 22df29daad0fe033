------------------------ MODULE PageCircularBuffer_proofs ------------------------
(***************************************************************************)
(* Proofs about the ring for every number of producers, consumers, pages   *)
(* and places.  ReturnedOnce is not inductive: it needs to know who holds  *)
(* the two locks and that a page is at one place at a time (RingInv).      *)
(* KeptUnlessGap needs in addition that places out of use are empty, so    *)
(* that a store overwrites nothing (GapInv).                               *)
(***************************************************************************)
EXTENDS PageCircularBuffer, TLAPS

\* The thread inside a critical section is the holder of its lock.
LockInv ==
  /\ \A c \in Consumers : cstate[c] \in {"test", "take", "clear"} <=> mutex = c
  /\ \A p \in Producers : pstate[p] \in {"full", "store"} <=> addPageMutex = p

Pending(p) == pstate[p] \in {"full", "store"}
Taken(c) == cstate[c] = "clear" /\ ret[c] # nullptr

\* A page that is nowhere yet has not been added.
KnownInv ==
  /\ got \subseteq added
  /\ \A i \in Slots : pageArray[i] # nullptr => pageArray[i] \in added
  /\ \A c \in Consumers : ret[c] # nullptr => ret[c] \in added
  /\ \A p \in Producers : Pending(p) => page[p] \in added

\* A page is with one producer, in one slot, with one consumer, or returned;
\* only the slot being cleared still shows the page its consumer has taken.
PlaceInv ==
  /\ \A p \in Producers : Pending(p) =>
       /\ page[p] \notin got
       /\ \A i \in Slots : pageArray[i] # page[p]
       /\ \A c \in Consumers : ret[c] # page[p]
  /\ \A i, j \in Slots : pageArray[i] # nullptr /\ pageArray[i] = pageArray[j] => i = j
  /\ \A i \in Slots : pageArray[i] \notin got
  /\ \A c \in Consumers : Taken(c) =>
       /\ ret[c] \notin got
       /\ \A i \in Slots : pageArray[i] = ret[c] => i = pageArrayHead

RingInv == TypeOK /\ LockInv /\ KnownInv /\ PlaceInv

\* Facts about the indices: a step of the head or of the tail stays in the ring.
LEMMA SlotStep == \A i \in Slots : (i + 1) % maxArraySize \in Slots
  BY BufferAssumption, SMT DEF Slots, maxArraySize

\* The initial ring is type correct (constructor and initArray).
LEMMA InitType == Init => TypeOK
<1>1. 0 \in Slots
  BY BufferAssumption, SMT DEF Slots, maxArraySize
<1> QED
  BY <1>1 DEF Init, initArray, TypeOK, PStates, CStates

\* pthread_cond_signal and pthread_cond_broadcast leave every consumer in a known state.
LEMMA WakeType ==
  ASSUME TypeOK, Signal \/ Broadcast
  PROVE  /\ cstate' \in [Consumers -> CStates]
         /\ \A c \in Consumers : cstate'[c] = cstate[c] \/ (cstate[c] = "waiting" /\ cstate'[c] = "woken")
  BY DEF TypeOK, Signal, Broadcast, Waiting, CStates

\* Every step of addPageToTail, of the consumer's loop and of close keeps the types.
LEMMA StepType == TypeOK /\ [Next]_vars => TypeOK'
<1> SUFFICES ASSUME TypeOK, [Next]_vars PROVE TypeOK'
  OBVIOUS
<1> USE DEF TypeOK, bufVars, pVars, cVars
<1>1. ASSUME NEW p \in Producers, NEW pg \in Pages, AddLock(p, pg) PROVE TypeOK'
  BY <1>1 DEF AddLock, PStates
<1>2. ASSUME NEW p \in Producers, AddSpin(p) PROVE TypeOK'
  BY <1>2, WakeType DEF AddSpin
<1>3. ASSUME NEW p \in Producers, AddAdvance(p) PROVE TypeOK'
  BY <1>3, SlotStep DEF AddAdvance, PStates
<1>4. ASSUME NEW p \in Producers, AddStore(p) PROVE TypeOK'
  BY <1>4 DEF AddStore, PStates
<1>5. ASSUME NEW p \in Producers, AddNotify(p) PROVE TypeOK'
  <2>1. Signal \/ Broadcast
    BY <1>5 DEF AddNotify
  <2> QED BY <1>5, <2>1, WakeType DEF AddNotify, PStates
<1>6. ASSUME NEW c \in Consumers, LoopTest(c) PROVE TypeOK'
  BY <1>6 DEF LoopTest, CStates
<1>7. ASSUME NEW c \in Consumers, PopEnter(c) PROVE TypeOK'
  BY <1>7 DEF PopEnter, CStates
<1>8. ASSUME NEW c \in Consumers, PopReacquire(c) \/ PopNothing(c) \/ SpuriousWake(c) PROVE TypeOK'
  BY <1>8 DEF PopReacquire, PopNothing, SpuriousWake, CStates
<1>9. ASSUME NEW c \in Consumers, PopAdvance(c) PROVE TypeOK'
  BY <1>9, SlotStep DEF PopAdvance, CStates
<1>10. ASSUME NEW c \in Consumers, PopTake(c) PROVE TypeOK'
  BY <1>10 DEF PopTake, CStates
<1>11. ASSUME NEW c \in Consumers, PopClear(c) PROVE TypeOK'
  BY <1>11 DEF PopClear, CStates
<1>12. CASE close
  BY <1>12, WakeType DEF close
<1>13. CASE UNCHANGED vars
  BY <1>13 DEF vars
<1> QED
  BY <1>1, <1>2, <1>3, <1>4, <1>5, <1>6, <1>7, <1>8, <1>9, <1>10, <1>11, <1>12, <1>13
  DEF Next, addPageToTail, popPageFromHead

\* Every reachable state of the buffer is type correct.
THEOREM TypeCorrect == Spec => []TypeOK
  BY InitType, StepType, PTL DEF Spec

-----------------------------------------------------------------------------
\* The two locks exclude: the thread in a critical section is its lock's holder.
LEMMA StepLock == TypeOK /\ LockInv /\ [Next]_vars => LockInv'
<1> SUFFICES ASSUME TypeOK, LockInv, [Next]_vars PROVE LockInv'
  OBVIOUS
<1> USE BufferAssumption DEF TypeOK, LockInv, bufVars, pVars, cVars
<1>1. ASSUME NEW p \in Producers, NEW pg \in Pages, AddLock(p, pg) PROVE LockInv'
  BY <1>1 DEF AddLock
<1>2. ASSUME NEW p \in Producers, AddSpin(p) PROVE LockInv'
  BY <1>2, WakeType DEF AddSpin
<1>3. ASSUME NEW p \in Producers, AddAdvance(p) PROVE LockInv'
  BY <1>3 DEF AddAdvance
<1>4. ASSUME NEW p \in Producers, AddStore(p) PROVE LockInv'
  BY <1>4 DEF AddStore
<1>5. ASSUME NEW p \in Producers, AddNotify(p) PROVE LockInv'
  <2>1. Signal \/ Broadcast
    BY <1>5 DEF AddNotify
  <2> QED BY <1>5, <2>1, WakeType DEF AddNotify
<1>6. ASSUME NEW c \in Consumers, LoopTest(c) \/ SpuriousWake(c) PROVE LockInv'
  BY <1>6 DEF LoopTest, SpuriousWake
<1>7. ASSUME NEW c \in Consumers, PopEnter(c) PROVE LockInv'
  BY <1>7 DEF PopEnter
<1>8. ASSUME NEW c \in Consumers, PopReacquire(c) \/ PopNothing(c) PROVE LockInv'
  BY <1>8 DEF PopReacquire, PopNothing
<1>9. ASSUME NEW c \in Consumers, PopAdvance(c) \/ PopTake(c) PROVE LockInv'
  BY <1>9 DEF PopAdvance, PopTake
<1>10. ASSUME NEW c \in Consumers, PopClear(c) PROVE LockInv'
  BY <1>10 DEF PopClear
<1>11. CASE close
  BY <1>11, WakeType DEF close
<1>12. CASE UNCHANGED vars
  BY <1>12 DEF vars
<1> QED
  BY <1>1, <1>2, <1>3, <1>4, <1>5, <1>6, <1>7, <1>8, <1>9, <1>10, <1>11, <1>12
  DEF Next, addPageToTail, popPageFromHead

\* A step that moves no page and ends no critical section keeps both invariants
\* about the places of pages.
LEMMA QuietStep ==
  ASSUME TypeOK, KnownInv, PlaceInv,
         UNCHANGED <<pageArray, pageArrayHead, page, ret, added, got>>,
         \A p \in Producers : Pending(p)' => Pending(p),
         \A c \in Consumers : Taken(c)' => Taken(c)
  PROVE  KnownInv' /\ PlaceInv'
<1>1. KnownInv'
  BY DEF KnownInv, TypeOK
<1>2. PlaceInv'
  BY DEF PlaceInv, TypeOK
<1> QED BY <1>1, <1>2

\* Pages move between places without being copied.
LEMMA StepPlace == RingInv /\ [Next]_vars => KnownInv' /\ PlaceInv'
<1> SUFFICES ASSUME RingInv, [Next]_vars PROVE KnownInv' /\ PlaceInv'
  OBVIOUS
<1>0. TypeOK /\ LockInv /\ KnownInv /\ PlaceInv
  BY DEF RingInv
<1> USE BufferAssumption DEF bufVars, pVars, cVars
<1>1. ASSUME NEW p \in Producers, NEW pg \in Pages, AddLock(p, pg)
      PROVE  KnownInv' /\ PlaceInv'
  <2>1. KnownInv'
    BY <1>0, <1>1 DEF AddLock, KnownInv, TypeOK, Pending
  <2>2. PlaceInv'
    BY <1>0, <1>1 DEF AddLock, KnownInv, PlaceInv, TypeOK, Pending, Taken
  <2> QED BY <2>1, <2>2
<1>2. ASSUME NEW p \in Producers, AddSpin(p)
      PROVE  KnownInv' /\ PlaceInv'
  <2>1. \A c \in Consumers : Taken(c)' => Taken(c)
    BY <1>0, <1>2, WakeType DEF AddSpin, Taken
  <2> QED BY <1>0, <1>2, <2>1, QuietStep DEF AddSpin, Pending
<1>3. ASSUME NEW p \in Producers, AddAdvance(p)
      PROVE  KnownInv' /\ PlaceInv'
  BY <1>0, <1>3, QuietStep DEF AddAdvance, TypeOK, Pending, Taken
<1>4. ASSUME NEW p \in Producers, AddStore(p)
      PROVE  KnownInv' /\ PlaceInv'
  <2>1. /\ Pending(p) /\ page[p] \in added /\ page[p] \in Pages
        /\ \A q \in Producers : Pending(q)' => Pending(q) /\ q # p
    BY <1>0, <1>4 DEF AddStore, TypeOK, Pending, KnownInv
  <2>2. \A q \in Producers : ~Pending(q)'
    BY <1>0, <1>4, <2>1 DEF AddStore, TypeOK, LockInv, Pending
  <2>3. \A i \in Slots : pageArray'[i] = IF i = pageArrayTail THEN page[p] ELSE pageArray[i]
    BY <1>0, <1>4 DEF AddStore, TypeOK
  <2>4. KnownInv'
    BY <1>0, <1>4, <2>1, <2>2, <2>3 DEF AddStore, KnownInv
  <2>5. PlaceInv'
    BY <1>0, <1>4, <2>1, <2>2, <2>3 DEF AddStore, PlaceInv, Taken, TypeOK
  <2> QED BY <2>4, <2>5
<1>5. ASSUME NEW p \in Producers, AddNotify(p)
      PROVE  KnownInv' /\ PlaceInv'
  <2>1. Signal \/ Broadcast
    BY <1>5 DEF AddNotify
  <2>2. \A c \in Consumers : Taken(c)' => Taken(c)
    BY <1>0, <1>5, <2>1, WakeType DEF AddNotify, Taken
  <2>3. \A q \in Producers : Pending(q)' => Pending(q) /\ page'[q] = page[q]
    BY <1>0, <1>5 DEF AddNotify, Pending, TypeOK
  <2>4. KnownInv'
    BY <1>0, <1>5, <2>2, <2>3 DEF AddNotify, KnownInv
  <2>5. PlaceInv'
    BY <1>0, <1>5, <2>2, <2>3 DEF AddNotify, PlaceInv
  <2> QED BY <2>4, <2>5
<1>6. ASSUME NEW c \in Consumers,
             LoopTest(c) \/ PopEnter(c) \/ SpuriousWake(c) \/ PopReacquire(c) \/ PopNothing(c)
      PROVE  KnownInv' /\ PlaceInv'
  <2>1. \A d \in Consumers : Taken(d)' => Taken(d)
    BY <1>0, <1>6 DEF LoopTest, PopEnter, SpuriousWake, PopReacquire, PopNothing, Taken, TypeOK
  <2> QED BY <1>0, <1>6, <2>1, QuietStep
          DEF LoopTest, PopEnter, SpuriousWake, PopReacquire, PopNothing, Pending
<1>7. ASSUME NEW c \in Consumers, PopAdvance(c)
      PROVE  KnownInv' /\ PlaceInv'
  <2>1. \A d \in Consumers : ~Taken(d)'
    BY <1>0, <1>7 DEF PopAdvance, Taken, TypeOK, LockInv
  <2>2. KnownInv'
    BY <1>0, <1>7 DEF PopAdvance, KnownInv, Pending
  <2>3. PlaceInv'
    BY <1>0, <1>7, <2>1 DEF PopAdvance, PlaceInv, Pending
  <2> QED BY <2>2, <2>3
<1>8. ASSUME NEW c \in Consumers, PopTake(c)
      PROVE  KnownInv' /\ PlaceInv'
  <2>1. /\ ret'[c] = pageArray[pageArrayHead]
        /\ \A d \in Consumers : d # c => ret'[d] = ret[d] /\ ~Taken(d)'
    BY <1>0, <1>8 DEF PopTake, Taken, TypeOK, LockInv
  <2>2. KnownInv'
    BY <1>0, <1>8, <2>1 DEF PopTake, KnownInv, Pending, TypeOK
  <2>3. PlaceInv'
    BY <1>0, <1>8, <2>1 DEF PopTake, PlaceInv, Pending, Taken, TypeOK
  <2> QED BY <2>2, <2>3
<1>9. ASSUME NEW c \in Consumers, PopClear(c)
      PROVE  KnownInv' /\ PlaceInv'
  <2>1. /\ ret'[c] = nullptr
        /\ \A d \in Consumers : ~Taken(d)' /\ (d # c => ret'[d] = ret[d])
    BY <1>0, <1>9 DEF PopClear, Taken, TypeOK, LockInv
  <2>2. \A i \in Slots : pageArray'[i] = IF i = pageArrayHead THEN nullptr ELSE pageArray[i]
    BY <1>0, <1>9 DEF PopClear, TypeOK
  <2>3. KnownInv'
    BY <1>0, <1>9, <2>1, <2>2 DEF PopClear, KnownInv, Pending, TypeOK
  <2>4. nullptr \notin got'
    BY <1>0, <1>9, <2>1 DEF PopClear, TypeOK
  <2>5. PlaceInv'
    BY <1>0, <1>9, <2>1, <2>2, <2>4 DEF PopClear, PlaceInv, KnownInv, Pending, Taken, TypeOK
  <2> QED BY <2>3, <2>5
<1>10. CASE close
  <2>1. \A c \in Consumers : Taken(c)' => Taken(c)
    BY <1>0, <1>10, WakeType DEF close, Taken
  <2> QED BY <1>0, <1>10, <2>1, QuietStep DEF close, Pending
<1>11. CASE UNCHANGED vars
  BY <1>0, <1>11, QuietStep DEF vars, Pending, Taken
<1> QED
  BY <1>1, <1>2, <1>3, <1>4, <1>5, <1>6, <1>7, <1>8, <1>9, <1>10, <1>11
  DEF Next, addPageToTail, popPageFromHead

\* The strengthened invariant holds throughout every behaviour of the buffer.
THEOREM RingInvariant == Spec => []RingInv
<1>1. Init => RingInv
  <2> SUFFICES ASSUME Init PROVE LockInv /\ KnownInv /\ PlaceInv
    BY InitType DEF RingInv
  <2> QED BY BufferAssumption
          DEF Init, initArray, LockInv, KnownInv, PlaceInv, Pending, Taken, Slots, maxArraySize
<1>2. RingInv /\ [Next]_vars => RingInv'
  BY StepType, StepLock, StepPlace DEF RingInv
<1> QED
  BY <1>1, <1>2, PTL DEF Spec

\* No page is returned by two calls of popPageFromHead.
THEOREM ReturnedOnceCorrect == Spec => []ReturnedOnce
<1>1. RingInv => ReturnedOnce
  BY BufferAssumption DEF RingInv, TypeOK, PlaceInv, Taken, ReturnedOnce
<1> QED
  BY <1>1, RingInvariant, PTL

-----------------------------------------------------------------------------
\* A signal or a broadcast leaves at least one consumer awake.
LEMMA WakeOne ==
  ASSUME TypeOK, Signal \/ Broadcast
  PROVE  Waiting' # Consumers
<1>1. CASE Signal
  BY <1>1, BufferAssumption DEF TypeOK, Signal, Waiting
<1>2. CASE Broadcast
  BY <1>2, BufferAssumption DEF TypeOK, Broadcast, Waiting
<1> QED BY <1>1, <1>2

\* No step leaves all consumers asleep on a non-empty buffer that no producer
\* is about to announce.
LEMMA StepWakeup == TypeOK /\ NoLostWakeup /\ [Next]_vars => NoLostWakeup'
<1> SUFFICES ASSUME TypeOK, NoLostWakeup, [Next]_vars, ~isEmpty', Waiting' = Consumers
             PROVE  \E p \in Producers : pstate'[p] \in {"store", "notify"}
  BY DEF NoLostWakeup
<1> USE DEF bufVars, pVars, cVars
<1>1. ASSUME NEW p \in Producers, addPageToTail(p)
      PROVE  \E q \in Producers : pstate'[q] \in {"store", "notify"}
  <2>1. ASSUME NEW pg \in Pages, AddLock(p, pg)
        PROVE  \E q \in Producers : pstate'[q] \in {"store", "notify"}
    BY <2>1 DEF AddLock, NoLostWakeup, TypeOK, isEmpty, Waiting
  <2>2. CASE AddSpin(p)
    BY <2>2, WakeOne DEF AddSpin
  <2>3. CASE AddAdvance(p)
    BY <2>3 DEF AddAdvance, TypeOK
  <2>4. CASE AddStore(p)
    BY <2>4 DEF AddStore, TypeOK
  <2>5. CASE AddNotify(p)
    BY <2>5, WakeOne DEF AddNotify
  <2> QED BY <1>1, <2>1, <2>2, <2>3, <2>4, <2>5 DEF addPageToTail
<1>2. ASSUME NEW c \in Consumers, LoopTest(c) \/ popPageFromHead(c)
      PROVE  \E q \in Producers : pstate'[q] \in {"store", "notify"}
  <2>1. CASE PopEnter(c)
    BY <2>1 DEF PopEnter, TypeOK, isEmpty, Waiting
  <2>2. CASE LoopTest(c) \/ PopReacquire(c) \/ PopNothing(c) \/ PopAdvance(c) \/ PopTake(c) \/ PopClear(c)
    <3>1. cstate'[c] # "waiting"
      BY <2>2 DEF LoopTest, PopReacquire, PopNothing, PopAdvance, PopTake, PopClear, TypeOK
    <3> QED BY <3>1 DEF Waiting
  <2> QED BY <1>2, <2>1, <2>2 DEF popPageFromHead
<1>3. ASSUME NEW c \in Consumers, SpuriousWake(c)
      PROVE  \E q \in Producers : pstate'[q] \in {"store", "notify"}
  BY <1>3 DEF SpuriousWake, TypeOK, Waiting
<1>4. CASE close
  BY <1>4, WakeOne DEF close
<1>5. CASE UNCHANGED vars
  BY <1>5 DEF vars, NoLostWakeup, isEmpty, Waiting
<1> QED
  BY <1>1, <1>2, <1>3, <1>4, <1>5 DEF Next

\* popPageFromHead loses no wake-up.
THEOREM NoLostWakeupCorrect == Spec => []NoLostWakeup
<1>1. Init => NoLostWakeup
  BY DEF Init, initArray, NoLostWakeup, isEmpty
<1> QED
  BY <1>1, InitType, StepType, StepWakeup, PTL DEF Spec

-----------------------------------------------------------------------------
\* The place that follows i.
After(i) == IF i = bufferSize THEN 0 ELSE i + 1

\* The slots in use, without the remainder: after the head, up to the tail.
InUse(i) ==
  \/ pageArrayHead < i /\ i <= pageArrayTail
  \/ pageArrayTail < pageArrayHead /\ (pageArrayHead < i \/ i <= pageArrayTail)

\* One lap of the ring.
LEMMA Remainder ==
  ASSUME NEW a \in Nat, a < 2 * maxArraySize
  PROVE  a % maxArraySize = IF a < maxArraySize THEN a ELSE a - maxArraySize
  BY BufferAssumption, SMT DEF maxArraySize

\* The index (i + 1) % maxArraySize is the next place, the first one after the last.
LEMMA AfterStep == \A i \in Slots : (i + 1) % maxArraySize = After(i) /\ After(i) \in Slots
  BY BufferAssumption, Remainder DEF maxArraySize, Slots, After

\* getSize, without the remainder.
LEMMA Size ==
  ASSUME TypeOK
  PROVE  getSize = IF pageArrayHead <= pageArrayTail THEN pageArrayTail - pageArrayHead
                   ELSE pageArrayTail + maxArraySize - pageArrayHead
<1>1. /\ pageArrayHead \in Nat /\ pageArrayTail \in Nat /\ maxArraySize \in Nat
      /\ pageArrayHead < maxArraySize /\ pageArrayTail < maxArraySize
  BY BufferAssumption DEF TypeOK, Slots, maxArraySize
<1> DEFINE a == (pageArrayTail + maxArraySize) - pageArrayHead
<1>2. a \in Nat /\ a < 2 * maxArraySize
  BY <1>1
<1>3. a % maxArraySize = IF a < maxArraySize THEN a ELSE a - maxArraySize
  BY <1>2, Remainder
<1> QED BY <1>1, <1>3 DEF getSize

\* The places that getSize counts are the ones between head and tail.
LEMMA LiveInUse ==
  ASSUME TypeOK
  PROVE  Live = {i \in Slots : InUse(i)}
<1>1. /\ pageArrayHead \in Nat /\ pageArrayTail \in Nat /\ maxArraySize \in Nat
      /\ pageArrayHead < maxArraySize /\ pageArrayTail < maxArraySize
  BY BufferAssumption DEF TypeOK, Slots, maxArraySize
<1>2. getSize \in Nat /\ getSize < maxArraySize
  BY <1>1, Size
<1>3. ASSUME NEW k \in 1 .. getSize
      PROVE  (pageArrayHead + k) % maxArraySize = IF pageArrayHead + k < maxArraySize THEN pageArrayHead + k
                                                  ELSE pageArrayHead + k - maxArraySize
  <2>1. pageArrayHead + k \in Nat /\ pageArrayHead + k < 2 * maxArraySize
    BY <1>1, <1>2
  <2> DEFINE a == pageArrayHead + k
  <2> HIDE DEF a
  <2>2. a % maxArraySize = IF a < maxArraySize THEN a ELSE a - maxArraySize
    BY <2>1, Remainder DEF a
  <2> QED BY <1>1, <1>2, <2>1, <2>2 DEF a
<1>4. ASSUME NEW i \in Live PROVE i \in Slots /\ InUse(i)
  <2>1. PICK k \in 1 .. getSize : i = (pageArrayHead + k) % maxArraySize
    BY <1>4 DEF Live
  <2>2. k \in Nat /\ 1 <= k /\ k <= getSize
    BY <1>2, <2>1
  <2> QED BY <1>1, <1>2, <1>3, <2>1, <2>2, Size DEF InUse, Slots
<1>5. ASSUME NEW i \in Slots, InUse(i) PROVE i \in Live
  <2> DEFINE k == IF pageArrayHead < i THEN i - pageArrayHead ELSE i + maxArraySize - pageArrayHead
  <2>1. i \in Nat /\ i < maxArraySize
    BY <1>1 DEF Slots
  <2>2. k \in 1 .. getSize
    BY <1>1, <1>2, <1>5, <2>1, Size DEF InUse
  <2>3. (pageArrayHead + k) % maxArraySize = i
    BY <1>1, <1>2, <1>3, <2>1, <2>2
  <2> QED BY <2>2, <2>3 DEF Live
<1> QED BY <1>4, <1>5

-----------------------------------------------------------------------------
\* A pop has moved the head and has not yet cleared, or not yet read, its place.
Popping == \E c \in Consumers : cstate[c] \in {"take", "clear"}
Taking == \E c \in Consumers : cstate[c] = "take"

\* A slot out of use is empty, but for the one a pop is about to clear.
FreeSlotsEmpty ==
  \A i \in Slots : pageArray[i] # nullptr => InUse(i) \/ (i = pageArrayHead /\ Popping)

\* The slot a producer is about to write is empty, and is in use or about to be taken.
StoreSlotFree ==
  \A p \in Producers : pstate[p] = "store" =>
    /\ pageArray[pageArrayTail] = nullptr
    /\ pageArrayTail = pageArrayHead => Taking

\* A page added and not yet returned: with its producer, in a place in use, or with
\* the consumer that pops it.
Here(pg) ==
  \/ \E p \in Producers : Pending(p) /\ page[p] = pg
  \/ \E i \in Slots : InUse(i) /\ pageArray[i] = pg
  \/ \E c \in Consumers :
       \/ cstate[c] = "take" /\ pageArray[pageArrayHead] = pg
       \/ cstate[c] = "clear" /\ ret[c] = pg

Kept == \A pg \in added \ got : Here(pg)

\* No page is lost in the ring while no pop has found an empty place.
GapInv == ~gap => FreeSlotsEmpty /\ StoreSlotFree /\ Kept

\* Here is what KeptUnlessGap asks of a page.
LEMMA HereInTransit == ASSUME TypeOK PROVE \A pg : Here(pg) <=> InTransit(pg)
  BY LiveInUse DEF Here, InTransit, Pending

\* What a step that leaves the ring alone may change: who waits, and a producer
\* or a consumer outside of its critical section.
LEMMA QuietGap ==
  ASSUME GapInv, UNCHANGED <<pageArray, pageArrayHead, pageArrayTail, ret, got, gap, added>>,
         \A p \in Producers : /\ Pending(p) => Pending(p)' /\ page'[p] = page[p]
                              /\ pstate'[p] = "store" => pstate[p] = "store",
         \A c \in Consumers : /\ cstate[c] = "take" => cstate'[c] = "take"
                              /\ cstate[c] = "clear" => cstate'[c] = "clear"
  PROVE  GapInv'
<1> SUFFICES ASSUME ~gap PROVE FreeSlotsEmpty' /\ StoreSlotFree' /\ Kept'
  BY DEF GapInv
<1>0. FreeSlotsEmpty /\ StoreSlotFree /\ Kept
  BY DEF GapInv
<1>1. FreeSlotsEmpty'
  BY <1>0 DEF FreeSlotsEmpty, InUse, Popping
<1>2. StoreSlotFree'
  BY <1>0 DEF StoreSlotFree, Taking
<1>3. \A pg : Here(pg) => Here(pg)'
  BY DEF Here, InUse
<1>4. Kept'
  BY <1>0, <1>3 DEF Kept
<1> QED BY <1>1, <1>2, <1>4

\* Every step of a producer, a consumer or close() keeps GapInv.
LEMMA StepGap == RingInv /\ GapInv /\ [Next]_vars => GapInv'
<1> SUFFICES ASSUME RingInv, GapInv, [Next]_vars PROVE GapInv'
  OBVIOUS
<1>0. TypeOK /\ LockInv /\ KnownInv /\ PlaceInv
  BY DEF RingInv
<1>00. /\ pageArrayHead \in Nat /\ pageArrayTail \in Nat /\ bufferSize \in Nat /\ bufferSize # 0
       /\ pageArrayHead <= bufferSize /\ pageArrayTail <= bufferSize
       /\ \A i : i \in Slots <=> i \in Nat /\ i <= bufferSize
  BY <1>0, BufferAssumption DEF TypeOK, Slots, maxArraySize
<1> USE BufferAssumption DEF bufVars, pVars, cVars
<1>1. ASSUME NEW p \in Producers, NEW pg \in Pages, AddLock(p, pg) PROVE GapInv'
  <2> SUFFICES ASSUME ~gap PROVE FreeSlotsEmpty' /\ StoreSlotFree' /\ Kept'
    BY <1>1 DEF GapInv, AddLock
  <2>0. FreeSlotsEmpty /\ StoreSlotFree /\ Kept
    BY DEF GapInv
  <2>1. FreeSlotsEmpty'
    BY <1>1, <2>0 DEF AddLock, FreeSlotsEmpty, InUse, Popping
  <2>2. StoreSlotFree'
    BY <1>0, <1>1, <2>0 DEF AddLock, StoreSlotFree, Taking, TypeOK
  <2>3. \A h : Here(h) => Here(h)'
    BY <1>0, <1>1 DEF AddLock, Here, InUse, Pending, TypeOK
  <2>4. Here(pg)'
    BY <1>0, <1>1 DEF AddLock, Here, Pending, TypeOK
  <2>5. Kept'
    BY <1>1, <2>0, <2>3, <2>4 DEF AddLock, Kept
  <2> QED BY <2>1, <2>2, <2>5
<1>2. ASSUME NEW p \in Producers, AddSpin(p) PROVE GapInv'
  BY <1>0, <1>2, WakeType, QuietGap DEF AddSpin, Pending
<1>3. ASSUME NEW p \in Producers, AddAdvance(p) PROVE GapInv'
  <2> SUFFICES ASSUME ~gap PROVE FreeSlotsEmpty' /\ StoreSlotFree' /\ Kept'
    BY <1>3 DEF GapInv, AddAdvance
  <2>0. FreeSlotsEmpty /\ StoreSlotFree /\ Kept
    BY DEF GapInv
  <2>1. pageArrayTail' = After(pageArrayTail) /\ After(pageArrayTail) # pageArrayHead
    BY <1>0, <1>3, AfterStep DEF AddAdvance, isFull, TypeOK
  <2>2. \A i \in Slots : InUse(i) => InUse(i)'
    BY <1>00, <1>3, <2>1 DEF AddAdvance, InUse, After
  <2>3. After(pageArrayTail) \in Slots /\ ~InUse(After(pageArrayTail))
    BY <1>00, <1>3, <2>1 DEF InUse, After
  <2>4. FreeSlotsEmpty'
    BY <1>3, <2>0, <2>2 DEF AddAdvance, FreeSlotsEmpty, Popping
  <2>5. pageArray'[pageArrayTail'] = nullptr /\ pageArrayTail' # pageArrayHead'
    BY <1>3, <2>0, <2>1, <2>3 DEF AddAdvance, FreeSlotsEmpty
  <2>6. StoreSlotFree'
    BY <2>5 DEF StoreSlotFree
  <2>7. \A h : Here(h) => Here(h)'
    <3>1. \A q \in Producers : Pending(q) => Pending(q)' /\ page'[q] = page[q]
      BY <1>0, <1>3 DEF AddAdvance, Pending, TypeOK
    <3> QED BY <1>3, <2>2, <3>1 DEF AddAdvance, Here
  <2>8. Kept'
    BY <1>3, <2>0, <2>7 DEF AddAdvance, Kept
  <2> QED BY <2>4, <2>6, <2>8
<1>4. ASSUME NEW p \in Producers, AddStore(p) PROVE GapInv'
  <2> SUFFICES ASSUME ~gap PROVE FreeSlotsEmpty' /\ StoreSlotFree' /\ Kept'
    BY <1>4 DEF GapInv, AddStore
  <2>0. FreeSlotsEmpty /\ StoreSlotFree /\ Kept
    BY DEF GapInv
  <2>1. pageArray[pageArrayTail] = nullptr /\ (pageArrayTail = pageArrayHead => Taking)
    BY <1>4, <2>0 DEF AddStore, StoreSlotFree
  <2>2. \A i \in Slots : pageArray'[i] = IF i = pageArrayTail THEN page[p] ELSE pageArray[i]
    BY <1>0, <1>4 DEF AddStore, TypeOK
  <2>3. pageArrayTail # pageArrayHead => InUse(pageArrayTail)
    BY <1>00 DEF InUse
  <2>4. \A i : InUse(i)' <=> InUse(i)
    BY <1>4 DEF AddStore, InUse
  <2>5. FreeSlotsEmpty'
    BY <1>4, <2>0, <2>1, <2>2, <2>3, <2>4 DEF AddStore, FreeSlotsEmpty, Popping, Taking
  <2>6. \A q \in Producers : ~Pending(q)'
    BY <1>0, <1>4 DEF AddStore, TypeOK, LockInv, Pending
  <2>7. StoreSlotFree'
    BY <2>6 DEF StoreSlotFree, Pending
  <2>8. ASSUME NEW h \in added \ got, Here(h) PROVE Here(h)'
    <3>0. h # nullptr
      BY <1>0 DEF TypeOK
    <3>1. CASE \E q \in Producers : Pending(q) /\ page[q] = h
      <4>1. h = page[p]
        BY <1>0, <1>4, <3>1 DEF AddStore, TypeOK, LockInv, Pending
      <4>2. pageArrayTail \in Slots /\ pageArray'[pageArrayTail] = h
        BY <1>0, <2>2, <4>1 DEF TypeOK
      <4>3. CASE pageArrayTail # pageArrayHead
        BY <2>3, <2>4, <4>2, <4>3 DEF Here
      <4>4. CASE pageArrayTail = pageArrayHead
        BY <1>4, <2>1, <4>2, <4>4 DEF Here, Taking, AddStore
      <4> QED BY <4>3, <4>4
    <3>2. CASE \E i \in Slots : InUse(i) /\ pageArray[i] = h
      BY <2>1, <2>2, <2>4, <3>0, <3>2 DEF Here
    <3>3. CASE \E c \in Consumers : cstate[c] = "take" /\ pageArray[pageArrayHead] = h
      BY <1>0, <1>4, <2>1, <2>2, <3>0, <3>3 DEF Here, AddStore, TypeOK
    <3>4. CASE \E c \in Consumers : cstate[c] = "clear" /\ ret[c] = h
      BY <1>4, <3>4 DEF Here, AddStore
    <3> QED BY <2>8, <3>1, <3>2, <3>3, <3>4 DEF Here
  <2>9. Kept'
    BY <1>4, <2>0, <2>8 DEF AddStore, Kept
  <2> QED BY <2>5, <2>7, <2>9
<1>5. ASSUME NEW p \in Producers, AddNotify(p) PROVE GapInv'
  <2>1. Signal \/ Broadcast
    BY <1>5 DEF AddNotify
  <2>2. \A q \in Producers : /\ Pending(q) => Pending(q)' /\ page'[q] = page[q]
                             /\ pstate'[q] = "store" => pstate[q] = "store"
    BY <1>0, <1>5 DEF AddNotify, Pending, TypeOK
  <2> QED BY <1>0, <1>5, <2>1, <2>2, WakeType, QuietGap DEF AddNotify
<1>6. ASSUME NEW c \in Consumers,
             LoopTest(c) \/ PopEnter(c) \/ SpuriousWake(c) \/ PopReacquire(c) \/ PopNothing(c)
      PROVE  GapInv'
  <2>1. \A d \in Consumers : /\ cstate[d] = "take" => cstate'[d] = "take"
                             /\ cstate[d] = "clear" => cstate'[d] = "clear"
    BY <1>0, <1>6 DEF LoopTest, PopEnter, SpuriousWake, PopReacquire, PopNothing, TypeOK
  <2> QED BY <1>0, <1>6, <2>1, QuietGap
          DEF LoopTest, PopEnter, SpuriousWake, PopReacquire, PopNothing, Pending
<1>7. ASSUME NEW c \in Consumers, PopAdvance(c) PROVE GapInv'
  <2> SUFFICES ASSUME ~gap PROVE FreeSlotsEmpty' /\ StoreSlotFree' /\ Kept'
    BY <1>7 DEF GapInv, PopAdvance
  <2>0. FreeSlotsEmpty /\ StoreSlotFree /\ Kept
    BY DEF GapInv
  <2>1. pageArrayHead' = After(pageArrayHead) /\ After(pageArrayHead) \in Slots
        /\ pageArrayHead # pageArrayTail
    BY <1>0, <1>7, AfterStep DEF PopAdvance, isEmpty, TypeOK
  <2>2. ~Popping /\ cstate'[c] = "take"
    BY <1>0, <1>7 DEF PopAdvance, Popping, TypeOK, LockInv
  <2>3. \A i \in Slots : InUse(i) => InUse(i)' \/ i = pageArrayHead'
    BY <1>00, <1>7, <2>1 DEF PopAdvance, InUse, After
  <2>4. FreeSlotsEmpty'
    BY <1>7, <2>0, <2>2, <2>3 DEF PopAdvance, FreeSlotsEmpty, Popping
  <2>5. StoreSlotFree'
    BY <1>7, <2>0, <2>2 DEF PopAdvance, StoreSlotFree, Taking
  <2>6. \A h : Here(h) => Here(h)'
    <3>1. \A q \in Producers : Pending(q) => Pending(q)' /\ page'[q] = page[q]
      BY <1>7 DEF PopAdvance, Pending
    <3>2. \A d \in Consumers : cstate[d] \notin {"take", "clear"}
      BY <2>2 DEF Popping
    <3> QED BY <1>7, <2>2, <2>3, <3>1, <3>2 DEF PopAdvance, Here
  <2>7. Kept'
    BY <1>7, <2>0, <2>6 DEF PopAdvance, Kept
  <2> QED BY <2>4, <2>5, <2>7
<1>8. ASSUME NEW c \in Consumers, PopTake(c) PROVE GapInv'
  <2> SUFFICES ASSUME ~gap' PROVE FreeSlotsEmpty' /\ StoreSlotFree' /\ Kept'
    BY DEF GapInv
  <2>0. FreeSlotsEmpty /\ StoreSlotFree /\ Kept /\ pageArray[pageArrayHead] # nullptr
    BY <1>8 DEF GapInv, PopTake
  <2>1. cstate'[c] = "clear" /\ ret'[c] = pageArray[pageArrayHead]
        /\ \A d \in Consumers : d # c => cstate'[d] = cstate[d] /\ ret'[d] = ret[d] /\ cstate[d] # "take"
    BY <1>0, <1>8 DEF PopTake, TypeOK, LockInv
  <2>2. FreeSlotsEmpty'
    BY <1>8, <2>0, <2>1 DEF PopTake, FreeSlotsEmpty, InUse, Popping
  <2>3. StoreSlotFree'
    BY <1>8, <2>0 DEF PopTake, StoreSlotFree
  <2>4. \A h : Here(h) => Here(h)'
    <3>1. \A q \in Producers : Pending(q) => Pending(q)' /\ page'[q] = page[q]
      BY <1>8 DEF PopTake, Pending
    <3>2. \A i : InUse(i) => InUse(i)'
      BY <1>8 DEF PopTake, InUse
    <3>3. cstate[c] = "take"
      BY <1>8 DEF PopTake
    <3> QED BY <1>8, <2>1, <3>1, <3>2, <3>3 DEF PopTake, Here
  <2>5. Kept'
    BY <1>8, <2>0, <2>4 DEF PopTake, Kept
  <2> QED BY <2>2, <2>3, <2>5
<1>9. ASSUME NEW c \in Consumers, PopClear(c) PROVE GapInv'
  <2> SUFFICES ASSUME ~gap PROVE FreeSlotsEmpty' /\ StoreSlotFree' /\ Kept'
    BY <1>9 DEF GapInv, PopClear
  <2>0. FreeSlotsEmpty /\ StoreSlotFree /\ Kept
    BY DEF GapInv
  <2>1. \A d \in Consumers : d # c => cstate[d] \notin {"take", "clear"}
    BY <1>0, <1>9 DEF PopClear, TypeOK, LockInv
  <2>2. \A i \in Slots : pageArray'[i] = IF i = pageArrayHead THEN nullptr ELSE pageArray[i]
    BY <1>0, <1>9 DEF PopClear, TypeOK
  <2>3. ~Taking /\ ~InUse(pageArrayHead)
    BY <1>00, <1>9, <2>1 DEF PopClear, Taking, InUse
  <2>4. FreeSlotsEmpty'
    BY <1>9, <2>0, <2>2 DEF PopClear, FreeSlotsEmpty, InUse
  <2>5. StoreSlotFree'
    BY <1>0, <1>9, <2>0, <2>2, <2>3 DEF PopClear, StoreSlotFree, TypeOK
  <2>6. ASSUME NEW h \in added \ got', Here(h) PROVE Here(h)'
    <3>0. h # nullptr /\ h # ret[c]
      BY <1>0, <1>9 DEF TypeOK, PopClear
    <3>1. CASE \E q \in Producers : Pending(q) /\ page[q] = h
      BY <1>9, <3>1 DEF PopClear, Pending, Here
    <3>2. CASE \E i \in Slots : InUse(i) /\ pageArray[i] = h
      <4>1. PICK i \in Slots : InUse(i) /\ pageArray[i] = h
        BY <3>2
      <4>2. InUse(i)' /\ pageArray'[i] = h
        BY <1>9, <2>2, <2>3, <4>1 DEF PopClear, InUse
      <4> QED BY <4>1, <4>2 DEF Here
    <3>3. \A d \in Consumers : /\ ~(cstate[d] = "take" /\ pageArray[pageArrayHead] = h)
                               /\ ~(cstate[d] = "clear" /\ ret[d] = h)
      BY <1>9, <2>1, <3>0 DEF PopClear
    <3> QED BY <2>6, <3>1, <3>2, <3>3 DEF Here
  <2>7. got \subseteq got' /\ added' = added
    BY <1>9 DEF PopClear
  <2>8. Kept'
    BY <2>0, <2>6, <2>7 DEF Kept
  <2> QED BY <2>4, <2>5, <2>8
<1>10. CASE close
  BY <1>0, <1>10, WakeType, QuietGap DEF close, Pending
<1>11. CASE UNCHANGED vars
  BY <1>0, <1>11, QuietGap DEF vars, Pending
<1> QED
  BY <1>1, <1>2, <1>3, <1>4, <1>5, <1>6, <1>7, <1>8, <1>9, <1>10, <1>11
  DEF Next, addPageToTail, popPageFromHead

\* The ring overwrites and skips no page as long as no pop has taken nullptr out of
\* a buffer that was not empty.
THEOREM KeptUnlessGapCorrect == Spec => []KeptUnlessGap
<1>1. Init => GapInv
  BY BufferAssumption DEF Init, initArray, GapInv, FreeSlotsEmpty, StoreSlotFree, Kept, Slots
<1>2. RingInv /\ GapInv => KeptUnlessGap
  BY HereInTransit DEF RingInv, GapInv, Kept, KeptUnlessGap
<1> QED
  BY <1>1, <1>2, StepGap, RingInvariant, PTL DEF Spec
=============================================================================
