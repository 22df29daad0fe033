-------------------------- MODULE ScanProtocol_proofs --------------------------
(***************************************************************************)
(* Proofs about PDBBuzzer, for any finite set of workers, and then about   *)
(* ScanProtocol, for any finite set of scan threads, any iterators, any    *)
(* size of the buffer and any number of faults and retries.  The scan      *)
(* implements the buzzer, so that the first part serves the second.        *)
(***************************************************************************)
EXTENDS ScanProtocol, FiniteSetTheorems, TLAPS

-----------------------------------------------------------------------------
(* The buzzer *)

Types ==
  /\ signalSent \in BOOLEAN /\ counter \in Nat
  /\ state \in {"test", "lock", "asleep", "done"}
  /\ buzzed \in SUBSET Workers

\* The counter counts the workers that buzzed without an error.
Counted ==
  counter <= Cardinality(buzzed)

\* Between the test of the counter and the sleep, a buzz sets signalSent.
Remembered ==
  /\ state = "lock" /\ ~signalSent => counter < n
  /\ state = "asleep" => ~signalSent /\ counter < n
  /\ state = "done" => n <= counter

Inv == Types /\ Counted /\ Remembered

\* n is a number, and so is the count of the workers that have buzzed.
LEMMA CountNat ==
  ASSUME NEW S \in SUBSET Workers
  PROVE  IsFiniteSet(S) /\ Cardinality(S) \in Nat /\ Cardinality(S) <= n
         /\ (Cardinality(S) = n => S = Workers)
<1>1. IsFiniteSet(Workers) BY BuzzerAssumption
<1>2. IsFiniteSet(S) /\ Cardinality(S) <= Cardinality(Workers)
      /\ (Cardinality(S) = Cardinality(Workers) => S = Workers)
  BY <1>1, FS_Subset
<1>3. Cardinality(S) \in Nat BY <1>2, FS_CardinalityType
<1> QED BY <1>2, <1>3 DEF n

LEMMA SizeNat == n \in Nat
  BY BuzzerAssumption, FS_CardinalityType DEF n

\* A worker that buzzes for the first time adds one to the count.
LEMMA OneMore ==
  ASSUME NEW S \in SUBSET Workers, NEW w \in Workers, w \notin S
  PROVE  Cardinality(S \cup {w}) = Cardinality(S) + 1
<1>1. IsFiniteSet(S) BY CountNat
<1> QED BY <1>1, FS_AddElement

LEMMA Initial == Init => Inv
<1> SUFFICES ASSUME Init PROVE Inv OBVIOUS
<1>1. Cardinality({}) = 0 BY FS_EmptySet
<1>2. Types
  <2>1. signalSent \in BOOLEAN BY Zenon DEF Init
  <2> QED BY <2>1 DEF Init, Types
<1>3. Counted
  <2>1. Cardinality(buzzed) = 0 BY <1>1, Zenon DEF Init
  <2>2. counter = 0 BY DEF Init
  <2> QED BY <2>1, <2>2 DEF Counted
<1>4. Remembered BY DEF Init, Remembered
<1> QED BY <1>2, <1>3, <1>4 DEF Inv

LEMMA BuzzStep ==
  ASSUME Inv, NEW w \in Workers, buzz(w) \/ buzzError(w)
  PROVE  Inv'
<1> USE DEF Inv
<1>1. Cardinality(buzzed') = Cardinality(buzzed) + 1
  BY OneMore DEF buzz, buzzError, Types
<1>2. Cardinality(buzzed) \in Nat BY CountNat DEF Types
<1>3. Types'
  <2>1. signalSent' \in BOOLEAN BY Zenon DEF buzz, buzzError, remember
  <2>2. counter' \in Nat BY DEF buzz, buzzError, Types
  <2>3. state' \in {"test", "lock", "asleep", "done"} BY DEF buzz, buzzError, Types, Signal
  <2>4. buzzed' \in SUBSET Workers BY DEF buzz, buzzError, Types
  <2> QED BY <2>1, <2>2, <2>3, <2>4 DEF Types
<1>4. Counted'
  <2>1. CASE buzz(w) BY <1>1, <1>2, <2>1 DEF Types, Counted, buzz
  <2>2. CASE buzzError(w) BY <1>1, <1>2, <2>2 DEF Types, Counted, buzzError
  <2> QED BY <2>1, <2>2
<1>5. Remembered'
  <2>1. signalSent' /\ state' # "asleep"
    BY DEF buzz, buzzError, remember, Signal, Types
  <2>2. state' = "done" => state = "done" BY DEF buzz, buzzError, Signal, Types
  <2>3. counter <= counter' BY DEF buzz, buzzError, Types
  <2> QED BY <2>1, <2>2, <2>3, SizeNat, <1>3 DEF Remembered, Types
<1> QED BY <1>3, <1>4, <1>5

LEMMA WaiterStep ==
  ASSUME Inv, testCounter \/ wait \/ spuriousWakeup \/ UNCHANGED vars
  PROVE  Inv'
<1> USE DEF Inv, Types, Counted, Remembered
<1>1. CASE testCounter BY <1>1, SizeNat DEF testCounter
<1>2. CASE wait BY <1>2, SizeNat DEF wait
<1>3. CASE spuriousWakeup BY <1>3, SizeNat DEF spuriousWakeup
<1>4. CASE UNCHANGED vars BY <1>4 DEF vars
<1> QED BY <1>1, <1>2, <1>3, <1>4

\* The inductive invariant holds in every behaviour of buzz and wait.
THEOREM Invariance == Spec => []Inv
<1>1. Inv /\ [Next]_vars => Inv'
  BY BuzzStep, WaiterStep DEF Next, Done
<1> QED BY <1>1, Initial, PTL DEF Spec

\* The types are kept, and the counter never passes the number of workers.
THEOREM TypeCorrect == Spec => []TypeOK
<1>1. Inv => TypeOK
  <2> SUFFICES ASSUME Inv PROVE TypeOK OBVIOUS
  <2>1. Cardinality(buzzed) \in Nat /\ Cardinality(buzzed) <= n BY CountNat DEF Inv, Types
  <2> QED BY <2>1, SizeNat DEF Inv, Types, Counted, TypeOK
<1> QED BY <1>1, Invariance, PTL

\* No buzz is lost: while no worker has taken an error path, a thread asleep in
\* wait() has a worker left that will wake it.
THEOREM NoLostBuzz == Spec => []SleeperWillBeWoken
<1>1. Inv => SleeperWillBeWoken
  BY SizeNat DEF Inv, Types, Remembered, SleeperWillBeWoken, AllCounted, n
<1> QED BY <1>1, Invariance, PTL

\* The waiting thread goes on only after every worker has buzzed, with or
\* without error paths and wake-ups without a cause.
THEOREM WaitsForAll == Spec => []DoneAfterAll
<1>1. Inv => DoneAfterAll
  <2> SUFFICES ASSUME Inv, state = "done" PROVE buzzed = Workers BY DEF DoneAfterAll
  <2>1. Cardinality(buzzed) \in Nat /\ Cardinality(buzzed) <= n
        /\ (Cardinality(buzzed) = n => buzzed = Workers)
    BY CountNat DEF Inv, Types
  <2>2. n <= Cardinality(buzzed) BY <2>1, SizeNat DEF Inv, Types, Counted, Remembered
  <2> QED BY <2>1, <2>2, SizeNat
<1> QED BY <1>1, Invariance, PTL

-----------------------------------------------------------------------------
(* The scan uses its buzzer as PDBBuzzer says *)

LEMMA ScanStepIsBuzzerStep == [ScanNext]_scanVars => [Next]_vars
<1> SUFFICES ASSUME ScanNext, ~ UNCHANGED vars PROVE Next
  BY DEF scanVars
<1>1. CASE \E w \in Workers : ThreadStep(w) \/ connectFails(w) \/ sendFails(w) \/ disconnect(w)
  <2> PICK w \in Workers : ThreadStep(w) \/ connectFails(w) \/ sendFails(w) \/ disconnect(w)
    BY <1>1
  <2>1. CASE scanned(w) BY <2>1 DEF scanned, Next
  <2>2. CASE connectFails(w) BY <2>2 DEF connectFails, Next
  <2>3. CASE connect(w) \/ send(w) \/ sendFails(w) \/ disconnect(w)
    BY <2>3 DEF connect, send, sendFails, disconnect
  <2> QED BY <2>1, <2>2, <2>3 DEF ThreadStep
<1>2. CASE BackendStep BY <1>2 DEF BackendStep, addPageToTail, sendPagePinnedAck
<1>3. CASE popPageFromHead \/ leave \/ noMorePage \/ noMorePageFails
  BY <1>3 DEF popPageFromHead, leave, noMorePage, noMorePageFails
<1>4. CASE waitForAll BY <1>4 DEF waitForAll, Next
<1>5. CASE wakeUp BY <1>5 DEF wakeUp, Next
<1> QED BY <1>1, <1>2, <1>3, <1>4, <1>5 DEF ScanNext

\* The scan implements the buzzer: what is proved of PDBBuzzer holds for the
\* StorageGetSetPages handler and its PDBScanWorks.
THEOREM ScanImplementsBuzzer == ScanSpec => Spec
<1>1. ScanInit => Init BY DEF ScanInit
<1> QED BY <1>1, ScanStepIsBuzzerStep, PTL DEF ScanSpec, Spec

\* The handler goes on only after every scan thread has buzzed.
THEOREM ScanWaitsForAll == ScanSpec => []DoneAfterAll
  BY ScanImplementsBuzzer, WaitsForAll, PTL

\* While no scan thread has taken its error path, the handler does not sleep with
\* nobody left to wake it.
THEOREM ScanNoLostBuzz == ScanSpec => []SleeperWillBeWoken
  BY ScanImplementsBuzzer, NoLostBuzz, PTL

-----------------------------------------------------------------------------
(* The inductive invariant of the scan *)

ScanTypes ==
  /\ pc \in [Workers -> {"connect", "send", "wait", "buzz", "over"}]
  /\ left \in [Workers -> Seq(Pages)]
  /\ link \in [Workers -> Nat]
  /\ atBackend \in SUBSET Announcements
  /\ delivered \in [Pages -> Nat]
  /\ skipped \in SUBSET Pages

\* A page an iterator has given is still to be announced, or was added, or given up.
Accounted ==
  \A w \in Workers : \A p \in Range(Listed[w]) :
    p \in Range(left[w]) \/ delivered[p] > 0 \/ p \in skipped

\* What comes over the connection a thread now has is what the thread waits for, and
\* a page is in the buffer before it is acknowledged.
Expected ==
  \A h \in atBackend :
    /\ h.link <= link[h.worker]
    /\ h.link = link[h.worker] => pc[h.worker] = "wait" /\ h.msg = announced(h.worker)
    /\ h.pc = "ack" /\ h.msg # End => delivered[h.msg] > 0

\* No connection carries two announcements at a time.
OneInFlight ==
  \A g, h \in atBackend :
    g.worker = h.worker /\ g.link = link[g.worker] /\ h.link = link[h.worker] => g = h

AtEnd == \A w \in Workers : pc[w] = "buzz" => left[w] = <<>>

\* The threads that have buzzed and have nothing left.
Ready == {w \in buzzed : left[w] = <<>>}

\* Only threads that came to the end of their iterators are counted.
CountsReady == counter <= Cardinality(Ready)

\* The buffer is closed after the count was complete.
ClosedLast ==
  /\ told => state = "done"
  /\ closed => told
  /\ ended => closed

ScanInv == ScanTypes /\ Accounted /\ Expected /\ OneInFlight /\ AtEnd /\ CountsReady /\ ClosedLast

-----------------------------------------------------------------------------
(* Lemmas *)

LEMMA RangeTail ==
  ASSUME NEW s \in Seq(Pages), s # <<>>, NEW p \in Range(s), p # Head(s)
  PROVE  p \in Range(Tail(s))
<1> PICK i \in DOMAIN s : p = s[i] BY DEF Range
<1>1. i \in 1 .. Len(s) /\ i # 1 OBVIOUS
<1>2. i - 1 \in 1 .. Len(Tail(s)) /\ Tail(s)[i - 1] = s[i] BY <1>1
<1>3. i - 1 \in DOMAIN Tail(s) BY <1>2
<1> QED BY <1>2, <1>3 DEF Range

LEMMA RangeEmpty ==
  ASSUME NEW p PROVE p \notin Range(<<>>)
  BY DEF Range

\* A thread that goes on to the next page leaves its other pages accounted for.
LEMMA RestKeeps ==
  ASSUME ScanTypes, NEW w \in Workers, NEW p \in Range(left[w]), p # announced(w)
  PROVE  p \in Range(rest(w))
<1>1. left[w] # <<>> BY RangeEmpty
<1>2. left[w] \in Seq(Pages) BY DEF ScanTypes
<1> QED BY <1>1, <1>2, RangeTail DEF announced, rest

LEMMA RestType ==
  ASSUME ScanTypes, NEW w \in Workers
  PROVE  /\ rest(w) \in Seq(Pages)
         /\ left[w] = <<>> => rest(w) = <<>>
         /\ announced(w) \in Pages \cup {End}
         /\ left[w] # <<>> => announced(w) \in Pages /\ announced(w) # End
<1>1. left[w] \in Seq(Pages) BY DEF ScanTypes
<1> QED BY <1>1, ScanAssumption DEF rest, announced

\* More threads are ready when more have buzzed and none has got new pages.
LEMMA ReadyGrows ==
  ASSUME Types, Types', Ready \subseteq Ready'
  PROVE  Cardinality(Ready) <= Cardinality(Ready') /\ Cardinality(Ready) \in Nat
         /\ Cardinality(Ready') \in Nat
<1>1. Ready \in SUBSET Workers /\ Ready' \in SUBSET Workers BY DEF Ready, Types
<1>2. IsFiniteSet(Ready') BY <1>1, CountNat
<1>3. Cardinality(Ready) <= Cardinality(Ready') BY <1>2, FS_Subset
<1> QED BY <1>1, <1>3, CountNat

LEMMA ScanInitial == ScanInit => ScanInv
<1> SUFFICES ASSUME ScanInit PROVE ScanInv OBVIOUS
<1>1. ScanTypes BY ScanAssumption DEF ScanInit, ScanTypes
<1>2. Accounted BY DEF ScanInit, Accounted
<1>3. Expected /\ OneInFlight /\ AtEnd BY DEF ScanInit, Expected, OneInFlight, AtEnd
<1>4. CountsReady
  <2>1. Cardinality({}) = 0 BY FS_EmptySet
  <2>2. Ready = {} BY DEF ScanInit, Init, Ready
  <2>3. counter = 0 BY DEF ScanInit, Init
  <2> QED BY <2>1, <2>2, <2>3 DEF CountsReady
<1>5. ClosedLast BY DEF ScanInit, ClosedLast
<1> QED BY <1>1, <1>2, <1>3, <1>4, <1>5 DEF ScanInv

\* What next(w) keeps, when the page that was announced is accounted for.
LEMMA NextKeeps ==
  ASSUME ScanInv, Types, Types', NEW w \in Workers, next(w),
         UNCHANGED vars, UNCHANGED delivered, skipped \subseteq skipped',
         left[w] = <<>> \/ delivered[announced(w)] > 0 \/ announced(w) \in skipped'
  PROVE  /\ pc' \in [Workers -> {"connect", "send", "wait", "buzz", "over"}]
         /\ left' \in [Workers -> Seq(Pages)]
         /\ Accounted' /\ AtEnd' /\ CountsReady'
<1> USE DEF ScanInv, next, set
<1>1. rest(w) \in Seq(Pages) BY RestType
<1>2. pc' \in [Workers -> {"connect", "send", "wait", "buzz", "over"}]
      /\ left' \in [Workers -> Seq(Pages)]
  BY <1>1 DEF ScanTypes
<1>3. Accounted'
  <2> SUFFICES ASSUME NEW v \in Workers, NEW p \in Range(Listed[v])
               PROVE  p \in Range(left'[v]) \/ delivered'[p] > 0 \/ p \in skipped'
    BY DEF Accounted
  <2>1. p \in Range(left[v]) \/ delivered[p] > 0 \/ p \in skipped BY DEF Accounted
  <2>2. CASE v = w /\ p \in Range(left[v])
    <3>1. CASE p = announced(w) BY <2>2, <3>1, RangeEmpty
    <3>2. CASE p # announced(w) BY <2>2, <3>2, RestKeeps DEF ScanTypes
    <3> QED BY <3>1, <3>2
  <2>3. CASE v # w BY <2>1, <2>3 DEF ScanTypes
  <2> QED BY <2>1, <2>2, <2>3
<1>4. AtEnd'
  <2>1. left[w] = <<>> => rest(w) = <<>> BY RestType
  <2> QED BY <2>1 DEF AtEnd, ScanTypes
<1>5. CountsReady'
  <2>1. left[w] = <<>> => rest(w) = <<>> BY RestType
  <2>2. Ready \subseteq Ready' BY <2>1 DEF Ready, ScanTypes, vars, Types
  <2>3. counter' = counter BY DEF vars
  <2> QED BY <2>2, <2>3, ReadyGrows DEF CountsReady, Types
<1> QED BY <1>2, <1>3, <1>4, <1>5

-----------------------------------------------------------------------------
(* Every step keeps the invariant *)

LEMMA ConnectStep ==
  ASSUME ScanInv, Inv, Inv', NEW w \in Workers, connect(w)
  PROVE  ScanInv'
<1> USE DEF ScanInv, connect, set, backendVars
<1>1. ScanTypes' /\ Accounted' BY DEF ScanTypes, Accounted
<1>2. Expected' /\ OneInFlight' BY DEF ScanTypes, Announcements, Expected, OneInFlight, announced
<1>3. AtEnd' BY DEF ScanTypes, AtEnd
<1>4. CountsReady' BY DEF CountsReady, Ready, vars
<1>5. ClosedLast' BY DEF ClosedLast, vars
<1> QED BY <1>1, <1>2, <1>3, <1>4, <1>5

LEMMA ConnectFailsStep ==
  ASSUME ScanInv, Inv, Inv', NEW w \in Workers, connectFails(w)
  PROVE  ScanInv'
<1> USE DEF ScanInv, connectFails, set, backendVars
<1>1. CASE UNCHANGED <<vars, pc>>
  BY <1>1 DEF ScanTypes, Accounted, Expected, OneInFlight, announced, AtEnd, CountsReady,
              Ready, ClosedLast, vars
<1>2. CASE buzzError(w) /\ pc' = [pc EXCEPT ![w] = "over"]
  <2>1. ScanTypes' /\ Accounted' BY <1>2 DEF ScanTypes, Accounted
  <2>2. Expected' /\ OneInFlight'
    BY <1>2 DEF ScanTypes, Announcements, Expected, OneInFlight, announced
  <2>3. AtEnd' BY <1>2 DEF ScanTypes, AtEnd
  <2>4. CountsReady'
    <3>1. Ready \subseteq Ready' BY <1>2 DEF Ready, buzzError
    <3> QED BY <1>2, <3>1, ReadyGrows DEF CountsReady, buzzError, Inv, Types
  <2>5. ClosedLast' BY <1>2 DEF ClosedLast, buzzError, Signal
  <2> QED BY <2>1, <2>2, <2>3, <2>4, <2>5
<1> QED BY <1>1, <1>2

LEMMA SendStep ==
  ASSUME ScanInv, Inv, Inv', NEW w \in Workers, send(w)
  PROVE  ScanInv'
<1> USE DEF ScanInv, send, set
<1> DEFINE new == [worker |-> w, link |-> link[w], msg |-> announced(w), pc |-> "add"]
<1>1. new \in Announcements BY RestType DEF Announcements, ScanTypes
<1>2. ScanTypes' /\ Accounted' BY <1>1 DEF ScanTypes, Accounted
<1>3. \A v \in Workers : announced(v)' = announced(v) BY DEF announced
<1>4. \A h \in atBackend : h.worker = w => h.link # link[w] BY DEF Expected
<1>5. Expected'
  <2> SUFFICES ASSUME NEW h \in atBackend'
               PROVE  /\ h.link <= link[h.worker]
                      /\ h.link = link[h.worker] => pc'[h.worker] = "wait" /\ h.msg = announced(h.worker)
                      /\ h.pc = "ack" /\ h.msg # End => delivered[h.msg] > 0
    BY <1>2, <1>3 DEF Expected, ScanTypes, Announcements
  <2>1. CASE h = new BY <2>1 DEF ScanTypes
  <2>2. CASE h \in atBackend BY <2>2, <1>4 DEF Expected, ScanTypes, Announcements
  <2> QED BY <2>1, <2>2
<1>6. OneInFlight' BY <1>4 DEF OneInFlight, ScanTypes, Announcements
<1>7. AtEnd' BY DEF ScanTypes, AtEnd
<1>8. CountsReady' /\ ClosedLast' BY DEF CountsReady, Ready, ClosedLast, vars
<1> QED BY <1>2, <1>5, <1>6, <1>7, <1>8

\* sendFails(w) and disconnect(w): the thread reconnects.
LEMMA TryAgainStep ==
  ASSUME ScanInv, Inv, Inv', NEW w \in Workers, sendFails(w) \/ disconnect(w)
  PROVE  ScanInv'
<1> USE DEF ScanInv
<1>1. tryAgain(w) /\ UNCHANGED <<vars, backendVars, told>> BY DEF sendFails, disconnect
<1>2. link' = [link EXCEPT ![w] = link[w] + 1] BY <1>1 DEF tryAgain, set
<1>3. \A v \in Workers : v # w => pc'[v] = pc[v] /\ left'[v] = left[v]
  BY <1>1 DEF tryAgain, next, set, ScanTypes
<1>4. \A v \in Workers : v # w => announced(v)' = announced(v) BY <1>3 DEF announced
<1>5. Expected' /\ OneInFlight'
  BY <1>1, <1>2, <1>3, <1>4 DEF Expected, OneInFlight, ScanTypes, Announcements, backendVars
<1>6. ClosedLast' BY <1>1 DEF ClosedLast, backendVars, vars
<1>7. CASE next(w) /\ skipped' = skipped \cup ({announced(w)} \ {End})
  <2>1. left[w] = <<>> \/ announced(w) \in skipped' BY <1>7, RestType
  <2>2. skipped' \in SUBSET Pages BY <1>7, RestType DEF ScanTypes
  <2>3. /\ pc' \in [Workers -> {"connect", "send", "wait", "buzz", "over"}]
        /\ left' \in [Workers -> Seq(Pages)]
        /\ Accounted' /\ AtEnd' /\ CountsReady'
    BY <1>1, <1>7, <2>1, NextKeeps DEF backendVars, Inv
  <2>4. link' \in [Workers -> Nat] BY <1>2 DEF ScanTypes
  <2>5. UNCHANGED <<atBackend, delivered>> BY <1>1 DEF backendVars
  <2>6. ScanTypes' BY <2>2, <2>3, <2>4, <2>5 DEF ScanTypes, Announcements
  <2> QED BY <1>5, <1>6, <2>3, <2>6
<1>8. CASE pc' = [pc EXCEPT ![w] = "send"] /\ UNCHANGED <<left, skipped>>
  <2>1. ScanTypes' BY <1>1, <1>2, <1>8 DEF ScanTypes, backendVars
  <2>2. Accounted' /\ AtEnd' BY <1>1, <1>8 DEF Accounted, AtEnd, ScanTypes, backendVars
  <2>3. CountsReady' BY <1>1, <1>8 DEF CountsReady, Ready, vars
  <2> QED BY <1>5, <1>6, <2>1, <2>2, <2>3
<1> QED BY <1>1, <1>7, <1>8 DEF tryAgain, set

LEMMA ScannedStep ==
  ASSUME ScanInv, Inv, Inv', NEW w \in Workers, scanned(w)
  PROVE  ScanInv'
<1> USE DEF ScanInv, scanned, set, backendVars
<1>1. ScanTypes' /\ Accounted' BY DEF ScanTypes, Accounted
<1>2. Expected' /\ OneInFlight' BY DEF ScanTypes, Announcements, Expected, OneInFlight, announced
<1>3. AtEnd' BY DEF ScanTypes, AtEnd
<1>4. CountsReady'
  <2>1. left[w] = <<>> /\ w \notin buzzed BY DEF AtEnd, buzz
  <2>2. Ready' = Ready \cup {w} /\ w \notin Ready BY <2>1 DEF Ready, buzz
  <2>3. Ready \in SUBSET Workers BY DEF Ready, Inv, Types
  <2>4. Cardinality(Ready') = Cardinality(Ready) + 1 BY <2>2, <2>3, OneMore
  <2>5. Cardinality(Ready) \in Nat BY <2>3, CountNat
  <2> QED BY <2>4, <2>5 DEF CountsReady, buzz, Inv, Types
<1>5. ClosedLast' BY DEF ClosedLast, buzz, Signal
<1> QED BY <1>1, <1>2, <1>3, <1>4, <1>5

LEMMA AddPageStep ==
  ASSUME ScanInv, Inv, Inv', NEW h \in atBackend, addPageToTail(h)
  PROVE  ScanInv'
<1> USE DEF ScanInv, addPageToTail, set, threadVars
<1> DEFINE new == [h EXCEPT !.pc = "ack"]
<1>1. h \in Announcements BY DEF ScanTypes
<1>2. new \in Announcements /\ new.worker = h.worker /\ new.link = h.link /\ new.msg = h.msg
      /\ new.pc = "ack"
  BY <1>1 DEF Announcements
<1>3. atBackend' = (atBackend \ {h}) \cup {new} OBVIOUS
<1>4. /\ delivered' \in [Pages -> Nat]
      /\ \A p \in Pages : delivered[p] > 0 => delivered'[p] > 0
      /\ h.msg # End => delivered'[h.msg] > 0
  <2>1. CASE h.msg = End BY <2>1 DEF ScanTypes
  <2>2. CASE h.msg # End
    <3>1. h.msg \in Pages BY <1>1, <2>2 DEF Announcements
    <3>2. delivered' = [delivered EXCEPT ![h.msg] = delivered[h.msg] + 1] BY <2>2
    <3>3. delivered \in [Pages -> Nat] BY DEF ScanTypes
    <3> HIDE DEF addPageToTail, ScanInv
    <3> QED BY <3>1, <3>2, <3>3
  <2> QED BY <2>1, <2>2
<1>5. ScanTypes' BY <1>2, <1>4 DEF ScanTypes, Announcements
<1>6. Accounted'
  <2>1. \A w \in Workers : \A p \in Range(Listed[w]) : p \in Pages
    BY ScanAssumption DEF Range
  <2> QED BY <1>4, <2>1 DEF Accounted
<1>7. Expected'
  <2> SUFFICES ASSUME NEW g \in atBackend'
               PROVE  /\ g.link <= link[g.worker]
                      /\ g.link = link[g.worker] => pc[g.worker] = "wait" /\ g.msg = announced(g.worker)
                      /\ g.pc = "ack" /\ g.msg # End => delivered'[g.msg] > 0
    BY DEF Expected, announced
  <2>1. CASE g = new BY <1>2, <1>4, <2>1 DEF Expected
  <2>2. CASE g \in atBackend BY <1>4, <2>2 DEF Expected, ScanTypes, Announcements
  <2> QED BY <1>3, <2>1, <2>2
<1>8. OneInFlight'
  <2> HIDE DEF new
  <2> SUFFICES ASSUME NEW f \in atBackend', NEW g \in atBackend', f.worker = g.worker,
                      f.link = link[f.worker], g.link = link[g.worker]
               PROVE  f = g
    BY DEF OneInFlight
  <2>1. CASE f = new /\ g = new BY <2>1
  <2>2. CASE f = new /\ g \in atBackend \ {h} BY <1>2, <2>2 DEF OneInFlight
  <2>3. CASE g = new /\ f \in atBackend \ {h} BY <1>2, <2>3 DEF OneInFlight
  <2>4. CASE f \in atBackend /\ g \in atBackend BY <2>4 DEF OneInFlight
  <2> QED BY <1>3, <2>1, <2>2, <2>3, <2>4
<1>9. AtEnd' /\ CountsReady' /\ ClosedLast'
  BY DEF AtEnd, CountsReady, Ready, ClosedLast, vars
<1> QED BY <1>5, <1>6, <1>7, <1>8, <1>9

LEMMA AckStep ==
  ASSUME ScanInv, Inv, Inv', NEW h \in atBackend, sendPagePinnedAck(h)
  PROVE  ScanInv'
<1> USE DEF ScanInv
<1> DEFINE w == h.worker
<1>1. h \in Announcements /\ w \in Workers BY DEF ScanTypes, Announcements
<1>2. h.pc = "ack" /\ atBackend' = atBackend \ {h} /\ UNCHANGED <<vars, delivered, closed, ended, told, link, skipped>>
  BY DEF sendPagePinnedAck, threadVars
<1>3. ClosedLast' BY <1>2 DEF ClosedLast, vars
<1>4. CASE Current(h)
  <2>1. next(w) BY <1>4 DEF sendPagePinnedAck
  <2>2. h.link = link[w] /\ h.msg = announced(w) BY <1>4 DEF Current, Expected
  <2>3. left[w] = <<>> \/ delivered[announced(w)] > 0
    BY <1>1, <1>2, <2>2, RestType DEF Expected
  <2>4. /\ pc' \in [Workers -> {"connect", "send", "wait", "buzz", "over"}]
        /\ left' \in [Workers -> Seq(Pages)]
        /\ Accounted' /\ AtEnd' /\ CountsReady'
    BY <1>1, <1>2, <2>1, <2>3, NextKeeps DEF Inv
  <2>5. ScanTypes' BY <1>2, <2>4 DEF ScanTypes, Announcements
  <2>6. \A g \in atBackend' : g.worker = w => g.link # link[w]
    BY <1>2, <2>2 DEF OneInFlight
  <2>7. \A v \in Workers : v # w => pc'[v] = pc[v] /\ announced(v)' = announced(v)
    BY <1>1, <2>1 DEF next, set, announced, ScanTypes
  <2>8. Expected' /\ OneInFlight'
    BY <1>2, <2>6, <2>7 DEF Expected, OneInFlight, ScanTypes, Announcements
  <2> QED BY <1>3, <2>4, <2>5, <2>8
<1>5. CASE UNCHANGED threadVars
  <2>1. ScanTypes' /\ Accounted' /\ AtEnd'
    BY <1>2, <1>5 DEF ScanTypes, Accounted, AtEnd, threadVars
  <2>2. Expected' /\ OneInFlight'
    BY <1>2, <1>5 DEF Expected, OneInFlight, announced, threadVars
  <2>3. CountsReady' BY <1>2, <1>5 DEF CountsReady, Ready, vars, threadVars
  <2> QED BY <1>3, <2>1, <2>2, <2>3
<1> QED BY <1>4, <1>5 DEF sendPagePinnedAck

\* The buffer, the handler and StorageNoMorePage leave the threads alone.
LEMMA OtherStep ==
  ASSUME ScanInv, Inv, Inv',
         popPageFromHead \/ leave \/ waitForAll \/ wakeUp \/ noMorePage \/ noMorePageFails
           \/ UNCHANGED scanVars
  PROVE  ScanInv'
<1> USE DEF ScanInv
<1>1. UNCHANGED <<threadVars, atBackend, delivered, counter, buzzed>>
  BY DEF popPageFromHead, leave, waitForAll, wakeUp, noMorePage, noMorePageFails, backendVars,
         scanVars, vars, testCounter, wait, spuriousWakeup
<1>2. ScanTypes' /\ Accounted' /\ AtEnd'
  BY <1>1 DEF ScanTypes, Accounted, AtEnd, threadVars
<1>3. Expected' /\ OneInFlight' BY <1>1 DEF Expected, OneInFlight, announced, threadVars
<1>4. CountsReady' BY <1>1 DEF CountsReady, Ready, threadVars
<1>5. ClosedLast'
  <2>1. CASE popPageFromHead \/ leave \/ UNCHANGED scanVars
    BY <2>1 DEF ClosedLast, popPageFromHead, leave, scanVars, backendVars, vars
  <2>2. CASE waitForAll BY <2>2 DEF ClosedLast, waitForAll, testCounter, wait, backendVars
  <2>3. CASE wakeUp BY <2>3 DEF ClosedLast, wakeUp, spuriousWakeup, backendVars
  <2>4. CASE noMorePage \/ noMorePageFails
    BY <2>4 DEF ClosedLast, noMorePage, noMorePageFails, allScanned, backendVars, vars
  <2> QED BY <2>1, <2>2, <2>3, <2>4
<1> QED BY <1>2, <1>3, <1>4, <1>5

\* Pages stay accounted for and the count is that of threads that are at their end.
THEOREM ScanInvariance == ScanSpec => []ScanInv
<1>1. ScanInv /\ Inv /\ Inv' /\ [ScanNext]_scanVars => ScanInv'
  BY ConnectStep, ConnectFailsStep, SendStep, TryAgainStep, ScannedStep, AddPageStep, AckStep,
     OtherStep DEF ScanNext, ThreadStep, BackendStep
<1>2. ScanSpec => []Inv BY ScanImplementsBuzzer, Invariance, PTL
<1> QED BY <1>1, <1>2, ScanInitial, PTL DEF ScanSpec

\* No page of any iterator is missing when the consumers leave, except those that
\* could not be announced, whatever connections break and however often.
THEOREM NothingMissingCorrect == ScanSpec => []NothingMissing
<1>1. ScanInv /\ Inv => NothingMissing
  <2> SUFFICES ASSUME ScanInv, Inv, ended, NEW w \in Workers, NEW p \in Range(Listed[w])
               PROVE  delivered[p] > 0 \/ p \in skipped
    BY DEF NothingMissing
  <2>1. n <= counter BY DEF ScanInv, ClosedLast, Inv, Remembered
  <2>2. Ready \in SUBSET Workers BY DEF Ready, Inv, Types
  <2>3. Cardinality(Ready) = n
    BY <2>1, <2>2, CountNat, SizeNat DEF ScanInv, CountsReady, Inv, Types
  <2>4. Ready = Workers BY <2>2, <2>3, CountNat
  <2>5. left[w] = <<>> BY <2>4 DEF Ready
  <2> QED BY <2>5, RangeEmpty DEF ScanInv, Accounted
<1>2. ScanSpec => []Inv BY ScanImplementsBuzzer, Invariance, PTL
<1> QED BY <1>1, <1>2, ScanInvariance, PTL

-----------------------------------------------------------------------------
(* How often a page is delivered *)

\* No page is at two places of the iterators, as ScanOnce says of those of UserSet.
Once(f) ==
  \A v, w \in Workers : \A i \in 1 .. Len(f[v]), j \in 1 .. Len(f[w]) :
    f[v][i] = f[w][j] => v = w /\ i = j

\* The announcements of a page that the backend has not yet added to the buffer.
ToAdd(p) == {h \in atBackend : h.msg = p /\ h.pc = "add"}

\* A thread will announce the page, and has not yet done so or has to do so again.
Owed(p) == \E w \in Workers : p \in Range(left[w]) /\ ~(pc[w] = "wait" /\ announced(w) = p)

\* What was added, is to be added and may be announced was caused by the iterator or a fault.
Paid ==
  \A p \in Pages : delivered[p] + Cardinality(ToAdd(p)) + (IF Owed(p) THEN 1 ELSE 0) <= 1 + faults

RepeatInv == IsFiniteSet(atBackend) /\ faults \in Nat /\ Once(left) /\ Paid

\* The sums of Paid are sums of numbers.
LEMMA ToAddFinite ==
  ASSUME IsFiniteSet(atBackend), NEW p
  PROVE  IsFiniteSet(ToAdd(p)) /\ Cardinality(ToAdd(p)) \in Nat
<1>1. ToAdd(p) \subseteq atBackend BY DEF ToAdd
<1> QED BY <1>1, FS_Subset, FS_CardinalityType

\* A step that announces nothing new keeps Paid.
LEMMA PaidKept ==
  ASSUME ScanTypes, RepeatInv, IsFiniteSet(atBackend'), faults' \in Nat, faults <= faults', UNCHANGED delivered,
         \A p \in Pages : ToAdd(p)' \subseteq ToAdd(p),
         (\A p \in Pages : Owed(p)' => Owed(p)) \/ faults' = faults + 1
  PROVE  Paid'
<1> SUFFICES ASSUME NEW p \in Pages
             PROVE  delivered'[p] + Cardinality(ToAdd(p)') + (IF Owed(p)' THEN 1 ELSE 0) <= 1 + faults'
  BY DEF Paid
<1>1. IsFiniteSet(ToAdd(p)) /\ Cardinality(ToAdd(p)) \in Nat BY ToAddFinite DEF RepeatInv
<1>2. Cardinality(ToAdd(p)') <= Cardinality(ToAdd(p)) /\ Cardinality(ToAdd(p)') \in Nat
  BY <1>1, FS_Subset, FS_CardinalityType
<1>3. delivered[p] + Cardinality(ToAdd(p)) + (IF Owed(p) THEN 1 ELSE 0) <= 1 + faults
  BY DEF RepeatInv, Paid
<1>4. delivered[p] \in Nat /\ faults \in Nat BY DEF ScanTypes, RepeatInv
<1>5. Owed(p)' => Owed(p) \/ faults' = faults + 1 OBVIOUS
<1> HIDE DEF Owed
<1> QED BY <1>1, <1>2, <1>3, <1>4, <1>5

\* The page a thread passes does not come again, and the others were owed before.
LEMMA NextOwes ==
  ASSUME ScanTypes, Once(left), NEW w \in Workers, next(w)
  PROVE  Once(left') /\ \A p : Owed(p)' => Owed(p)
<1> DEFINE s == left[w]
<1>1. s \in Seq(Pages) /\ left' = [left EXCEPT ![w] = rest(w)] /\ pc' = [pc EXCEPT ![w] = IF s = <<>> THEN "buzz" ELSE "send"]
  BY DEF next, set, ScanTypes
<1>2. ASSUME NEW i \in 1 .. Len(rest(w))
      PROVE  i + 1 \in 1 .. Len(s) /\ rest(w)[i] = s[i + 1] /\ rest(w)[i] # announced(w)
  <2>1. s # <<>> BY <1>2 DEF rest
  <2>2. i + 1 \in 1 .. Len(s) /\ rest(w)[i] = s[i + 1] /\ 1 \in 1 .. Len(s) /\ announced(w) = s[1]
    BY <1>1, <1>2, <2>1 DEF rest, announced
  <2>3. s[i + 1] # s[1] BY <2>2 DEF Once
  <2> QED BY <2>2, <2>3
<1>3. \A v \in Workers : v # w => left'[v] = left[v] /\ pc'[v] = pc[v] /\ announced(v)' = announced(v)
  BY <1>1 DEF ScanTypes, announced
<1>4. left'[w] = rest(w) BY <1>1 DEF ScanTypes
<1>5. Once(left')
  <2> SUFFICES ASSUME NEW u \in Workers, NEW v \in Workers,
                      NEW i \in 1 .. Len(left'[u]), NEW j \in 1 .. Len(left'[v]), left'[u][i] = left'[v][j]
               PROVE  u = v /\ i = j
    BY DEF Once
  <2> DEFINE x == IF u = w THEN i + 1 ELSE i
             y == IF v = w THEN j + 1 ELSE j
  <2>1. x \in 1 .. Len(left[u]) /\ left[u][x] = left'[u][i] BY <1>2, <1>3, <1>4
  <2>2. y \in 1 .. Len(left[v]) /\ left[v][y] = left'[v][j] BY <1>2, <1>3, <1>4
  <2>3. u = v /\ x = y BY <2>1, <2>2 DEF Once
  <2> QED BY <2>3
<1>6. ASSUME NEW p, Owed(p)' PROVE Owed(p)
  <2>1. PICK v \in Workers : p \in Range(left'[v]) /\ ~(pc'[v] = "wait" /\ announced(v)' = p)
    BY <1>6 DEF Owed
  <2>2. CASE v # w BY <1>3, <2>1, <2>2 DEF Owed
  <2>3. CASE v = w
    <3>1. rest(w) \in Seq(Pages) BY RestType
    <3>2. PICK i \in 1 .. Len(rest(w)) : p = rest(w)[i] BY <1>4, <2>1, <2>3, <3>1 DEF Range
    <3>3. i + 1 \in DOMAIN s /\ p = s[i + 1] /\ p # announced(w) BY <1>1, <1>2, <3>2
    <3> QED BY <3>3 DEF Owed, Range
  <2> QED BY <2>2, <2>3
<1> QED BY <1>5, <1>6

\* A step of a thread that neither announces a page nor passes one.
LEMMA QuietRepeats ==
  ASSUME ScanTypes, RepeatInv, UNCHANGED <<left, delivered>>, atBackend' \subseteq atBackend,
         faults' = faults \/ faults' = faults + 1,
         \A w \in Workers : pc'[w] = "wait" <=> pc[w] = "wait"
  PROVE  RepeatInv'
<1>1. \A w \in Workers : announced(w)' = announced(w) BY DEF announced
<1>2. \A p : Owed(p)' => Owed(p) BY <1>1 DEF Owed
<1>3. \A p : ToAdd(p)' \subseteq ToAdd(p) BY DEF ToAdd
<1>4. IsFiniteSet(atBackend') /\ faults' \in Nat /\ faults <= faults' BY FS_Subset DEF RepeatInv
<1>5. Once(left') BY DEF RepeatInv
<1> QED BY <1>2, <1>3, <1>4, <1>5, PaidKept DEF RepeatInv

\* An announcement is one that was owed.
LEMMA SendRepeats ==
  ASSUME ScanTypes, RepeatInv, NEW w \in Workers, send(w)
  PROVE  RepeatInv'
<1> DEFINE a == announced(w)
           new == [worker |-> w, link |-> link[w], msg |-> a, pc |-> "add"]
<1>1. /\ pc[w] = "send" /\ pc' = [pc EXCEPT ![w] = "wait"] /\ atBackend' = atBackend \cup {new}
      /\ UNCHANGED <<left, delivered, faults>>
  BY DEF send, set
<1>2. IsFiniteSet(atBackend') BY <1>1, FS_AddElement DEF RepeatInv
<1>3. \A v \in Workers : announced(v)' = announced(v) BY <1>1 DEF announced
<1>4. ASSUME NEW p \in Pages
      PROVE  delivered'[p] + Cardinality(ToAdd(p)') + (IF Owed(p)' THEN 1 ELSE 0) <= 1 + faults'
  <2>1. IsFiniteSet(ToAdd(p)) /\ Cardinality(ToAdd(p)) \in Nat BY ToAddFinite DEF RepeatInv
  <2>2. delivered[p] + Cardinality(ToAdd(p)) + (IF Owed(p) THEN 1 ELSE 0) <= 1 + faults
    BY DEF RepeatInv, Paid
  <2>3. delivered[p] \in Nat /\ faults \in Nat BY DEF ScanTypes, RepeatInv
  <2>4. CASE p # a
    <3>1. ToAdd(p)' = ToAdd(p) BY <1>1, <2>4 DEF ToAdd
    <3>2. Owed(p)' => Owed(p) BY <1>1, <1>3, <2>4 DEF Owed, ScanTypes
    <3> QED BY <1>1, <2>1, <2>2, <2>3, <3>1, <3>2
  <2>5. CASE p = a
    <3>1. left[w] \in Seq(Pages) /\ left[w] # <<>> /\ p = left[w][1] /\ 1 \in 1 .. Len(left[w]) /\ 1 \in DOMAIN left[w]
      BY <2>5, ScanAssumption DEF announced, ScanTypes
    <3>2. Owed(p) BY <1>1, <3>1 DEF Owed, Range
    <3>3. ASSUME NEW v \in Workers, p \in Range(left[v]) PROVE v = w
      <4>1. left[v] \in Seq(Pages) BY DEF ScanTypes
      <4>2. PICK i \in 1 .. Len(left[v]) : p = left[v][i] BY <3>3, <4>1 DEF Range
      <4> QED BY <3>1, <4>2 DEF RepeatInv, Once
    <3>4. ~Owed(p)' BY <1>1, <1>3, <2>5, <3>3 DEF Owed, ScanTypes
    <3>5. ToAdd(p)' \subseteq ToAdd(p) \cup {new} BY <1>1 DEF ToAdd
    <3>6. Cardinality(ToAdd(p)') <= Cardinality(ToAdd(p)) + 1 /\ Cardinality(ToAdd(p)') \in Nat
      <4>1. IsFiniteSet(ToAdd(p) \cup {new}) /\ Cardinality(ToAdd(p) \cup {new}) <= Cardinality(ToAdd(p)) + 1
        <5> HIDE DEF new, ToAdd
        <5>1. /\ IsFiniteSet(ToAdd(p) \cup {new})
              /\ Cardinality(ToAdd(p) \cup {new}) = Cardinality(ToAdd(p))
                 \/ Cardinality(ToAdd(p) \cup {new}) = Cardinality(ToAdd(p)) + 1
          BY <2>1, FS_AddElement, Zenon
        <5> QED BY <2>1, <5>1
      <4> QED BY <2>1, <3>5, <4>1, FS_Subset, FS_CardinalityType
    <3> HIDE DEF Owed, ToAdd, a, new
    <3> QED BY <1>1, <2>1, <2>2, <2>3, <3>2, <3>4, <3>6
  <2> QED BY <2>4, <2>5
<1> QED BY <1>1, <1>2, <1>4 DEF RepeatInv, Paid

\* A connection that breaks may cost one more announcement, and counts as one fault.
LEMMA TryAgainRepeats ==
  ASSUME ScanTypes, RepeatInv, NEW w \in Workers, sendFails(w) \/ disconnect(w)
  PROVE  RepeatInv'
<1>1. tryAgain(w) /\ UNCHANGED <<atBackend, delivered>> /\ faults' = faults + 1
  BY DEF sendFails, disconnect, fault, backendVars
<1>2. faults' \in Nat /\ faults <= faults' /\ IsFiniteSet(atBackend') /\ \A p : ToAdd(p)' = ToAdd(p)
  BY <1>1 DEF RepeatInv, ToAdd
<1>3. Paid' BY <1>1, <1>2, PaidKept
<1>4. Once(left')
  <2>1. CASE next(w) BY <2>1, NextOwes DEF RepeatInv
  <2>2. CASE UNCHANGED left BY <2>2 DEF RepeatInv
  <2> QED BY <1>1, <2>1, <2>2 DEF tryAgain
<1> QED BY <1>2, <1>3, <1>4 DEF RepeatInv

\* The backend adds what was announced.
LEMMA AddRepeats ==
  ASSUME ScanTypes, RepeatInv, NEW h \in atBackend, addPageToTail(h)
  PROVE  RepeatInv'
<1> DEFINE new == [h EXCEPT !.pc = "ack"]
<1>1. /\ h.pc = "add" /\ atBackend' = (atBackend \ {h}) \cup {new} /\ UNCHANGED <<pc, left, faults>>
      /\ h.msg = End => delivered' = delivered
      /\ h.msg # End => delivered' = [delivered EXCEPT ![h.msg] = delivered[h.msg] + 1]
  BY DEF addPageToTail, threadVars, set
<1>2. h \in Announcements /\ new.pc = "ack" BY DEF ScanTypes, Announcements
<1>3. IsFiniteSet(atBackend')
  <2>1. IsFiniteSet(atBackend \ {h}) BY FS_Subset DEF RepeatInv
  <2> QED BY <1>1, <2>1, FS_AddElement
<1>4. \A p : Owed(p)' <=> Owed(p)
  <2>1. \A v \in Workers : announced(v)' = announced(v) BY <1>1 DEF announced
  <2> QED BY <1>1, <2>1 DEF Owed
<1>5. \A p : ToAdd(p)' = ToAdd(p) \ {h}
  <2> HIDE DEF new
  <2> QED BY <1>1, <1>2 DEF ToAdd
<1>6. ASSUME NEW p \in Pages
      PROVE  delivered'[p] + Cardinality(ToAdd(p)') + (IF Owed(p)' THEN 1 ELSE 0) <= 1 + faults'
  <2>1. IsFiniteSet(ToAdd(p)) /\ Cardinality(ToAdd(p)) \in Nat BY ToAddFinite DEF RepeatInv
  <2>2. delivered[p] + Cardinality(ToAdd(p)) + (IF Owed(p) THEN 1 ELSE 0) <= 1 + faults
    BY DEF RepeatInv, Paid
  <2>3. delivered[p] \in Nat /\ faults \in Nat BY DEF ScanTypes, RepeatInv
  <2>4. CASE h.msg = p
    <3>1. h \in ToAdd(p) BY <1>1, <2>4 DEF ToAdd
    <3>2. Cardinality(ToAdd(p)') = Cardinality(ToAdd(p)) - 1 BY <1>5, <2>1, <3>1, FS_RemoveElement
    <3>3. delivered'[p] = delivered[p] + 1 BY <1>1, <2>4, ScanAssumption DEF ScanTypes
    <3> QED BY <1>1, <1>4, <2>1, <2>2, <2>3, <3>2, <3>3
  <2>5. CASE h.msg # p
    <3>1. ToAdd(p)' = ToAdd(p) BY <1>5, <2>5 DEF ToAdd
    <3>2. delivered'[p] = delivered[p] BY <1>1, <2>5 DEF ScanTypes
    <3> QED BY <1>1, <1>4, <2>1, <2>2, <2>3, <3>1, <3>2
  <2> QED BY <2>4, <2>5
<1> QED BY <1>1, <1>3, <1>6 DEF RepeatInv, Paid

\* An acknowledgement, in time or not, removes an announcement that was added.
LEMMA AckRepeats ==
  ASSUME ScanTypes, RepeatInv, NEW h \in atBackend, sendPagePinnedAck(h)
  PROVE  RepeatInv'
<1>1. atBackend' = atBackend \ {h} /\ UNCHANGED <<delivered, faults>> BY DEF sendPagePinnedAck
<1>2. CASE UNCHANGED threadVars BY <1>1, <1>2, QuietRepeats DEF threadVars
<1>3. CASE next(h.worker)
  <2>1. h.worker \in Workers BY DEF ScanTypes, Announcements
  <2>2. Once(left') /\ \A p : Owed(p)' => Owed(p) BY <1>3, <2>1, NextOwes DEF RepeatInv
  <2>3. IsFiniteSet(atBackend') /\ faults' \in Nat /\ faults <= faults' BY <1>1, FS_Subset DEF RepeatInv
  <2>4. \A p : ToAdd(p)' \subseteq ToAdd(p) BY <1>1 DEF ToAdd
  <2> QED BY <1>1, <2>2, <2>3, <2>4, PaidKept DEF RepeatInv
<1> QED BY <1>2, <1>3 DEF sendPagePinnedAck

\* Every step keeps the account of repeated pages.
LEMMA RepeatsKept == ScanTypes /\ RepeatInv /\ [ScanNext]_scanVars => RepeatInv'
<1> SUFFICES ASSUME ScanTypes, RepeatInv, [ScanNext]_scanVars PROVE RepeatInv'
  OBVIOUS
<1>1. ASSUME NEW w \in Workers, connect(w) \/ connectFails(w) \/ scanned(w) PROVE RepeatInv'
  <2>1. UNCHANGED <<left, delivered, atBackend>> /\ (faults' = faults \/ faults' = faults + 1)
    BY <1>1 DEF connect, connectFails, scanned, fault, backendVars
  <2>2. \A v \in Workers : pc'[v] = "wait" <=> pc[v] = "wait"
    BY <1>1 DEF connect, connectFails, scanned, set, ScanTypes
  <2> QED BY <2>1, <2>2, QuietRepeats
<1>2. CASE popPageFromHead \/ leave \/ waitForAll \/ wakeUp \/ noMorePage \/ noMorePageFails \/ UNCHANGED scanVars
  <2>1. UNCHANGED <<pc, left, delivered, atBackend>> /\ (faults' = faults \/ faults' = faults + 1)
    BY <1>2 DEF popPageFromHead, leave, waitForAll, wakeUp, noMorePage, noMorePageFails, scanVars, fault,
                backendVars, threadVars
  <2> QED BY <2>1, QuietRepeats
<1> QED BY <1>1, <1>2, SendRepeats, TryAgainRepeats, AddRepeats, AckRepeats DEF ScanNext, ThreadStep, BackendStep

\* When no page is listed twice, a page is added to the buffer once and once more for each
\* connection that broke, whatever the order in which announcements arrive.
THEOREM RepeatsAreFaultsCorrect ==
  ASSUME Once(Listed)
  PROVE  ScanSpec => []RepeatsAreFaults
<1>1. ScanInit => RepeatInv
  <2> SUFFICES ASSUME ScanInit PROVE RepeatInv OBVIOUS
  <2>1. IsFiniteSet(atBackend) /\ faults \in Nat /\ Once(left) BY FS_EmptySet DEF ScanInit
  <2>2. \A p : ToAdd(p) = {} BY DEF ScanInit, ToAdd
  <2>3. Cardinality({}) = 0 BY FS_EmptySet
  <2>4. \A p \in Pages : delivered[p] = 0 /\ faults = 0 BY DEF ScanInit
  <2>5. Paid BY <2>2, <2>3, <2>4 DEF Paid
  <2> QED BY <2>1, <2>5 DEF RepeatInv
<1>2. ScanTypes /\ RepeatInv => RepeatsAreFaults
  <2> SUFFICES ASSUME ScanTypes, RepeatInv, NEW p \in Pages PROVE delivered[p] <= 1 + faults
    BY DEF RepeatsAreFaults
  <2>1. Cardinality(ToAdd(p)) \in Nat BY ToAddFinite DEF RepeatInv
  <2>2. delivered[p] + Cardinality(ToAdd(p)) + (IF Owed(p) THEN 1 ELSE 0) <= 1 + faults
    BY DEF RepeatInv, Paid
  <2>3. delivered[p] \in Nat /\ faults \in Nat BY DEF ScanTypes, RepeatInv
  <2> QED BY <2>1, <2>2, <2>3
<1>3. ScanInv => ScanTypes BY DEF ScanInv
<1> QED BY <1>1, <1>2, <1>3, RepeatsKept, ScanInvariance, PTL DEF ScanSpec

=============================================================================
