------------------------------ MODULE ScanProtocol ------------------------------
(***************************************************************************)
(* How a scan hands the pages of a set from the storage server to the      *)
(* backend (storage/source/PDBScanWork.cc, storage/source/PageScanner.cc,  *)
(* the StorageGetSetPages handler of PangeaStorageServer.cc).              *)
(*                                                                         *)
(* Each scan thread announces its pages one by one over a connection of    *)
(* its own, waits for the acknowledgement of each, and buzzes.  The thread *)
(* that waits for them in PDBBuzzer then tells the backend that there are  *)
(* no more pages.  Whatever fails, the thread reconnects and sends the     *)
(* announcement again; the backend does not notice that it has it already. *)
(*                                                                         *)
(* The iterators that give the pages are module UserSet, the buffer of the *)
(* backend is module PageCircularBuffer: here it is a bounded queue.       *)
(***************************************************************************)
EXTENDS PDBBuzzer, Sequences, Functions

CONSTANTS
  Pages,
  Listed,       \* the sequence of pages of each worker's iterator
  End,          \* the announcement that morePagesToLoad is false
  BufSize,      \* pages the buffer of the backend takes
  MaxRetries,   \* MAX_RETRIES of PDBScanWork
  MaxFaults     \* bound: connections that fail

ASSUME ScanAssumption ==
  /\ Listed \in [Workers -> Seq(Pages)] /\ End \notin Pages
  /\ BufSize \in Nat \ {0} /\ MaxRetries \in Nat \ {0} /\ MaxFaults \in Nat

VARIABLES
  pc,           \* of each scan thread
  left,         \* pages its iterator has not given or that are not acknowledged
  retry, link,  \* the attempts at the page; the number of the connection
  atBackend,    \* announcements in recvPagesLoop
  buffer, closed, ended,   \* the buffer; the consumers have left their loop
  told,         \* StorageNoMorePage was sent
  faults,
  delivered, skipped       \* history: how often a page was added; pages given up

threadVars == <<pc, left, retry, link, skipped>>
backendVars == <<atBackend, buffer, closed, ended, delivered>>
scanVars == <<vars, threadVars, backendVars, told, faults>>

ScanInit ==
  /\ Init
  /\ pc = [w \in Workers |-> "connect"] /\ left = Listed
  /\ retry = [w \in Workers |-> 0] /\ link = [w \in Workers |-> 0]
  /\ atBackend = {} /\ buffer = <<>> /\ closed = FALSE /\ ended = FALSE
  /\ told = FALSE /\ faults = 0
  /\ delivered = [p \in Pages |-> 0] /\ skipped = {}

fault == faults < MaxFaults /\ faults' = faults + 1

set(f, w, x) == [f EXCEPT ![w] = x]

-----------------------------------------------------------------------------
(* PDBScanWork::execute *)

connect(w) ==
  /\ pc[w] = "connect"
  /\ pc' = set(pc, w, "send") /\ retry' = set(retry, w, 0)
  /\ UNCHANGED <<vars, left, link, skipped, backendVars, told, faults>>

\* The last attempt ends the thread with an alarm that no function counts.
connectFails(w) ==
  /\ pc[w] = "connect" /\ fault
  /\ retry' = set(retry, w, retry[w] + 1)
  /\ IF retry[w] + 1 < MaxRetries
       THEN UNCHANGED <<vars, pc>>
       ELSE buzzError(w) /\ pc' = set(pc, w, "over")
  /\ UNCHANGED <<left, link, skipped, backendVars, told>>

announced(w) == IF left[w] = <<>> THEN End ELSE Head(left[w])

send(w) ==
  /\ pc[w] = "send"
  /\ pc' = set(pc, w, "wait")
  /\ atBackend' = atBackend \cup
       {[worker |-> w, link |-> link[w], msg |-> announced(w), pc |-> "add"]}
  /\ UNCHANGED <<vars, left, retry, link, skipped, buffer, closed, ended, delivered, told, faults>>

\* Mutant: an acknowledgement ends the loop over the attempts only at the first one.
rest_Repeats(w) == IF left[w] = <<>> \/ retry[w] > 0 THEN left[w] ELSE Tail(left[w])

rest(w) == IF left[w] = <<>> THEN <<>> ELSE Tail(left[w])

\* The announcement is through, acknowledged or not.
next(w) ==
  /\ retry' = set(retry, w, 0) /\ left' = set(left, w, rest(w))
  /\ pc' = set(pc, w, IF left[w] = <<>> THEN "buzz" ELSE "send")

\* reconnect; after MAX_RETRIES attempts the page is left out.
tryAgain(w) ==
  /\ link' = set(link, w, link[w] + 1)
  /\ IF retry[w] + 1 < MaxRetries
       THEN /\ retry' = set(retry, w, retry[w] + 1) /\ pc' = set(pc, w, "send")
            /\ UNCHANGED <<left, skipped>>
       ELSE /\ next(w)
            /\ skipped' = skipped \cup ({announced(w)} \ {End})

sendFails(w) ==
  /\ pc[w] = "send" /\ fault
  /\ tryAgain(w)
  /\ UNCHANGED <<vars, backendVars, told>>

\* The announcement reached the backend; otherwise it is as if send had failed.
disconnect(w) ==
  /\ pc[w] = "wait" /\ fault
  /\ tryAgain(w)
  /\ UNCHANGED <<vars, backendVars, told>>

scanned(w) ==
  /\ pc[w] = "buzz"
  /\ buzz(w)
  /\ pc' = set(pc, w, "over")
  /\ UNCHANGED <<left, retry, link, skipped, backendVars, told, faults>>

-----------------------------------------------------------------------------
(* PageScanner::recvPagesLoop *)

hasRoom == Len(buffer) < BufSize

\* A page waits for room in the buffer, closed or not.
addPageToTail(h) ==
  /\ h \in atBackend /\ h.pc = "add"
  /\ atBackend' = (atBackend \ {h}) \cup {[h EXCEPT !.pc = "ack"]}
  /\ \/ h.msg = End /\ UNCHANGED <<buffer, delivered>>
     \/ /\ h.msg # End /\ hasRoom
        /\ buffer' = Append(buffer, h.msg)
        /\ delivered' = set(delivered, h.msg, delivered[h.msg] + 1)
  /\ UNCHANGED <<vars, threadVars, closed, ended, told, faults>>

Current(h) == pc[h.worker] = "wait" /\ link[h.worker] = h.link

\* The thread gets the acknowledgement if it still waits on this connection.
sendPagePinnedAck(h) ==
  LET w == h.worker
  IN  /\ h \in atBackend /\ h.pc = "ack"
      /\ atBackend' = atBackend \ {h}
      /\ IF Current(h) THEN next(w) /\ UNCHANGED <<link, skipped>>
         ELSE UNCHANGED threadVars
      /\ UNCHANGED <<vars, buffer, closed, ended, delivered, told, faults>>

\* A consumer takes a page, or leaves when the buffer is closed and empty.
popPageFromHead ==
  /\ buffer # <<>> /\ ~ended
  /\ buffer' = Tail(buffer)
  /\ UNCHANGED <<vars, threadVars, atBackend, closed, ended, delivered, told, faults>>

leave ==
  /\ closed /\ buffer = <<>> /\ ~ended
  /\ ended' = TRUE
  /\ UNCHANGED <<vars, threadVars, atBackend, buffer, closed, delivered, told, faults>>

-----------------------------------------------------------------------------
(* The StorageGetSetPages handler *)

waitForAll ==
  /\ testCounter \/ wait
  /\ UNCHANGED <<threadVars, backendVars, told, faults>>

wakeUp ==
  /\ spuriousWakeup
  /\ UNCHANGED <<threadVars, backendVars, told, faults>>

\* Mutant: the backend is told without waiting for the scan threads.
allScanned_NotAsked == TRUE

allScanned == state = "done"

\* StorageNoMorePage closes the buffer.  It is sent once, without an answer.
noMorePage ==
  /\ allScanned /\ ~told /\ told' = TRUE
  /\ closed' = TRUE
  /\ UNCHANGED <<vars, threadVars, atBackend, buffer, ended, delivered, faults>>

noMorePageFails ==
  /\ allScanned /\ ~told /\ told' = TRUE
  /\ fault
  /\ UNCHANGED <<vars, threadVars, backendVars>>

-----------------------------------------------------------------------------

ThreadStep(w) == connect(w) \/ send(w) \/ scanned(w)

BackendStep == \E h \in atBackend : addPageToTail(h) \/ sendPagePinnedAck(h)

ScanNext ==
  \/ \E w \in Workers : ThreadStep(w) \/ connectFails(w) \/ sendFails(w) \/ disconnect(w)
  \/ BackendStep \/ popPageFromHead \/ leave
  \/ waitForAll \/ wakeUp \/ noMorePage \/ noMorePageFails

ScanSpec == ScanInit /\ [][ScanNext]_scanVars

\* All threads are scheduled, an announcement for which there is room in the buffer is
\* taken, consumers take pages as long as there are some, and wake-ups without a cause
\* do not go on for ever.
ScanFairness ==
  /\ \A w \in Workers : WF_scanVars(ThreadStep(w))
  /\ WF_scanVars(BackendStep) /\ WF_scanVars(popPageFromHead) /\ WF_scanVars(leave)
  /\ WF_scanVars(waitForAll) /\ WF_scanVars(noMorePage)
  /\ <>[][~wakeUp]_scanVars

FairScanSpec == ScanSpec /\ ScanFairness

-----------------------------------------------------------------------------
(* Properties *)

Announcements ==
  [worker : Workers, link : Nat, msg : Pages \cup {End}, pc : {"add", "ack"}]

\* When the consumers leave, they have had every page of every iterator, except those
\* that MAX_RETRIES attempts could not announce: an acknowledged page is in the buffer.
NothingMissing ==
  ended => \A w \in Workers : \A p \in Range(Listed[w]) :
             delivered[p] > 0 \/ p \in skipped

\* Each broken connection repeats a page at most once.
RepeatsAreFaults == \A p \in Pages : delivered[p] <= 1 + faults

\* The consumers leave in the end, unless a scan thread took its error path, which is
\* never counted, or StorageNoMorePage did not reach the backend.
ConsumersLeave == <>(ended \/ ~AllCounted \/ (told /\ ~closed))

=============================================================================
