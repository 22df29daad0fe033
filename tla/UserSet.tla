-------------------------------- MODULE UserSet --------------------------------
(***************************************************************************)
(* A set of a worker node (storage/source/UserSet.cc): pages are added to  *)
(* the map of dirty pages, flush threads (PDBFlushConsumerWork.cc) move    *)
(* them to the file, scans (SetCachePageIterator.cc,                       *)
(* PartitionPageIterator.cc) read both, the server crashes and restarts.   *)
(*                                                                         *)
(* There is one flush thread for each partition.  It holds the read side   *)
(* of the cache's lock while it works; next() of the iterator over dirty   *)
(* pages takes the write side, so it runs while no flush thread does.      *)
(* A scan runs one thread per iterator.  The StorageGetSetPages handler    *)
(* pins the set after getIterators() (pinLate); dump, exportToFile,        *)
(* evictPages and the query server pin it before.                          *)
(* What is in the page cache is left to PageCache: a page the map lists as *)
(* inCache is there, any other page may or may not be.                     *)
(* No page is added to a set while it is scanned, and it is scanned by one *)
(* scan at a time, as the comment on top of SetCachePageIterator.cc wants. *)
(***************************************************************************)
EXTENDS PartitionedFile

CONSTANTS
  PinLate,       \* the kinds of scans: a subset of BOOLEAN
  MaxScans,      \* bound: scans of the set
  MaxCrashes,    \* bound: crashes of the server
  MaxSets        \* bound: how often the set is created

Cache == "cache"       \* the thread with the iterator over dirty pages

ASSUME SetAssumption ==
  /\ PinLate \subseteq BOOLEAN /\ {MaxScans, MaxCrashes, MaxSets} \subseteq Nat
  /\ Cache \notin Partitions

VARIABLES
  status,        \* "none", "size", "body" (being created), "up", "clearing", "down", "refused"
  sets,          \* how often the set was created
  run,           \* crashes so far: the run of the server
  seqId,
  born,          \* history: the run in which the page with an id was made
  dirty,         \* dirtyPagesInPageCache
  isPinned, dirtyMutex,
  fpc, fpage, fret,   \* flush threads
  scans,              \* how often the set was scanned
  spc, pinLate,       \* the scan under way, and its kind
  iter, todo,         \* the iterator over dirty pages and what it has not reached
  ipc,                \* the threads of the scan: "next", "read", "erase"
  numPages, numIteratedPages,
  initial, returned,  \* history: pages of the set when the scan began; how often each was returned
  excused, erased, twice  \* history, see the properties

threadVars == <<iter, todo, ipc, numPages, numIteratedPages>>
scanVars == <<scans, spc, pinLate, threadVars, initial, returned, excused, erased, twice>>
flushVars == <<fpc, fpage, fret>>
setVars == <<seqId, born, dirty, isPinned, dirtyMutex>>
lifeVars == <<status, sets, run>>
vars == <<fileVars, lifeVars, setVars, flushVars, scanVars>>

NotListed == [inCache |-> FALSE, partitionId |-> NoId, pageSeqInPartition |-> NoId]
InCache == [inCache |-> TRUE, partitionId |-> NoId, pageSeqInPartition |-> NoId]

listedIn(d) == {k \in PageIds : d[k] # NotListed}
listed == listedIn(dirty)

noPages == [k \in PageIds |-> 0]

noThread == [i \in Partitions \cup {Cache} |-> "next"]
noneOf == [p \in Partitions |-> 0]

ScanInit ==
  /\ scans = 0 /\ spc = "idle" /\ pinLate = FALSE
  /\ iter = NoId /\ todo = {}
  /\ ipc = noThread
  /\ numPages = noneOf /\ numIteratedPages = noneOf
  /\ initial = {} /\ returned = noPages
  /\ excused = {} /\ erased = {}
  /\ twice = {}

Init ==
  /\ FileInit
  /\ status = "none" /\ sets = 0 /\ run = 0
  /\ seqId = 0 /\ born = noPages
  /\ dirty = [k \in PageIds |-> NotListed]
  /\ isPinned = FALSE /\ dirtyMutex = FALSE
  /\ fpc = [p \in Partitions |-> "idle"] /\ fpage = [p \in Partitions |-> NoId]
  /\ fret = [p \in Partitions |-> NoId]
  /\ ScanInit

Active == spc # "idle"
HasIterators == spc = "scan" \/ (spc = "pin" /\ pinLate)

-----------------------------------------------------------------------------
(* Creating and clearing the set *)

createSet ==
  /\ status = "none" /\ sets < MaxSets
  /\ \A p \in Partitions : fpc[p] = "idle"
  /\ newFile
  /\ status' = "size" /\ sets' = sets + 1
  /\ seqId' = 0
  /\ UNCHANGED <<run, born, dirty, isPinned, dirtyMutex, flushVars, scanVars>>

createSize ==
  /\ status = "size" /\ writeMetaSize /\ status' = "body"
  /\ UNCHANGED <<sets, run, setVars, flushVars, scanVars>>

createBody ==
  /\ status = "body" /\ writeMetaBody /\ status' = "up"
  /\ UNCHANGED <<sets, run, setVars, flushVars, scanVars>>

\* UserType::removeSet: the set is forgotten with its map.
clearSet ==
  /\ status = "up" /\ ~Active
  /\ clearMeta /\ status' = "clearing"
  /\ UNCHANGED <<sets, run, setVars, flushVars, scanVars>>

clearPartition(p) ==
  /\ status = "clearing" /\ data[p] # <<>>
  /\ clearData(p)
  /\ UNCHANGED <<lifeVars, setVars, flushVars, scanVars>>

clearDone ==
  /\ status = "clearing" /\ \A p \in Partitions : data[p] = <<>>
  /\ clearEnd /\ status' = "none"
  /\ dirty' = [k \in PageIds |-> NotListed]
  /\ UNCHANGED <<sets, run, seqId, born, isPinned, dirtyMutex, flushVars, scanVars>>

-----------------------------------------------------------------------------
(* Adding and flushing pages *)

addPage ==
  /\ status = "up" /\ seqId \in PageIds
  /\ ~Active
  /\ ~dirtyMutex
  /\ seqId' = seqId + 1
  /\ born' = [born EXCEPT ![seqId] = run]
  /\ dirty' = [dirty EXCEPT ![seqId] = InCache]
  /\ UNCHANGED <<fileVars, lifeVars, isPinned, dirtyMutex, flushVars, scanVars>>

\* A page comes out of the flush buffer; flushLock().
takePage(p, k) ==
  /\ status = "up" /\ fpc[p] = "idle"
  /\ dirty[k].inCache /\ \A q \in Partitions : fpc[q] # "idle" => fpage[q] # k
  /\ fpc' = [fpc EXCEPT ![p] = "append"]
  /\ fpage' = [fpage EXCEPT ![p] = k]
  /\ UNCHANGED <<fileVars, lifeVars, setVars, fret, scanVars>>

\* appendPage, and what it returns
appendPage(p) ==
  /\ fpc[p] = "append"
  /\ \/ /\ appendOk(p, <<fpage[p], born[fpage[p]]>>)
        /\ fret' = [fret EXCEPT ![p] = metaData.numPages[p]]
     \/ /\ appendFailed(p) \/ appendCleared
        /\ fret' = [fret EXCEPT ![p] = NoId]
  /\ fpc' = [fpc EXCEPT ![p] = "lock"]
  /\ UNCHANGED <<lifeVars, setVars, fpage, scanVars>>

\* Mutant: the meta partition is not written, as for a temporary set.
flushSize_NoMeta(p) ==
  /\ fpc[p] = "lock" /\ ~dirtyMutex
  /\ dirtyMutex' = TRUE
  /\ fpc' = [fpc EXCEPT ![p] = "label"]
  /\ UNCHANGED <<fileVars, lifeVars, seqId, born, dirty, isPinned, fpage, fret, scanVars>>

\* lockDirtyPageSet(), and writeMeta as far as the size
flushSize(p) ==
  /\ fpc[p] = "lock" /\ ~dirtyMutex
  /\ dirtyMutex' = TRUE
  /\ writeMetaSize \/ writeMetaCleared
  /\ fpc' = [fpc EXCEPT ![p] = IF cleared THEN "label" ELSE "body"]
  /\ UNCHANGED <<lifeVars, seqId, born, dirty, isPinned, fpage, fret, scanVars>>

flushBody(p) ==
  /\ fpc[p] = "body"
  /\ writeMetaBody
  /\ fpc' = [fpc EXCEPT ![p] = "label"]
  /\ UNCHANGED <<lifeVars, setVars, fpage, fret, scanVars>>

\* Mutant: the entry is erased whether or not a scan is under way.
label_Erases(p) == NotListed

\* The entry of the page, in a set that is pinned: where it is in the file.
label(p) ==
  IF isPinned
    THEN [inCache |-> FALSE, partitionId |-> p, pageSeqInPartition |-> fret[p]]
    ELSE NotListed

\* removePageFromDirtyPageSet, unlockDirtyPageSet, flushUnlock
removePageFromDirtyPageSet(p) ==
  LET k == fpage[p]
      entry == IF dirty[k] = NotListed THEN NotListed ELSE label(p)
  IN  /\ fpc[p] = "label"
      /\ dirty' = [dirty EXCEPT ![k] = entry]
      /\ erased' = erased \cup IF HasIterators /\ entry = NotListed
                                THEN {k} \cap (todo \cup {iter}) ELSE {}
      /\ excused' = excused \cup IF Active /\ fret[p] = NoId THEN {k} ELSE {}
      /\ dirtyMutex' = FALSE
      /\ fpc' = [fpc EXCEPT ![p] = "idle"]
      /\ fpage' = [fpage EXCEPT ![p] = NoId] /\ fret' = [fret EXCEPT ![p] = NoId]
      /\ UNCHANGED <<fileVars, lifeVars, seqId, born, isPinned, scans, spc, pinLate,
                     threadVars, initial, returned, twice>>

-----------------------------------------------------------------------------
(* Scanning *)

pages == {k \in PageIds : dirty[k].inCache} \cup indexed(metaData)

startScan(late) ==
  /\ status = "up" /\ spc = "idle" /\ scans < MaxScans
  /\ scans' = scans + 1 /\ pinLate' = late
  /\ spc' = IF late THEN "clean" ELSE "pin"
  /\ initial' = pages
  /\ UNCHANGED <<fileVars, lifeVars, setVars, flushVars, threadVars,
                 returned, excused, erased, twice>>

setPinned ==
  /\ spc = "pin" /\ ~dirtyMutex
  /\ isPinned' = TRUE
  /\ spc' = IF pinLate THEN "scan" ELSE "clean"
  /\ UNCHANGED <<fileVars, lifeVars, seqId, born, dirty, dirtyMutex, flushVars,
                 scans, pinLate, threadVars, initial, returned, excused, erased, twice>>

flushedEntries == {k \in listed : ~dirty[k].inCache}

\* Mutant: flushed pages stay in the map.
toClean_None == {}

toClean == flushedEntries

cleanDirtyPageSet ==
  /\ spc = "clean" /\ ~dirtyMutex
  /\ dirty' = [k \in PageIds |-> IF k \in toClean THEN NotListed ELSE dirty[k]]
  /\ spc' = "iter"
  /\ twice' = listed \ flushedEntries
  /\ UNCHANGED <<fileVars, lifeVars, seqId, born, isPinned, dirtyMutex, flushVars,
                 scans, pinLate, threadVars, initial, returned, excused, erased>>

\* The iterator goes to some entry of the map that it has not reached yet.
advance(left, d) ==
  LET next == left \cap listedIn(d)
  IN  IF next = {}
        THEN iter' = NoId /\ todo' = {}
        ELSE \E k \in next : iter' = k /\ todo' = next \ {k}

\* The rest of getIterators, in one critical section; fileMutex is not taken.
getIterators ==
  /\ spc = "iter" /\ ~dirtyMutex
  /\ advance(listed, dirty)
  /\ numPages' = metaData.numPages
  /\ twice' = twice \cap listed \cap indexed(metaData)
  /\ spc' = IF pinLate THEN "pin" ELSE "scan"
  /\ UNCHANGED <<fileVars, lifeVars, setVars, flushVars, scans, pinLate, ipc, numIteratedPages,
                 initial, returned, excused, erased>>

give(k) == returned' = [returned EXCEPT ![k] = IF @ = 2 THEN 2 ELSE @ + 1]

\* What a load gave instead of page k; a torn page is dropped by the reader.
giveLoaded(k, got) ==
  IF k # NoId /\ got = <<k, born[k]>>
    THEN give(k) /\ UNCHANGED <<excused, twice>>
    ELSE /\ excused' = excused \cup {k}
         /\ IF got = Torn
              THEN UNCHANGED <<returned, twice>>
              ELSE give(got[1]) /\ twice' = twice \cup {got[1]}

threadAt(i, pc) == status = "up" /\ spc = "scan" /\ ipc[i] = pc
goto(i, pc) == ipc' = [ipc EXCEPT ![i] = pc]

\* next() on an entry that is inCache: getPage1 and ++iter, under evictionLock().
nextInCache ==
  LET k == iter
  IN  /\ threadAt(Cache, "next") /\ k # NoId /\ dirty[k].inCache
      /\ \A p \in Partitions : fpc[p] = "idle"
      /\ give(k)
      /\ advance(todo, dirty)
      /\ UNCHANGED <<fileVars, lifeVars, setVars, flushVars, scans, spc, pinLate, ipc, numPages,
                     numIteratedPages, initial, excused, erased, twice>>

\* next() on an entry that says where the page was flushed to: the page is
\* still in the cache,
nextFlushedHit ==
  LET k == iter
  IN  /\ threadAt(Cache, "next") /\ k \in flushedEntries
      /\ give(k)
      /\ goto(Cache, "erase")
      /\ UNCHANGED <<fileVars, lifeVars, setVars, flushVars, scans, spc, pinLate, iter, todo, numPages,
                     numIteratedPages, initial, excused, erased, twice>>

\* or it is loaded,
nextFlushedSeek ==
  LET k == iter
  IN  /\ threadAt(Cache, "next") /\ k \in flushedEntries
      /\ dirty[k].pageSeqInPartition # NoId
      /\ seekPageDirect(dirty[k].partitionId, dirty[k].pageSeqInPartition)
      /\ goto(Cache, "read")
      /\ UNCHANGED <<lifeVars, setVars, flushVars, scans, spc, pinLate, iter, todo, numPages, numIteratedPages,
                     initial, returned, excused, erased, twice>>

nextFlushedRead ==
  LET k == iter
      p == dirty[k].partitionId
  IN  /\ threadAt(Cache, "read") /\ k \in listed
      /\ readPage(p)
      /\ giveLoaded(k, pageAt(p, pos[p]))
      /\ goto(Cache, "erase")
      /\ UNCHANGED <<lifeVars, setVars, flushVars, scans, spc, pinLate, iter, todo, numPages, numIteratedPages,
                     initial, erased>>

\* and its entry is removed.
nextErase ==
  LET k == iter
      d == [dirty EXCEPT ![k] = NotListed]
  IN  /\ threadAt(Cache, "erase") /\ k \in listed /\ ~dirtyMutex
      /\ dirty' = d
      /\ advance(todo, d)
      /\ goto(Cache, "next")
      /\ UNCHANGED <<fileVars, lifeVars, seqId, born, isPinned, dirtyMutex, flushVars, scans, spc, pinLate,
                     numPages, numIteratedPages, initial, returned, excused, erased, twice>>

\* Undefined behaviour: the entry under the iterator was erased by another thread.
\* At best the thread gets no more pages (at worst, see crash).
nextDangling ==
  /\ status = "up" /\ spc = "scan" /\ iter # NoId /\ iter \notin listed
  /\ erased' = erased \cup todo
  /\ iter' = NoId /\ todo' = {}
  /\ goto(Cache, "next")
  /\ UNCHANGED <<fileVars, lifeVars, setVars, flushVars, scans, spc, pinLate, numPages, numIteratedPages,
                 initial, returned, excused, twice>>

\* Mutant: the iterator stops one page before the end of the partition.
morePages_OffByOne(p) == numIteratedPages[p] + 1 < numPages[p]

morePages(p) == numIteratedPages[p] < numPages[p]

\* next() of the iterator over a partition: the page is in the cache,
partitionHit(p) ==
  LET k == getPageId(p, numIteratedPages[p])
  IN  /\ threadAt(p, "next") /\ morePages(p) /\ k # NoId
      /\ give(k)
      /\ numIteratedPages' = [numIteratedPages EXCEPT ![p] = @ + 1]
      /\ UNCHANGED <<fileVars, lifeVars, setVars, flushVars, scans, spc, pinLate, iter, todo, ipc, numPages,
                     initial, excused, erased, twice>>

\* or it is loaded.
partitionSeek(p) ==
  /\ threadAt(p, "next") /\ morePages(p)
  /\ seekPageDirect(p, numIteratedPages[p])
  /\ goto(p, "read")
  /\ UNCHANGED <<lifeVars, setVars, flushVars, scans, spc, pinLate, iter, todo, numPages, numIteratedPages,
                 initial, returned, excused, erased, twice>>

partitionRead(p) ==
  /\ threadAt(p, "read")
  /\ readPage(p)
  /\ giveLoaded(getPageId(p, numIteratedPages[p]), pageAt(p, pos[p]))
  /\ numIteratedPages' = [numIteratedPages EXCEPT ![p] = @ + 1]
  /\ goto(p, "next")
  /\ UNCHANGED <<lifeVars, setVars, flushVars, scans, spc, pinLate, iter, todo, numPages, initial, erased>>

\* The scan is over, and so is the record of it.
dropScan ==
  /\ spc' = "idle" /\ pinLate' = FALSE
  /\ iter' = NoId /\ todo' = {} /\ ipc' = noThread
  /\ numPages' = noneOf /\ numIteratedPages' = noneOf
  /\ initial' = {} /\ returned' = noPages
  /\ excused' = {} /\ erased' = {} /\ twice' = {}
  /\ UNCHANGED scans

\* All threads of the scan have come to their end: setPinned(false).
endScan ==
  /\ status = "up" /\ spc = "scan" /\ ~dirtyMutex
  /\ iter = NoId /\ \A i \in Partitions \cup {Cache} : ipc[i] = "next"
  /\ \A p \in Partitions : ~morePages(p)
  /\ isPinned' = FALSE
  /\ dropScan
  /\ UNCHANGED <<fileVars, lifeVars, seqId, born, dirty, dirtyMutex, flushVars>>

-----------------------------------------------------------------------------
(* Crash and restart *)

crash ==
  /\ status \notin {"none", "down", "refused"} /\ run < MaxCrashes
  /\ run' = run + 1 /\ status' = "down"
  /\ fileCrash
  /\ seqId' = 0
  /\ dirty' = [k \in PageIds |-> NotListed]
  /\ isPinned' = FALSE /\ dirtyMutex' = FALSE
  /\ fpc' = [p \in Partitions |-> "idle"] /\ fpage' = [p \in Partitions |-> NoId]
  /\ fret' = [p \in Partitions |-> NoId]
  /\ dropScan
  /\ UNCHANGED <<sets, born>>

\* initializeFromMetaTypeDir finds the meta partition of the set and reads it.
\* The UserSet starts with an empty map and goes on after the latest page id.
restart ==
  /\ status = "down" /\ metaExists /\ metaComplete
  /\ openFile /\ status' = "up"
  /\ seqId' = IF meta.numFlushedPages = 0 THEN 0 ELSE meta.latestPageId + 1
  /\ UNCHANGED <<sets, run, born, dirty, isPinned, dirtyMutex, flushVars, scanVars>>

\* "Metadata corrupted, please remove storage folders and try again..."; exit(-1)
restartRefused ==
  /\ status = "down" /\ metaExists /\ ~metaComplete
  /\ status' = "refused"
  /\ UNCHANGED <<fileVars, sets, run, setVars, flushVars, scanVars>>

restartWithoutSet ==
  /\ status = "down" /\ ~metaExists
  /\ status' = "none"
  /\ UNCHANGED <<fileVars, sets, run, setVars, flushVars, scanVars>>

flush(p) ==
  \/ \E k \in PageIds : takePage(p, k)
  \/ appendPage(p) \/ flushSize(p) \/ flushBody(p) \/ removePageFromDirtyPageSet(p)

scan ==
  \/ \E late \in PinLate : startScan(late)
  \/ setPinned \/ cleanDirtyPageSet \/ getIterators
  \/ nextInCache \/ nextFlushedHit \/ nextFlushedSeek \/ nextFlushedRead
  \/ nextErase \/ nextDangling
  \/ \E p \in Partitions : partitionHit(p) \/ partitionSeek(p) \/ partitionRead(p)
  \/ endScan

Next ==
  \/ createSet \/ createSize \/ createBody
  \/ clearSet \/ clearDone \/ \E p \in Partitions : clearPartition(p)
  \/ addPage \/ \E p \in Partitions : flush(p)
  \/ scan
  \/ crash \/ restart \/ restartRefused \/ restartWithoutSet

Spec == Init /\ [][Next]_vars

-----------------------------------------------------------------------------
(* Properties *)

MetaDataType ==
  [ numFlushedPages : 0 .. Cardinality(PageIds), latestPageId : PageIds \cup {NoId},
    numPages : [Partitions -> Nat],
    pageIndexes : [PageIds -> [partitionId : Partitions \cup {NoId},
                               pageSeqInPartition : Nat \cup {NoId}]] ]

\* Every variable has its type; no more pages are counted than there are ids.
TypeOK ==
  /\ data \in [Partitions -> Seq((PageIds \X (0 .. MaxCrashes)) \cup {Torn})]
  /\ metaData \in MetaDataType /\ meta \in MetaDataType
  /\ metaSize \in Nat /\ bodySize \in Nat
  /\ {metaExists, cleared, fileMutex, isPinned, dirtyMutex} \subseteq BOOLEAN
  /\ failures \in 0 .. MaxFailures /\ pos \in [Partitions -> Nat]
  /\ status \in {"none", "size", "body", "up", "clearing", "down", "refused"}
  /\ run \in 0 .. MaxCrashes /\ sets \in 0 .. MaxSets /\ seqId \in Nat
  /\ dirty \in [PageIds -> [inCache : BOOLEAN, partitionId : Partitions \cup {NoId},
                            pageSeqInPartition : Nat \cup {NoId}]]
  /\ fpc \in [Partitions -> {"idle", "append", "lock", "body", "label"}]
  /\ fpage \in [Partitions -> PageIds \cup {NoId}] /\ fret \in [Partitions -> Nat \cup {NoId}]
  /\ scans \in 0 .. MaxScans /\ pinLate \in BOOLEAN
  /\ spc \in {"idle", "pin", "clean", "iter", "scan"}
  /\ ipc \in [Partitions \cup {Cache} -> {"next", "read", "erase"}]
  /\ iter \in PageIds \cup {NoId} /\ todo \subseteq PageIds

\* A page of the index reads back as it was written, unless its partition holds
\* more than the pages that were counted (a short write, or pages a crash left
\* behind): in particular no page id is given twice (appendPage keeps the
\* largest id, whatever the order in which the flush threads append).
IndexReadsBack ==
  status = "up" => \A k \in indexed(metaData) :
    LET i == metaData.pageIndexes[k]
    IN  \/ pageAt(i.partitionId, i.pageSeqInPartition) = <<k, born[k]>>
        \/ Len(data[i.partitionId]) > metaData.numPages[i.partitionId]

\* What the meta partition lists and the data partitions hold stays so, in spite
\* of crashes and of whatever is appended afterwards, until the set is cleared.
Durable ==
  [][\A k \in indexed(meta) :
       LET i == meta.pageIndexes[k]
           holds == metaExists /\ pageAt(i.partitionId, i.pageSeqInPartition) = <<k, born[k]>>
       IN  holds /\ metaExists' =>
             /\ meta'.pageIndexes[k] = i
             /\ pageAt(i.partitionId, i.pageSeqInPartition)' = <<k, born[k]>>]_vars

\* A page stops being listed as dirty only when the meta partition on disk lists
\* it, unless a write has failed (PDBFlushConsumerWork only logs the failure):
\* whatever was flushed is found again after a crash.
KeptOrWritten ==
  status = "up" /\ failures = 0 =>
    \A k \in PageIds : k < seqId /\ born[k] = run => dirty[k].inCache \/ k \in indexed(meta)

ScanEnds == spc = "scan" /\ spc' = "idle" /\ status' = "up"

\* A scan that has ended returned every page the set had at its beginning, except
\* those whose entries were erased while it held its iterators, those for which
\* a load read another place of the file, and those that could not be written.
ScanComplete ==
  [][ScanEnds => \A k \in initial : returned[k] > 0 \/ k \in erased \cup excused]_vars

\* No entry is erased under a scan that pins the set before it makes its iterators.
PinProtects == ~pinLate => erased = {}

\* No page is returned twice, except one that was flushed while the scan made its
\* iterators (it was dirty when the map was cleaned and is in the file and listed
\* afterwards), or one that was read by mistake.
ScanOnce == \A k \in PageIds \ twice : returned[k] < 2

=============================================================================
