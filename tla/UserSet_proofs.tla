---------------------------- MODULE UserSet_proofs ----------------------------
(***************************************************************************)
(* Proofs about a set, its file and its scans, for every number of pages,  *)
(* partitions, write failures, scans, crashes and re-creations.            *)
(*                                                                         *)
(* Three invariants, each relying on the ones before it:                   *)
(*   FileInv  the file, its meta partition and its index are consistent;   *)
(*   KeptInv  an entry leaves the map when its page is in the file;        *)
(*   ScanInv  a page of the set is ahead of one iterator, or was returned. *)
(***************************************************************************)
EXTENDS UserSet, TLAPS

-----------------------------------------------------------------------------
(* The inductive invariant *)

\* A page index, in memory or in the meta partition.
Shape ==
  [ numFlushedPages : Nat, latestPageId : PageIds \cup {NoId}, numPages : [Partitions -> Nat],
    pageIndexes : [PageIds -> [partitionId : Partitions \cup {NoId},
                               pageSeqInPartition : Nat \cup {NoId}]] ]

\* An entry of the map of dirty pages.
Entries ==
  [inCache : BOOLEAN, partitionId : Partitions \cup {NoId}, pageSeqInPartition : Nat \cup {NoId}]

\* The types of the variables of the file, of the set with its flush threads, and of a scan.
FileTypes ==
  /\ data \in [Partitions -> Seq((PageIds \X Nat) \cup {Torn})]
  /\ metaData \in Shape /\ meta \in Shape
  /\ metaExists \in BOOLEAN /\ cleared \in BOOLEAN /\ fileMutex \in BOOLEAN
  /\ failures \in Nat

SetTypes ==
  /\ status \in {"none", "size", "body", "up", "clearing", "down", "refused"}
  /\ run \in Nat /\ seqId \in Nat /\ born \in [PageIds -> Nat]
  /\ dirty \in [PageIds -> Entries] /\ isPinned \in BOOLEAN
  /\ fpc \in [Partitions -> {"idle", "append", "lock", "body", "label"}]
  /\ fpage \in [Partitions -> PageIds \cup {NoId}] /\ fret \in [Partitions -> Nat \cup {NoId}]

ScanTypes ==
  /\ spc \in {"idle", "pin", "clean", "iter", "scan"} /\ pinLate \in BOOLEAN
  /\ ipc \in [Partitions \cup {Cache} -> {"next", "read", "erase"}]
  /\ iter \in PageIds \cup {NoId} /\ todo \in SUBSET PageIds
  /\ numPages \in [Partitions -> Nat] /\ numIteratedPages \in [Partitions -> Nat]
  /\ returned \in [PageIds -> Nat]

Types == FileTypes /\ SetTypes /\ ScanTypes

\* Which statuses the other variables allow: the flush threads of a set that is cleared go
\* on without it, and rest before the set is made again.
Life ==
  /\ spc # "idle" => status = "up"
  /\ status \in {"size", "body", "down", "refused"} => \A p \in Partitions : fpc[p] = "idle"
  /\ cleared <=> status \in {"none", "down", "refused"}
  /\ status \in {"size", "body", "up"} => metaExists
  /\ status \in {"clearing", "none"} => ~metaExists
  /\ ~metaExists => meta = emptyMetaData
  /\ status \in {"size", "body"} => metaData = emptyMetaData /\ seqId = 0

\* fileMutex is held by one writeMeta or by clear.
Locked ==
  /\ status \in {"body", "clearing"} => fileMutex
  /\ \A p \in Partitions : fpc[p] = "body" => fileMutex /\ status = "up"
  /\ \A p, q \in Partitions : fpc[p] = "body" /\ fpc[q] = "body" => p = q

\* The map and the flush threads know ids that were given.
Given ==
  /\ status \notin {"up", "clearing"} => listed = {}
  /\ status = "up" => /\ \A k \in listed \cup indexed(metaData) : k < seqId
                      /\ \A p \in Partitions : fpc[p] # "idle" => fpage[p] \in PageIds /\ fpage[p] < seqId

\* An index is consistent: its places exist, each belongs to one page, and the latest id is
\* the largest.
Good(m) ==
  /\ \A k \in indexed(m) :
       /\ m.numFlushedPages > 0 /\ k <= m.latestPageId
       /\ m.pageIndexes[k].partitionId \in Partitions /\ m.pageIndexes[k].pageSeqInPartition \in Nat
       /\ m.pageIndexes[k].pageSeqInPartition < m.numPages[m.pageIndexes[k].partitionId]
  /\ \A j, k \in indexed(m) : m.pageIndexes[j] = m.pageIndexes[k] => j = k

\* What the meta partition lists is where the index in memory has it.
Behind ==
  status \in {"size", "body", "up"} =>
    \A k \in indexed(meta) : metaData.pageIndexes[k] = meta.pageIndexes[k]

\* The data partition holds the pages of the index, or more than those that were counted.
Sound(m, p) ==
  /\ m.numPages[p] <= Len(data[p])
  /\ m.numPages[p] = Len(data[p]) =>
       /\ \A j \in 1 .. Len(data[p]) : data[p][j] # Torn
       /\ \A k \in indexed(m) : m.pageIndexes[k].partitionId = p =>
            data[p][m.pageIndexes[k].pageSeqInPartition + 1] = <<k, born[k]>>

\* Both indexes, the one in memory and the one on disk, are sound while they are in use.
InFile ==
  /\ status \in {"size", "body", "up"} => \A p \in Partitions : Sound(metaData, p)
  /\ metaExists => \A p \in Partitions : Sound(meta, p)

\* A page that a flush thread is about to unlist is in the index, and in the meta partition.
Flushed ==
  status = "up" /\ failures = 0 => \A p \in Partitions :
    /\ fpc[p] \in {"lock", "body"} => fpage[p] \in indexed(metaData)
    /\ fpc[p] = "label" => fpage[p] \in indexed(meta)

\* A page of an earlier run was made before the crash.
Older ==
  \A k \in PageIds : born[k] <= run /\ (status \in {"down", "refused"} => born[k] < run)

\* The iterator removes only entries of pages that were flushed.
ErasesFlushed ==
  /\ spc # "scan" => ipc[Cache] = "next"
  /\ ipc[Cache] # "next" /\ iter # NoId => ~dirty[iter].inCache

\* The file, its meta partition and its index are consistent.
FileInv == Types /\ Life /\ Locked /\ Given /\ Good(meta) /\ Good(metaData) /\ Behind /\ InFile

\* An entry leaves the map when its page is in the file.
KeptInv == Flushed /\ Older /\ ErasesFlushed /\ KeptOrWritten

-----------------------------------------------------------------------------
(* Scans *)

\* The pages the iterator over dirty pages will come to.
AheadInMap(k) == k \in todo \/ (k = iter /\ ipc[Cache] # "erase")

\* The pages the iterators over the partitions will come to.
AheadInFile(k) ==
  /\ k \in indexed(metaData)
  /\ LET i == metaData.pageIndexes[k]
     IN  /\ numIteratedPages[i.partitionId] <= i.pageSeqInPartition
         /\ i.pageSeqInPartition < numPages[i.partitionId]

\* A scan that has no iterators yet.
Preparing == spc \in {"clean", "iter"} \/ (spc = "pin" /\ ~pinLate)

\* What a scan knows before it has its iterators, and when it has none.
Before ==
  /\ spc = "idle" => ~pinLate /\ initial = {} /\ excused = {}
  /\ ~HasIterators => /\ returned = noPages /\ erased = {} /\ ipc = noThread /\ iter = NoId /\ todo = {}
                      /\ numIteratedPages = noneOf
  /\ spc = "iter" => listed \subseteq twice
  /\ Preparing => \A k \in initial : dirty[k].inCache \/ k \in indexed(metaData) \/ k \in excused

\* The iterator over dirty pages is on a page it will not meet again, and misses only pages
\* whose entries were erased.
Map ==
  HasIterators =>
    /\ iter \notin todo /\ (iter = NoId => todo = {})
    /\ todo \subseteq listed \cup erased
    /\ iter # NoId => iter \in listed \cup erased
    /\ \A p \in Partitions : /\ numPages[p] <= metaData.numPages[p]
                             /\ ipc[p] = "read" => morePages(p)

\* Pinning before the iterators are made keeps the entries.
Pinned ==
  ~pinLate => /\ erased = {}
              /\ spc \in {"clean", "iter", "scan"} => isPinned

\* A page comes once: from the map, or from its partition, or it was returned.
Once ==
  HasIterators => \A k \in PageIds \ twice :
    /\ returned[k] < 2
    /\ AheadInMap(k) => returned[k] = 0 /\ ~AheadInFile(k)
    /\ AheadInFile(k) => returned[k] = 0

\* A page of the set is still to come, was returned, or has an excuse.
Complete ==
  HasIterators => \A k \in initial :
    returned[k] > 0 \/ k \in erased \cup excused \/ AheadInMap(k) \/ AheadInFile(k)

\* A flush thread that has an answer has put its page into the index.
Answered ==
  status = "up" => \A p \in Partitions :
    fpc[p] \in {"lock", "body", "label"} /\ fret[p] # NoId => fpage[p] \in indexed(metaData)

\* A page of the set is ahead of one iterator, or was returned, or has an excuse.
ScanInv == Before /\ Map /\ Pinned /\ Once /\ Complete /\ Answered /\ initial \in SUBSET PageIds

-----------------------------------------------------------------------------
(* Types *)

\* The types of the constants that the proofs use.
LEMMA Constants ==
  /\ NoId = -1 /\ NoId \notin PageIds /\ NoId \notin Nat /\ NoId \notin Partitions
  /\ PageIds \subseteq Nat /\ Cache \notin Partitions
  BY FileAssumption, SetAssumption DEF NoId

\* A set that is new has an index that is empty and consistent.
LEMMA EmptyType ==
  /\ emptyMetaData \in Shape /\ indexed(emptyMetaData) = {}
  /\ emptyMetaData.numPages = [p \in Partitions |-> 0]
  BY DEF emptyMetaData, Shape, NoIndex, indexed

\* What appendOk makes of the index.
LEMMA AppendType ==
  ASSUME Types, NEW p \in Partitions, fpage[p] \in PageIds, appendOk(p, <<fpage[p], born[fpage[p]]>>)
  PROVE  /\ metaData' \in Shape
         /\ data' = [data EXCEPT ![p] = Append(data[p], <<fpage[p], born[fpage[p]]>>)]
         /\ metaData'.numFlushedPages = metaData.numFlushedPages + 1
         /\ metaData'.latestPageId = laterId(fpage[p], metaData.latestPageId)
         /\ metaData'.numPages = [metaData.numPages EXCEPT ![p] = metaData.numPages[p] + 1]
         /\ \A k \in PageIds : metaData'.pageIndexes[k] =
              IF k = fpage[p] /\ metaData.pageIndexes[k] = NoIndex
                THEN [partitionId |-> p, pageSeqInPartition |-> metaData.numPages[p]]
                ELSE metaData.pageIndexes[k]
         /\ UNCHANGED <<meta, metaExists, cleared, fileMutex, failures>>
<1> DEFINE k == fpage[p]
           n == metaData.numPages[p]
           index == addPageIndex(metaData.pageIndexes, k, p, n)
<1>1. metaData \in Shape /\ n \in Nat BY DEF Types, FileTypes, Shape
<1>2. metaData' = [numFlushedPages |-> metaData.numFlushedPages + 1,
                   latestPageId |-> laterId(k, metaData.latestPageId),
                   numPages |-> [metaData.numPages EXCEPT ![p] = n + 1],
                   pageIndexes |-> index]
  BY DEF appendOk
<1>3. index \in [PageIds -> [partitionId : Partitions \cup {NoId}, pageSeqInPartition : Nat \cup {NoId}]]
  BY <1>1 DEF addPageIndex, Shape
<1>4. \A j \in PageIds : index[j] = IF j = k /\ metaData.pageIndexes[j] = NoIndex
                                      THEN [partitionId |-> p, pageSeqInPartition |-> n]
                                      ELSE metaData.pageIndexes[j]
  BY <1>1 DEF addPageIndex, Shape
<1>5. laterId(k, metaData.latestPageId) \in PageIds \cup {NoId} BY <1>1 DEF laterId, Shape
<1>6. [metaData.numPages EXCEPT ![p] = n + 1] \in [Partitions -> Nat] BY <1>1 DEF Shape
<1>7. metaData.numFlushedPages + 1 \in Nat BY <1>1 DEF Shape
<1>8. data' = [data EXCEPT ![p] = Append(data[p], <<fpage[p], born[fpage[p]]>>)]
      /\ UNCHANGED <<meta, metaExists, cleared, fileMutex, failures>>
  BY DEF appendOk
<1> HIDE DEF index, k, n
<1>9. metaData' \in Shape BY <1>2, <1>3, <1>5, <1>6, <1>7 DEF Shape
<1>10. metaData'.pageIndexes = index BY <1>2
<1> QED BY <1>2, <1>4, <1>8, <1>9, <1>10 DEF k, n

\* What the steps of a scan leave alone: they only drop entries of the map.
ScanFrame ==
  /\ UNCHANGED <<data, meta, metaExists, metaData, cleared, fileMutex, failures, status, run, seqId, born>>
  /\ UNCHANGED <<fpc, fpage, fret>>
  /\ \A k \in PageIds : dirty'[k] \in {dirty[k], NotListed}
  /\ status = "up" \/ spc # "idle"

\* The steps of a scan leave the file, its index and the flush threads alone.
LEMMA ScanLeaves ==
  ASSUME Types, scan
  PROVE  ScanFrame /\ dirty' \in [PageIds -> Entries] /\ isPinned' \in BOOLEAN
<1> USE Constants DEF disk, fileVars, lifeVars, setVars, flushVars, scanVars, threadVars, Types, SetTypes
<1>0. NotListed \in Entries BY DEF NotListed, Entries
<1>1. ASSUME NEW late \in PinLate, startScan(late)
      PROVE  ScanFrame /\ dirty' \in [PageIds -> Entries] /\ isPinned' \in BOOLEAN
  BY <1>1 DEF startScan, ScanFrame
<1>2. CASE setPinned BY <1>2 DEF setPinned, ScanFrame
<1>3. CASE cleanDirtyPageSet BY <1>0, <1>3 DEF cleanDirtyPageSet, ScanFrame
<1>4. CASE getIterators BY <1>4 DEF getIterators, ScanFrame
<1>5. CASE nextInCache \/ nextFlushedHit \/ nextDangling
  BY <1>5 DEF nextInCache, nextFlushedHit, nextDangling, threadAt, ScanFrame
<1>6. CASE nextFlushedSeek \/ nextFlushedRead
  BY <1>6 DEF nextFlushedSeek, nextFlushedRead, seekPageDirect, readPage, threadAt, ScanFrame
<1>7. CASE nextErase BY <1>0, <1>7 DEF nextErase, threadAt, ScanFrame, listed, listedIn
<1>8. ASSUME NEW p \in Partitions, partitionHit(p) \/ partitionSeek(p) \/ partitionRead(p)
      PROVE  ScanFrame /\ dirty' \in [PageIds -> Entries] /\ isPinned' \in BOOLEAN
  BY <1>8 DEF partitionHit, partitionSeek, partitionRead, seekPageDirect, readPage, threadAt, ScanFrame
<1>9. CASE endScan BY <1>9 DEF endScan, ScanFrame
<1> QED BY <1>1, <1>2, <1>3, <1>4, <1>5, <1>6, <1>7, <1>8, <1>9 DEF scan

\* A page that is returned is counted.
LEMMA GiveType ==
  ASSUME ScanTypes, NEW k, give(k)
  PROVE  /\ returned' \in [PageIds -> Nat]
         /\ \A j \in PageIds : j # k => returned'[j] = returned[j]
         /\ k \in PageIds => returned'[k] > 0 /\ (returned[k] = 0 => returned'[k] = 1)
<1>1. returned \in [PageIds -> Nat] /\ returned' = [returned EXCEPT ![k] = IF returned[k] = 2 THEN 2 ELSE returned[k] + 1]
  BY DEF ScanTypes, give
<1>2. CASE k \in PageIds
  <2>1. returned[k] \in Nat BY <1>1, <1>2
  <2> QED BY <1>1, <1>2, <2>1
<1>3. CASE k \notin PageIds BY <1>1, <1>3
<1> QED BY <1>2, <1>3

\* A load returns its page, or the page has an excuse and whatever else comes is noted.
LEMMA LoadType ==
  ASSUME ScanTypes, NEW k, NEW got, giveLoaded(k, got)
  PROVE  /\ returned' \in [PageIds -> Nat]
         /\ excused \subseteq excused' /\ twice \subseteq twice'
         /\ \A j \in PageIds : returned'[j] = returned[j] \/ j \in twice' \/ (j = k /\ give(k))
         /\ \A j \in PageIds : returned[j] > 0 => returned'[j] > 0
         /\ k \in PageIds => returned'[k] > 0 \/ k \in excused'
<1>1. CASE k # NoId /\ got = <<k, born[k]>>
  BY <1>1, GiveType DEF giveLoaded, ScanTypes, give
<1>2. CASE ~(k # NoId /\ got = <<k, born[k]>>) /\ got = Torn
  BY <1>2 DEF giveLoaded, ScanTypes
<1>3. CASE ~(k # NoId /\ got = <<k, born[k]>>) /\ got # Torn
  <2>1. give(got[1]) /\ twice' = twice \cup {got[1]} /\ excused' = excused \cup {k}
    BY <1>3 DEF giveLoaded
  <2>2. \A j \in PageIds : returned[j] > 0 => returned'[j] > 0 BY <2>1 DEF give, ScanTypes
  <2> QED BY <2>1, <2>2, GiveType
<1> QED BY <1>1, <1>2, <1>3

\* The steps of a scan keep the types of a scan.
LEMMA ScanTypesKept ==
  ASSUME Types, scan
  PROVE  ScanTypes'
<1> USE Constants DEF Types, ScanTypes, threadVars
<1>0. ASSUME NEW left, NEW d, advance(left, d), left \subseteq PageIds
      PROVE  iter' \in PageIds \cup {NoId} /\ todo' \in SUBSET PageIds
  BY <1>0 DEF advance, listedIn
<1>1. ASSUME NEW late \in PinLate, startScan(late) PROVE ScanTypes'
  BY <1>1, SetAssumption DEF startScan
<1>2. CASE setPinned BY <1>2 DEF setPinned
<1>3. CASE cleanDirtyPageSet BY <1>3 DEF cleanDirtyPageSet
<1>4. CASE getIterators
  <2>1. iter' \in PageIds \cup {NoId} /\ todo' \in SUBSET PageIds BY <1>0, <1>4 DEF getIterators, listed, listedIn
  <2>2. metaData.numPages \in [Partitions -> Nat] BY DEF FileTypes, Shape
  <2> QED BY <1>4, <2>1, <2>2 DEF getIterators
<1>5. CASE nextInCache
  <2>1. iter' \in PageIds \cup {NoId} /\ todo' \in SUBSET PageIds BY <1>0, <1>5 DEF nextInCache
  <2>2. returned' \in [PageIds -> Nat] BY <1>5, GiveType DEF nextInCache
  <2> QED BY <1>5, <2>1, <2>2 DEF nextInCache
<1>6. CASE nextFlushedHit
  <2>2. returned' \in [PageIds -> Nat] BY <1>6, GiveType DEF nextFlushedHit
  <2> QED BY <1>6, <2>2 DEF nextFlushedHit, goto
<1>7. CASE nextFlushedSeek BY <1>7 DEF nextFlushedSeek, goto
<1>8. CASE nextFlushedRead
  <2>2. returned' \in [PageIds -> Nat] BY <1>8, LoadType DEF nextFlushedRead
  <2> QED BY <1>8, <2>2 DEF nextFlushedRead, goto
<1>9. CASE nextErase
  <2>1. iter' \in PageIds \cup {NoId} /\ todo' \in SUBSET PageIds BY <1>0, <1>9 DEF nextErase
  <2> QED BY <1>9, <2>1 DEF nextErase, goto
<1>10. CASE nextDangling BY <1>10 DEF nextDangling, goto
<1>11. ASSUME NEW p \in Partitions, partitionHit(p) PROVE ScanTypes'
  <2>2. returned' \in [PageIds -> Nat] BY <1>11, GiveType DEF partitionHit
  <2> QED BY <1>11, <2>2 DEF partitionHit
<1>12. ASSUME NEW p \in Partitions, partitionSeek(p) PROVE ScanTypes'
  BY <1>12 DEF partitionSeek, goto
<1>13. ASSUME NEW p \in Partitions, partitionRead(p) PROVE ScanTypes'
  <2>2. returned' \in [PageIds -> Nat] BY <1>13, LoadType DEF partitionRead
  <2> QED BY <1>13, <2>2 DEF partitionRead, goto
<1>14. CASE endScan
  BY <1>14 DEF endScan, dropScan, noThread, noneOf, noPages
<1> QED BY <1>1, <1>2, <1>3, <1>4, <1>5, <1>6, <1>7, <1>8, <1>9, <1>10, <1>11, <1>12, <1>13, <1>14 DEF scan

-----------------------------------------------------------------------------
(* The file and its index: one lemma for each group of steps *)

\* The invariant holds before the set is made.
LEMMA FileInitial == Init => FileInv
<1> SUFFICES ASSUME Init PROVE FileInv OBVIOUS
<1> USE Constants, EmptyType DEF Init, FileInit, ScanInit
<1>0. data \in [Partitions -> Seq((PageIds \X Nat) \cup {Torn})] OBVIOUS
<1>1. FileTypes BY <1>0 DEF FileTypes
<1>2. SetTypes BY DEF SetTypes, Entries, NotListed, noPages
<1>3. ScanTypes BY DEF ScanTypes, noThread, noneOf, noPages
<1>4. Life /\ Locked BY DEF Life, Locked
<1>5. Given BY DEF Given, listed, listedIn
<1>6. Good(meta) /\ Good(metaData) /\ Behind /\ InFile BY DEF Good, Behind, InFile
<1> QED BY <1>1, <1>2, <1>3, <1>4, <1>5, <1>6 DEF FileInv, Types

\* The constructor of a new set.
LEMMA CreateKeeps ==
  ASSUME FileInv, createSet \/ createSize \/ createBody
  PROVE  FileInv'
<1> USE Constants, EmptyType DEF FileInv, scanVars, threadVars, flushVars, setVars
<1>0. \A p \in Partitions : Len(data[p]) \in Nat BY DEF Types, FileTypes
<1>1. CASE createSet
  <2> USE <1>1 DEF createSet, newFile, openData
  <2>1. meta = emptyMetaData BY DEF Life
  <2>2. Types' BY DEF Types, FileTypes, SetTypes, ScanTypes
  <2>3. Life' /\ Locked' BY <2>1 DEF Life, Locked
  <2>4. Given' BY DEF Given, listed
  <2>5. Good(meta)' /\ Good(metaData)' /\ Behind' BY <2>1 DEF Good, Behind
  <2>6. InFile' BY <1>0, <2>1 DEF InFile, Sound
  <2> QED BY <2>2, <2>3, <2>4, <2>5, <2>6
<1>2. CASE createSize
  <2> USE <1>2 DEF createSize, writeMetaSize
  <2>1. Types' BY DEF Types, FileTypes, SetTypes, ScanTypes
  <2>2. Life' /\ Locked' BY DEF Life, Locked
  <2>3. Given' /\ Good(meta)' /\ Good(metaData)' /\ Behind' BY DEF Given, Good, Behind, listed
  <2>4. InFile' BY DEF InFile, Sound
  <2> QED BY <2>1, <2>2, <2>3, <2>4
<1>3. CASE createBody
  <2> USE <1>3 DEF createBody, writeMetaBody
  <2>0. metaData = emptyMetaData /\ \A p \in Partitions : fpc[p] = "idle" BY DEF Life
  <2>1. Types' BY DEF Types, FileTypes, SetTypes, ScanTypes
  <2>2. Life' /\ Locked' BY <2>0 DEF Life, Locked
  <2>3. Given' BY <2>0 DEF Given, listed
  <2>4. Good(meta)' /\ Good(metaData)' /\ Behind' BY DEF Good, Behind
  <2>5. InFile' BY DEF InFile, Sound
  <2> QED BY <2>1, <2>2, <2>3, <2>4, <2>5
<1> QED BY <1>1, <1>2, <1>3

\* clear(), whose steps hold fileMutex.
LEMMA ClearKeeps ==
  ASSUME FileInv, clearSet \/ clearDone \/ \E p \in Partitions : clearPartition(p)
  PROVE  FileInv'
<1> USE Constants, EmptyType DEF FileInv, scanVars, threadVars, flushVars, setVars, lifeVars
<1>1. CASE clearSet
  <2> USE <1>1 DEF clearSet, clearMeta, Active
  <2>1. Types' BY DEF Types, FileTypes, SetTypes, ScanTypes
  <2>2. Life' /\ Locked' BY DEF Life, Locked
  <2>3. Given' /\ Good(meta)' /\ Good(metaData)' /\ Behind' BY DEF Given, Good, Behind, listed
  <2>4. InFile' BY DEF InFile, Sound
  <2> QED BY <2>1, <2>2, <2>3, <2>4
<1>2. CASE clearDone
  <2> USE <1>2 DEF clearDone, clearEnd, disk
  <2>0. \A p \in Partitions : fpc[p] # "body" BY DEF Locked
  <2>1. Types' BY DEF Types, FileTypes, SetTypes, ScanTypes, NotListed, Entries
  <2>2. Life' /\ Locked' BY <2>0 DEF Life, Locked
  <2>3. Given' BY DEF Given, listed, listedIn
  <2>4. Good(meta)' /\ Good(metaData)' /\ Behind' BY DEF Good, Behind
  <2>5. InFile' BY DEF InFile, Life
  <2> QED BY <2>1, <2>2, <2>3, <2>4, <2>5
<1>3. ASSUME NEW p \in Partitions, clearPartition(p) PROVE FileInv'
  <2> USE <1>3 DEF clearPartition, clearData
  <2>1. data' \in [Partitions -> Seq((PageIds \X Nat) \cup {Torn})] BY DEF Types, FileTypes
  <2>2. Types' BY <2>1 DEF Types, FileTypes, SetTypes, ScanTypes
  <2>3. Life' /\ Locked' /\ Given' BY DEF Life, Locked, Given, listed
  <2>4. Good(meta)' /\ Good(metaData)' /\ Behind' BY DEF Good, Behind
  <2>5. InFile' BY DEF InFile, Life
  <2> QED BY <2>2, <2>3, <2>4, <2>5
<1> QED BY <1>1, <1>2, <1>3

\* A page of the meta partition is in the index in memory.
LEMMA MetaIndexed ==
  ASSUME FileInv, status \in {"size", "body", "up"}
  PROVE  indexed(meta) \subseteq indexed(metaData)
  BY DEF FileInv, Behind, indexed

\* A new page has an id that the index does not have.
LEMMA AddKeeps ==
  ASSUME FileInv, addPage
  PROVE  FileInv'
<1> USE Constants, EmptyType DEF FileInv, addPage, scanVars, threadVars, flushVars, setVars, lifeVars, fileVars, disk
<1>1. InCache \in Entries BY DEF InCache, Entries
<1>2. Types' BY SMTT(40), <1>1 DEF Types, FileTypes, SetTypes, ScanTypes
<1>3. Life' /\ Locked' BY DEF Life, Locked
<1>4. Given'
  <2>1. \A k \in listed' : k \in listed \/ k = seqId BY DEF listed, listedIn, Types, SetTypes
  <2>2. seqId \in Nat /\ seqId' = seqId + 1 BY DEF Types, SetTypes
  <2>3. listed \subseteq PageIds /\ indexed(metaData) \subseteq PageIds BY DEF listed, listedIn, indexed
  <2>4. /\ status' = "up" /\ UNCHANGED <<metaData, fpc, fpage>>
        /\ \A k \in listed \cup indexed(metaData) : k < seqId
        /\ \A p \in Partitions : fpc[p] # "idle" => fpage[p] \in PageIds /\ fpage[p] < seqId
    BY DEF Given
  <2> HIDE DEF FileInv, addPage
  <2>5. indexed(metaData)' = indexed(metaData) BY <2>4 DEF indexed
  <2>6. \A k \in Nat : k < seqId \/ k = seqId => k < seqId' BY <2>2
  <2>7. \A k \in listed' \cup indexed(metaData)' : k < seqId'
    <3> TAKE k \in listed' \cup indexed(metaData)'
    <3>1. k \in PageIds /\ (k \in listed \cup indexed(metaData) \/ k = seqId)
      BY <2>1, <2>3, <2>5 DEF listed, listedIn
    <3> QED BY <2>4, <2>6, <3>1
  <2>8. \A p \in Partitions : fpc'[p] # "idle" => fpage'[p] \in PageIds /\ fpage'[p] < seqId'
    BY <2>4, <2>6
  <2> QED BY <2>4, <2>7, <2>8 DEF Given
<1>5. Good(meta)' /\ Good(metaData)' /\ Behind' BY DEF Good, Behind
<1>6. InFile'
  <2>1. seqId \notin indexed(metaData) /\ seqId \notin indexed(meta)
    BY MetaIndexed DEF Given, Types, SetTypes
  <2>2. \A k \in indexed(metaData) \cup indexed(meta) : born'[k] = born[k]
    BY <2>1 DEF indexed, Types, SetTypes
  <2>3. UNCHANGED <<data, metaData, meta, metaExists, status>> /\ InFile OBVIOUS
  <2>4. indexed(metaData)' = indexed(metaData) /\ indexed(meta)' = indexed(meta) BY <2>3 DEF indexed
  <2> HIDE DEF FileInv, addPage
  <2>5. ASSUME NEW p \in Partitions, Sound(metaData, p) PROVE Sound(metaData, p)'
    BY <2>2, <2>3, <2>4, <2>5 DEF Sound
  <2>6. ASSUME NEW p \in Partitions, Sound(meta, p) PROVE Sound(meta, p)'
    BY <2>2, <2>3, <2>4, <2>6 DEF Sound
  <2> QED BY <2>3, <2>5, <2>6 DEF InFile
<1> QED BY <1>2, <1>3, <1>4, <1>5, <1>6

\* A flush thread takes a page of the map.
LEMMA TakeKeeps ==
  ASSUME FileInv, NEW p \in Partitions, NEW k \in PageIds, takePage(p, k)
  PROVE  FileInv'
<1> USE Constants, EmptyType DEF FileInv, takePage, scanVars, threadVars, flushVars, setVars, lifeVars, fileVars, disk
<1>1. Types' BY DEF Types, FileTypes, SetTypes, ScanTypes
<1>2. Life' /\ Locked' BY DEF Life, Locked, Types, SetTypes
<1>3. Given'
  <2>1. k \in listed BY DEF listed, listedIn, NotListed
  <2> QED BY <2>1 DEF Given, Types, SetTypes, listed
<1>4. Good(meta)' /\ Good(metaData)' /\ Behind' /\ InFile' BY DEF Good, Behind, InFile, Sound
<1> QED BY <1>1, <1>2, <1>3, <1>4

\* appendPage writes behind the last page, and counts it.
LEMMA AppendKeeps ==
  ASSUME FileInv, NEW p \in Partitions, appendPage(p),
         appendOk(p, <<fpage[p], born[fpage[p]]>>), fret' = [fret EXCEPT ![p] = metaData.numPages[p]]
  PROVE  /\ FileInv' /\ status = "up" /\ fpage[p] \in indexed(metaData)'
         /\ \A j \in indexed(metaData) : metaData'.pageIndexes[j] = metaData.pageIndexes[j]
         /\ \A j \in indexed(metaData)' :
              \/ j \in indexed(metaData)
              \/ metaData'.pageIndexes[j] = [partitionId |-> p, pageSeqInPartition |-> metaData.numPages[p]]
<1> USE Constants DEF FileInv
<1> DEFINE k == fpage[p]
           n == metaData.numPages[p]
           new == [partitionId |-> p, pageSeqInPartition |-> n]
<1>0. status = "up" /\ k \in PageIds /\ k < seqId
  BY DEF appendPage, appendOk, Life, Locked, Given, Types, SetTypes
<1>1. /\ metaData' \in Shape
      /\ data' = [data EXCEPT ![p] = Append(data[p], <<k, born[k]>>)]
      /\ metaData'.numFlushedPages = metaData.numFlushedPages + 1
      /\ metaData'.latestPageId = laterId(k, metaData.latestPageId)
      /\ metaData'.numPages = [metaData.numPages EXCEPT ![p] = n + 1]
      /\ \A j \in PageIds : metaData'.pageIndexes[j] =
           IF j = k /\ metaData.pageIndexes[j] = NoIndex THEN new ELSE metaData.pageIndexes[j]
      /\ UNCHANGED <<meta, metaExists, cleared, fileMutex, failures>>
  BY <1>0, AppendType
<1>2. UNCHANGED <<lifeVars, setVars, fpage, scanVars>> /\ fpc' = [fpc EXCEPT ![p] = "lock"]
  BY DEF appendPage
<1>3. metaData \in Shape /\ n \in Nat /\ new # NoIndex
  BY DEF Types, FileTypes, Shape, NoIndex
<1>4. indexed(metaData)' = indexed(metaData) \cup {k}
  BY <1>0, <1>1, <1>3 DEF indexed
<1>5. \A j \in indexed(metaData) : metaData'.pageIndexes[j] = metaData.pageIndexes[j]
  BY <1>1 DEF indexed
<1>6. Types'
  <2>1. born[k] \in Nat BY <1>0 DEF Types, SetTypes
  <2>2. data' \in [Partitions -> Seq((PageIds \X Nat) \cup {Torn})] BY <1>0, <1>1, <2>1 DEF Types, FileTypes
  <2>3. FileTypes' BY <1>1, <2>2 DEF Types, FileTypes
  <2>4. SetTypes' BY <1>2, <1>3 DEF Types, SetTypes, setVars, lifeVars
  <2>5. ScanTypes' BY <1>2 DEF Types, ScanTypes, scanVars, threadVars
  <2> QED BY <2>3, <2>4, <2>5 DEF Types
<1>7. Life' /\ Locked'
  BY <1>0, <1>1, <1>2 DEF Life, Locked, Types, SetTypes, setVars, lifeVars, scanVars
<1>8. Given'
  BY <1>0, <1>1, <1>2, <1>4 DEF Given, Types, SetTypes, setVars, lifeVars, listed
<1>9. Good(meta)' BY <1>1 DEF Good
<1>10. Good(metaData)'
  <2>0. metaData.latestPageId \in PageIds \cup {NoId} /\ metaData.numFlushedPages \in Nat BY <1>3 DEF Shape
  <2>1. k <= metaData'.latestPageId /\ \A j \in indexed(metaData) : j <= metaData'.latestPageId
    <3>1. \A j \in indexed(metaData) : j \in PageIds /\ j <= metaData.latestPageId BY DEF Good, indexed
    <3> HIDE DEF FileInv
    <3>2. ASSUME NEW l \in PageIds \cup {NoId}, NEW j \in PageIds, j <= l \/ j = k
          PROVE  j <= laterId(k, l)
      <4>1. j \in Nat /\ k \in Nat BY <1>0
      <4>2. l \in Nat \/ l = -1 OBVIOUS
      <4> QED BY <3>2, <4>1, <4>2 DEF laterId
    <3> QED BY ZenonT(40), <1>0, <1>1, <2>0, <3>1, <3>2
  <2>2. metaData'.numFlushedPages > 0 BY <1>1, <2>0
  <2>3. \A q \in Partitions : metaData'.numPages[q] = IF q = p THEN n + 1 ELSE metaData.numPages[q]
    BY <1>1, <1>3 DEF Shape
  <2>4. ASSUME NEW j \in indexed(metaData)'
        PROVE  /\ metaData'.pageIndexes[j].partitionId \in Partitions /\ metaData'.pageIndexes[j].pageSeqInPartition \in Nat
               /\ metaData'.pageIndexes[j].pageSeqInPartition < metaData'.numPages[metaData'.pageIndexes[j].partitionId]
    <3>1. CASE j \in indexed(metaData)
      <4>1. metaData.numPages \in [Partitions -> Nat] BY <1>3 DEF Shape
      <4> QED BY <1>3, <1>5, <2>3, <3>1, <4>1 DEF Good
    <3>2. CASE j \notin indexed(metaData)
      <4>1. metaData'.pageIndexes[j] = new BY <1>0, <1>1, <1>4, <3>2 DEF indexed
      <4> QED BY <1>3, <2>3, <4>1
    <3> QED BY <3>1, <3>2
  <2>5. \A j \in indexed(metaData) : metaData.pageIndexes[j] # new
    BY <1>3 DEF Good
  <2>6. \A i, j \in indexed(metaData)' : metaData'.pageIndexes[i] = metaData'.pageIndexes[j] => i = j
    <3>1. k \notin indexed(metaData) => metaData'.pageIndexes[k] = new BY <1>0, <1>1 DEF indexed
    <3> QED BY <1>4, <1>5, <2>5, <3>1 DEF Good
  <2>7. indexed(metaData)' \subseteq PageIds BY DEF indexed
  <2> QED BY <1>4, <2>1, <2>2, <2>4, <2>6, <2>7 DEF Good
<1>11. Behind' BY <1>0, <1>1, <1>2, <1>5, MetaIndexed DEF Behind, lifeVars
<1>12. InFile'
  <2>1. data[p] \in Seq((PageIds \X Nat) \cup {Torn}) /\ born' = born BY <1>2 DEF Types, FileTypes, setVars
  <2>2. /\ Len(data'[p]) = Len(data[p]) + 1 /\ Len(data[p]) \in Nat
        /\ \A j \in 1 .. Len(data[p]) : data'[p][j] = data[p][j]
        /\ data'[p][Len(data[p]) + 1] = <<k, born[k]>>
    BY <1>1, <2>1 DEF Types, FileTypes
  <2>3. \A q \in Partitions : q # p => data'[q] = data[q] BY <1>1 DEF Types, FileTypes
  <2>4. <<k, born[k]>> # Torn BY <1>0 DEF Torn
  <2>5. ASSUME NEW q \in Partitions PROVE Sound(metaData, q)'
    <3>1. Sound(metaData, q) BY <1>0 DEF InFile
    <3>2. CASE q # p
      <4>1. metaData'.numPages[q] = metaData.numPages[q] BY <1>1, <1>3, <3>2 DEF Shape
      <4>2. \A j \in indexed(metaData)' : metaData'.pageIndexes[j].partitionId = q =>
               j \in indexed(metaData) /\ metaData'.pageIndexes[j] = metaData.pageIndexes[j]
        BY <1>0, <1>1, <1>4, <1>5, <3>2 DEF indexed
      <4> QED BY <2>1, <2>3, <3>1, <3>2, <4>1, <4>2 DEF Sound
    <3>3. CASE q = p
      <4>1. metaData'.numPages[p] = n + 1 BY <1>1, <1>3 DEF Shape
      <4>2. n <= Len(data[p]) BY <3>1, <3>3 DEF Sound
      <4>3. CASE n = Len(data[p])
        <5>1. \A j \in 1 .. Len(data'[p]) : data'[p][j] # Torn
          BY SMTT(40), <2>2, <2>4, <3>1, <3>3, <4>3 DEF Sound
        <5>2. ASSUME NEW j \in indexed(metaData)', metaData'.pageIndexes[j].partitionId = p
              PROVE  data'[p][metaData'.pageIndexes[j].pageSeqInPartition + 1] = <<j, born'[j]>>
          <6>1. CASE j \in indexed(metaData)
            <7>1. metaData'.pageIndexes[j] = metaData.pageIndexes[j] BY <1>5, <6>1
            <7>2. metaData.pageIndexes[j].pageSeqInPartition \in Nat
                  /\ metaData.pageIndexes[j].pageSeqInPartition < n
              BY <5>2, <6>1, <7>1 DEF Good
            <7>3. metaData.pageIndexes[j].pageSeqInPartition + 1 \in 1 .. Len(data[p])
              BY <1>3, <4>3, <7>2
            <7>4. data[p][metaData.pageIndexes[j].pageSeqInPartition + 1] = <<j, born[j]>>
              BY <3>1, <3>3, <4>3, <5>2, <6>1, <7>1 DEF Sound
            <7> QED BY <2>1, <2>2, <7>1, <7>3, <7>4
          <6>2. CASE j \notin indexed(metaData)
            <7>1. j = k /\ metaData'.pageIndexes[j] = new BY <1>0, <1>1, <1>4, <6>2 DEF indexed
            <7> QED BY <2>1, <2>2, <4>3, <7>1
          <6> QED BY <6>1, <6>2
        <5> QED BY <2>2, <3>3, <4>1, <4>3, <5>1, <5>2 DEF Sound
      <4>4. CASE n # Len(data[p])
        BY <1>3, <2>2, <3>3, <4>1, <4>2, <4>4 DEF Sound
      <4> QED BY <4>3, <4>4
    <3> QED BY <3>2, <3>3
  <2>6. ASSUME NEW q \in Partitions, metaExists PROVE Sound(meta, q)'
    <3>1. Sound(meta, q) /\ meta' = meta BY <1>1, <2>6 DEF InFile
    <3>2. CASE q # p BY <2>1, <2>3, <3>1, <3>2 DEF Sound
    <3>3. CASE q = p
      <4>1. meta.numPages[p] \in Nat BY DEF Types, FileTypes, Shape
      <4> QED BY <2>2, <3>1, <3>3, <4>1 DEF Sound
    <3> QED BY <3>2, <3>3
  <2> QED BY <1>1, <2>5, <2>6 DEF InFile
<1>13. \A j \in indexed(metaData)' : j \in indexed(metaData) \/ metaData'.pageIndexes[j] = new
  BY <1>0, <1>1, <1>4 DEF indexed
<1> QED BY <1>0, <1>4, <1>5, <1>6, <1>7, <1>8, <1>9, <1>10, <1>11, <1>12, <1>13

\* A write that fails counts no page, and what it leaves in the file shows.
LEMMA AppendFailsKeeps ==
  ASSUME FileInv, NEW p \in Partitions, appendPage(p), appendFailed(p) \/ appendCleared,
         fret' = [fret EXCEPT ![p] = NoId]
  PROVE  FileInv'
<1> USE Constants DEF FileInv
<1>1. /\ UNCHANGED <<meta, metaExists, metaData, cleared, fileMutex, lifeVars, setVars, fpage, scanVars>>
      /\ fpc[p] = "append" /\ fpc' = [fpc EXCEPT ![p] = "lock"]
      /\ failures' = failures \/ failures' = failures + 1
      /\ data' = data \/ data' = [data EXCEPT ![p] = Append(data[p], Torn)]
  BY DEF appendPage, appendFailed, appendCleared, fileVars, disk
<1>2. Types'
  <2>1. data' \in [Partitions -> Seq((PageIds \X Nat) \cup {Torn})]
    <3>1. data \in [Partitions -> Seq((PageIds \X Nat) \cup {Torn})] BY DEF Types, FileTypes
    <3>2. Append(data[p], Torn) \in Seq((PageIds \X Nat) \cup {Torn}) BY <3>1
    <3> QED BY <1>1, <3>1, <3>2
  <2>2. FileTypes' BY <1>1, <2>1 DEF Types, FileTypes
  <2>3. SetTypes' BY <1>1 DEF Types, SetTypes, setVars, lifeVars
  <2>4. ScanTypes' BY <1>1 DEF Types, ScanTypes, scanVars, threadVars
  <2> QED BY <2>2, <2>3, <2>4 DEF Types
<1>3. Life' /\ Locked'
  BY <1>1 DEF Life, Locked, Types, SetTypes, setVars, lifeVars, scanVars
<1>4. Given' BY <1>1 DEF Given, Types, SetTypes, setVars, lifeVars, listed
<1>5. Good(meta)' /\ Good(metaData)' /\ Behind' BY <1>1 DEF Good, Behind, lifeVars
<1>6. ASSUME NEW q \in Partitions, NEW m \in Shape, Sound(m, q)
      PROVE  /\ m.numPages[q] <= Len(data'[q])
             /\ data'[q] = data[q] \/ m.numPages[q] # Len(data'[q])
  <2>1. /\ data[q] \in Seq((PageIds \X Nat) \cup {Torn}) /\ Len(data[q]) \in Nat /\ m.numPages[q] \in Nat
        /\ data'[q] = data[q] \/ data'[q] = Append(data[q], Torn)
    BY SMTT(40), <1>1 DEF Types, FileTypes, Shape
  <2>2. m.numPages[q] <= Len(data[q]) BY <1>6 DEF Sound
  <2> QED BY <2>1, <2>2
<1>7. InFile'
  <2>1. ASSUME NEW q \in Partitions, Sound(metaData, q) PROVE Sound(metaData, q)'
    <3>1. metaData \in Shape /\ UNCHANGED <<metaData, born>> BY <1>1 DEF Types, FileTypes, setVars
    <3> QED BY <1>6, <2>1, <3>1 DEF Sound
  <2>2. ASSUME NEW q \in Partitions, Sound(meta, q) PROVE Sound(meta, q)'
    <3>1. meta \in Shape /\ UNCHANGED <<meta, born>> BY <1>1 DEF Types, FileTypes, setVars
    <3> QED BY <1>6, <2>2, <3>1 DEF Sound
  <2> QED BY <1>1, <2>1, <2>2 DEF InFile, lifeVars
<1> QED BY <1>2, <1>3, <1>4, <1>5, <1>7

\* writeMeta, and what follows it in a flush thread.
LEMMA FlushKeeps ==
  ASSUME FileInv, NEW p \in Partitions, flushSize(p) \/ flushBody(p) \/ removePageFromDirtyPageSet(p)
  PROVE  FileInv'
<1> USE Constants DEF FileInv
<1>1. CASE flushSize(p)
  <2>1. /\ UNCHANGED <<data, meta, metaExists, metaData, cleared, failures, lifeVars, fpage, fret, scanVars>>
        /\ UNCHANGED <<seqId, born, dirty, isPinned>>
        /\ fpc[p] = "lock" /\ fpc' = [fpc EXCEPT ![p] = IF cleared THEN "label" ELSE "body"]
        /\ fileMutex' = IF cleared THEN fileMutex ELSE TRUE
        /\ ~fileMutex
    BY <1>1 DEF flushSize, writeMetaSize, writeMetaCleared, fileVars, disk
  <2>2. ~cleared => status = "up" BY <2>1 DEF Life, Locked, Types, SetTypes
  <2>3. FileTypes' /\ SetTypes' BY <2>1 DEF Types, FileTypes, SetTypes, lifeVars
  <2>4. ScanTypes' BY <2>1 DEF Types, ScanTypes, scanVars, threadVars
  <2>5. Life' BY <2>1 DEF Life, Types, SetTypes, lifeVars, scanVars
  <2>6. Locked' BY <2>1, <2>2 DEF Locked, Types, SetTypes, FileTypes, lifeVars
  <2>7. Given' BY <2>1 DEF Given, Types, SetTypes, lifeVars, listed
  <2>8. Good(meta)' /\ Good(metaData)' /\ Behind' /\ InFile' BY <2>1 DEF Good, Behind, InFile, Sound, lifeVars
  <2> QED BY <2>3, <2>4, <2>5, <2>6, <2>7, <2>8 DEF Types
<1>2. CASE flushBody(p)
  <2>1. /\ UNCHANGED <<data, metaExists, metaData, cleared, failures, lifeVars, setVars, fpage, fret, scanVars>>
        /\ fpc[p] = "body" /\ fpc' = [fpc EXCEPT ![p] = "label"]
        /\ meta' = metaData /\ fileMutex' = FALSE
    BY <1>2 DEF flushBody, writeMetaBody
  <2>2. status = "up" /\ metaExists BY <2>1 DEF Locked, Life
  <2>3. FileTypes' /\ SetTypes' BY <2>1 DEF Types, FileTypes, SetTypes, lifeVars, setVars
  <2>4. ScanTypes' BY <2>1 DEF Types, ScanTypes, scanVars, threadVars
  <2>5. Life' BY <2>1, <2>2 DEF Life, Types, SetTypes, lifeVars, scanVars
  <2>6. Locked' BY <2>1, <2>2 DEF Locked, Types, SetTypes, FileTypes, lifeVars
  <2>7. Given' BY <2>1 DEF Given, Types, SetTypes, lifeVars, setVars, listed
  <2>8. Good(meta)' /\ Good(metaData)' /\ Behind' BY <2>1 DEF Good, Behind, lifeVars
  <2>9. InFile' BY <2>1, <2>2 DEF InFile, Sound, lifeVars, setVars
  <2> QED BY <2>3, <2>4, <2>5, <2>6, <2>7, <2>8, <2>9 DEF Types
<1>3. CASE removePageFromDirtyPageSet(p)
  <2> DEFINE entry == IF dirty[fpage[p]] = NotListed THEN NotListed ELSE label(p)
  <2>1. /\ UNCHANGED <<data, meta, metaExists, metaData, cleared, fileMutex, failures, lifeVars>>
        /\ UNCHANGED <<seqId, born, isPinned, spc, pinLate, threadVars, returned>>
        /\ fpc[p] = "label" /\ fpc' = [fpc EXCEPT ![p] = "idle"]
        /\ dirty' = [dirty EXCEPT ![fpage[p]] = entry]
        /\ fpage' = [fpage EXCEPT ![p] = NoId] /\ fret' = [fret EXCEPT ![p] = NoId]
    BY <1>3 DEF removePageFromDirtyPageSet, fileVars, disk
  <2>2. entry \in Entries BY DEF Entries, NotListed, label, Types, SetTypes
  <2>3. FileTypes' /\ SetTypes' BY <2>1, <2>2 DEF Types, FileTypes, SetTypes, lifeVars
  <2>4. ScanTypes' BY <2>1 DEF Types, ScanTypes, threadVars
  <2>5. Life' /\ Locked' BY <2>1 DEF Life, Locked, Types, SetTypes, lifeVars
  <2>6. listed' \subseteq listed BY <2>1 DEF listed, listedIn, Types, SetTypes
  <2>7. Given' BY <2>1, <2>6 DEF Given, Types, SetTypes, lifeVars
  <2>8. Good(meta)' /\ Good(metaData)' /\ Behind' /\ InFile' BY <2>1 DEF Good, Behind, InFile, Sound, lifeVars
  <2> QED BY <2>3, <2>4, <2>5, <2>7, <2>8 DEF Types
<1> QED BY <1>1, <1>2, <1>3

\* Scans leave the file and its index alone.
LEMMA ScanKeepsFile ==
  ASSUME FileInv, scan
  PROVE  FileInv' /\ status = "up"
<1> USE Constants DEF FileInv
<1>1. ScanFrame /\ dirty' \in [PageIds -> Entries] /\ isPinned' \in BOOLEAN /\ ScanTypes'
  BY ScanLeaves, ScanTypesKept
<1>2. status = "up" BY <1>1 DEF ScanFrame, Life
<1>3. FileTypes' /\ SetTypes' BY <1>1 DEF ScanFrame, Types, FileTypes, SetTypes
<1>4. Life' /\ Locked' BY <1>1, <1>2 DEF ScanFrame, Life, Locked
<1>5. listed' \subseteq listed BY <1>1 DEF ScanFrame, listed, listedIn
<1>6. Given' BY <1>1, <1>5 DEF ScanFrame, Given
<1>7. Good(meta)' /\ Good(metaData)' /\ Behind' /\ InFile'
  BY <1>1 DEF ScanFrame, Good, Behind, InFile, Sound
<1> QED BY <1>1, <1>2, <1>3, <1>4, <1>6, <1>7 DEF Types

\* A crash keeps what is on disk, and a restart builds the index from it.
LEMMA CrashKeeps ==
  ASSUME FileInv, crash \/ restart \/ restartRefused \/ restartWithoutSet
  PROVE  FileInv'
<1> USE Constants, EmptyType DEF FileInv
<1>1. CASE crash
  <2> USE <1>1 DEF crash, fileCrash, dropScan, disk
  <2>1. FileTypes' BY DEF Types, FileTypes
  <2>2. SetTypes'
    <3>1. run' \in Nat /\ seqId' \in Nat /\ born' \in [PageIds -> Nat] /\ status' = "down" BY DEF Types, SetTypes
    <3>2. dirty' \in [PageIds -> Entries] /\ isPinned' \in BOOLEAN BY DEF Entries, NotListed
    <3>3. /\ fpc' \in [Partitions -> {"idle", "append", "lock", "body", "label"}]
          /\ fpage' \in [Partitions -> PageIds \cup {NoId}] /\ fret' \in [Partitions -> Nat \cup {NoId}]
      OBVIOUS
    <3> HIDE DEF crash, FileInv
    <3> QED BY <3>1, <3>2, <3>3 DEF SetTypes
  <2>3. ScanTypes' BY DEF Types, ScanTypes, noThread, noneOf, noPages
  <2>4. Life' /\ Locked' BY DEF Life, Locked
  <2>5. Given' BY DEF Given, listed, listedIn
  <2>6. Good(meta)' /\ Good(metaData)' /\ Behind' BY DEF Good, Behind
  <2>7. InFile' BY DEF InFile, Sound
  <2> QED BY <2>1, <2>2, <2>3, <2>4, <2>5, <2>6, <2>7 DEF Types
<1>2. CASE restart
  <2>1. /\ status = "down" /\ status' = "up" /\ metaExists /\ cleared' = FALSE
        /\ UNCHANGED <<data, meta, metaExists, fileMutex, failures, run, born, dirty, isPinned, flushVars, scanVars>>
        /\ metaData' = meta
        /\ seqId' = IF meta.numFlushedPages = 0 THEN 0 ELSE meta.latestPageId + 1
    BY <1>2 DEF restart, openFile, openData, rebuilt
  <2>2. /\ (\A p \in Partitions : fpc[p] = "idle") /\ spc = "idle" /\ listed = {}
    BY <2>1 DEF Life, Given
  <2>3. meta.latestPageId \in PageIds \cup {NoId} BY DEF Types, FileTypes, Shape
  <2>4. seqId' \in Nat
    <3> DEFINE l == meta.latestPageId
    <3>1. l \in Nat \/ l = -1 BY <2>3
    <3>2. seqId' = 0 \/ seqId' = l + 1 BY <2>1
    <3> HIDE DEF l
    <3> QED BY <3>1, <3>2
  <2>5. FileTypes' /\ SetTypes' BY <2>1, <2>4 DEF Types, FileTypes, SetTypes, flushVars
  <2>6. ScanTypes' BY <2>1 DEF Types, ScanTypes, scanVars, threadVars
  <2>7. Life' /\ Locked' BY <2>1, <2>2 DEF Life, Locked, flushVars, scanVars
  <2>8. \A k \in indexed(meta) : k < seqId'
    <3> TAKE k \in indexed(meta)
    <3>1. k \in Nat BY DEF indexed
    <3>2. meta.numFlushedPages > 0 /\ k <= meta.latestPageId BY DEF Good
    <3> HIDE DEF FileInv
    <3> DEFINE l == meta.latestPageId
    <3>3. l \in Nat \/ l = -1 BY <2>3
    <3>4. seqId' = l + 1 BY <2>1, <3>2
    <3>5. k <= l BY <3>2
    <3> HIDE DEF l
    <3> QED BY <3>1, <3>3, <3>4, <3>5
  <2>9. indexed(metaData)' = indexed(meta) /\ listed' = {} BY <2>1, <2>2 DEF indexed, listed, listedIn
  <2>10. Given' BY <2>1, <2>2, <2>8, <2>9 DEF Given, flushVars
  <2>11. Good(meta)' /\ Good(metaData)' /\ Behind' BY <2>1 DEF Good, Behind
  <2>12. InFile' BY <2>1 DEF InFile, Sound
  <2> QED BY <2>5, <2>6, <2>7, <2>10, <2>11, <2>12 DEF Types
<1>3. CASE restartRefused \/ restartWithoutSet
  <2>1. /\ status = "down" /\ status' \in {"refused", "none"} /\ (status' = "none" => ~metaExists)
        /\ UNCHANGED <<fileVars, run, setVars, flushVars, scanVars>>
    BY <1>3 DEF restartRefused, restartWithoutSet
  <2>2. Types'
    BY <2>1 DEF Types, FileTypes, SetTypes, ScanTypes, fileVars, disk, setVars, flushVars, scanVars, threadVars
  <2>3. Life' /\ Locked'
    BY <2>1 DEF Life, Locked, fileVars, disk, setVars, flushVars, scanVars
  <2>4. Given' BY <2>1 DEF Given, listed, setVars
  <2>5. Good(meta)' /\ Good(metaData)' /\ Behind' /\ InFile'
    BY <2>1 DEF Good, Behind, InFile, Sound, fileVars, disk, setVars
  <2> QED BY <2>2, <2>3, <2>4, <2>5
<1> QED BY <1>1, <1>2, <1>3

\* appendPage either succeeds or answers -1.
LEMMA AppendCases ==
  ASSUME NEW p \in Partitions, appendPage(p)
  PROVE  \/ /\ appendOk(p, <<fpage[p], born[fpage[p]]>>)
            /\ fret' = [fret EXCEPT ![p] = metaData.numPages[p]]
         \/ /\ appendFailed(p) \/ appendCleared
            /\ fret' = [fret EXCEPT ![p] = NoId]
  BY DEF appendPage

\* Every step keeps the file, its meta partition and its index consistent.
LEMMA FileInvKept == FileInv /\ [Next]_vars => FileInv'
<1> SUFFICES ASSUME FileInv, [Next]_vars PROVE FileInv' OBVIOUS
<1>1. CASE UNCHANGED vars
  BY SMTT(40), <1>1 DEF FileInv, vars, fileVars, disk, lifeVars, setVars, flushVars, scanVars, threadVars, Types, FileTypes,
              SetTypes, ScanTypes, Life, Locked, Given, listed, Good, Behind, InFile, Sound
<1>2. ASSUME NEW p \in Partitions, flush(p) PROVE FileInv'
  <2>1. ASSUME NEW k \in PageIds, takePage(p, k) PROVE FileInv' BY <2>1, TakeKeeps
  <2>2. CASE appendPage(p) BY <2>2, AppendCases, AppendKeeps, AppendFailsKeeps
  <2>3. CASE flushSize(p) \/ flushBody(p) \/ removePageFromDirtyPageSet(p) BY <2>3, FlushKeeps
  <2> QED BY <1>2, <2>1, <2>2, <2>3 DEF flush
<1>3. CASE Next
  BY <1>2, <1>3, CreateKeeps, ClearKeeps, AddKeeps, ScanKeepsFile, CrashKeeps DEF Next
<1> QED BY <1>1, <1>3

\* The file, its meta partition and its index stay consistent in every behaviour.
THEOREM FileInvariance == Spec => []FileInv
  BY FileInitial, FileInvKept, PTL DEF Spec

\* A page of the index reads back as it was written, whatever the order of appends, short
\* writes, crashes and restarts, unless its partition shows that it holds more.
THEOREM IndexReadsBackCorrect == Spec => []IndexReadsBack
<1>1. FileInv => IndexReadsBack
  <2> SUFFICES ASSUME FileInv, status = "up", NEW k \in indexed(metaData)
               PROVE  LET i == metaData.pageIndexes[k]
                      IN  \/ pageAt(i.partitionId, i.pageSeqInPartition) = <<k, born[k]>>
                          \/ Len(data[i.partitionId]) > metaData.numPages[i.partitionId]
    BY DEF IndexReadsBack
  <2> DEFINE p == metaData.pageIndexes[k].partitionId
             s == metaData.pageIndexes[k].pageSeqInPartition
  <2>1. p \in Partitions /\ s \in Nat /\ s < metaData.numPages[p] BY DEF FileInv, Good
  <2>2. metaData.numPages[p] \in Nat /\ Len(data[p]) \in Nat BY <2>1 DEF FileInv, Types, FileTypes, Shape
  <2>3. Sound(metaData, p) BY <2>1 DEF FileInv, InFile
  <2>4. CASE metaData.numPages[p] = Len(data[p])
    <3>1. \A j \in 1 .. Len(data[p]) : data[p][j] # Torn BY <2>3, <2>4 DEF Sound
    <3>2. data[p][s + 1] = <<k, born[k]>> BY <2>3, <2>4 DEF Sound
    <3> QED BY SMTT(40), <2>1, <2>2, <2>4, <3>1, <3>2 DEF pageAt
  <2>5. CASE metaData.numPages[p] # Len(data[p]) BY SMTT(40), <2>2, <2>3, <2>5 DEF Sound
  <2> QED BY <2>4, <2>5
<1> QED BY <1>1, FileInvariance, PTL

-----------------------------------------------------------------------------
(* What is on disk stays there *)

\* While the set has a meta partition, its entries stay and the data partitions only grow.
LEMMA DiskGrows ==
  ASSUME FileInv, Next, metaExists, metaExists'
  PROVE  /\ \A k \in indexed(meta) : meta'.pageIndexes[k] = meta.pageIndexes[k]
         /\ \A p \in Partitions : /\ Len(data[p]) <= Len(data'[p])
                                  /\ \A j \in 1 .. Len(data[p]) : data'[p][j] = data[p][j]
<1> DEFINE Same == meta' = meta /\ data' = data
           Grown == \A p \in Partitions : /\ Len(data[p]) <= Len(data'[p])
                                          /\ \A j \in 1 .. Len(data[p]) : data'[p][j] = data[p][j]
           Stays == \A k \in indexed(meta) : meta'.pageIndexes[k] = meta.pageIndexes[k]
<1>0. /\ \A p \in Partitions : data[p] \in Seq((PageIds \X Nat) \cup {Torn}) /\ Len(data[p]) \in Nat
      /\ data \in [Partitions -> Seq((PageIds \X Nat) \cup {Torn})]
  BY DEF FileInv, Types, FileTypes
<1>1. Same => Grown /\ Stays BY <1>0
<1>2. (status \in {"body", "up"} /\ meta' = metaData /\ data' = data) => Grown /\ Stays
  BY <1>0 DEF FileInv, Behind
<1>3. ASSUME NEW p \in Partitions, NEW x \in (PageIds \X Nat) \cup {Torn}, meta' = meta,
             data' = [data EXCEPT ![p] = Append(data[p], x)]
      PROVE  Grown /\ Stays
  <2>1. \A q \in Partitions : q # p => data'[q] = data[q] BY <1>0, <1>3
  <2>2. data'[p] = Append(data[p], x) BY <1>0, <1>3
  <2>3. Len(data[p]) <= Len(data'[p]) /\ \A j \in 1 .. Len(data[p]) : data'[p][j] = data[p][j]
    BY <1>0, <2>2
  <2> QED BY <1>0, <1>3, <2>1, <2>3
<1>4. CASE createSet \/ clearDone \/ clearSet \/ \E p \in Partitions : clearPartition(p)
  BY <1>4 DEF FileInv, Life, createSet, clearDone, clearSet, clearMeta, clearPartition
<1>5. CASE createSize \/ addPage
  BY <1>1, <1>5 DEF createSize, writeMetaSize, addPage, fileVars, disk
<1>6. CASE createBody BY <1>2, <1>6 DEF createBody, writeMetaBody
<1>7. ASSUME NEW p \in Partitions, flush(p) PROVE Grown /\ Stays
  <2>1. CASE (\E k \in PageIds : takePage(p, k)) \/ flushSize(p) \/ removePageFromDirtyPageSet(p)
    BY <1>1, <2>1 DEF takePage, flushSize, writeMetaSize, writeMetaCleared, removePageFromDirtyPageSet, fileVars, disk
  <2>2. CASE flushBody(p) BY <1>2, <2>2 DEF FileInv, Locked, flushBody, writeMetaBody
  <2>3. CASE appendPage(p)
    <3>1. CASE appendOk(p, <<fpage[p], born[fpage[p]]>>) /\ fret' = [fret EXCEPT ![p] = metaData.numPages[p]]
      <4>1. fpage[p] \in PageIds
        BY <2>3, <3>1, AppendKeeps DEF FileInv, Given, appendPage
      <4>2. <<fpage[p], born[fpage[p]]>> \in PageIds \X Nat BY <4>1 DEF FileInv, Types, SetTypes
      <4> QED BY <1>3, <3>1, <4>2 DEF appendOk
    <3>2. CASE appendFailed(p) BY <1>1, <1>3, <3>2 DEF appendFailed
    <3>3. CASE appendCleared BY <1>1, <3>3 DEF appendCleared, fileVars, disk
    <3> QED BY <2>3, <3>1, <3>2, <3>3, AppendCases
  <2> QED BY <1>7, <2>1, <2>2, <2>3 DEF flush
<1>8. CASE scan BY <1>1, <1>8, ScanLeaves DEF FileInv, ScanFrame
<1>9. CASE crash \/ restart \/ restartRefused \/ restartWithoutSet
  BY <1>1, <1>9 DEF crash, fileCrash, restart, openFile, openData, restartRefused, restartWithoutSet, fileVars, disk
<1> QED BY <1>4, <1>5, <1>6, <1>7, <1>8, <1>9 DEF Next

\* What the meta partition lists and the data partitions hold survives every crash and every
\* later append, until the set is cleared.
THEOREM DurableCorrect == Spec => Durable
<1> DEFINE Kept == \A k \in indexed(meta) :
                     LET i == meta.pageIndexes[k]
                         holds == metaExists /\ pageAt(i.partitionId, i.pageSeqInPartition) = <<k, born[k]>>
                     IN  holds /\ metaExists' =>
                           /\ meta'.pageIndexes[k] = i
                           /\ pageAt(i.partitionId, i.pageSeqInPartition)' = <<k, born[k]>>
<1>1. ASSUME FileInv, Next PROVE Kept
  <2> SUFFICES ASSUME NEW k \in indexed(meta), metaExists, metaExists',
                      pageAt(meta.pageIndexes[k].partitionId, meta.pageIndexes[k].pageSeqInPartition) = <<k, born[k]>>
               PROVE  /\ meta'.pageIndexes[k] = meta.pageIndexes[k]
                      /\ pageAt(meta.pageIndexes[k].partitionId, meta.pageIndexes[k].pageSeqInPartition)' = <<k, born[k]>>
    OBVIOUS
  <2> DEFINE p == meta.pageIndexes[k].partitionId
             s == meta.pageIndexes[k].pageSeqInPartition
  <2>1. p \in Partitions /\ s \in Nat /\ k \in PageIds /\ <<k, born[k]>> # Torn
    BY <1>1, Constants DEF FileInv, Good, indexed, Torn
  <2>2. /\ Len(data[p]) \in Nat /\ Len(data'[p]) \in Nat
    BY <1>1, <2>1, FileInvKept DEF FileInv, Types, FileTypes
  <2>3. /\ meta'.pageIndexes[k] = meta.pageIndexes[k]
        /\ Len(data[p]) <= Len(data'[p]) /\ \A j \in 1 .. Len(data[p]) : data'[p][j] = data[p][j]
    BY <1>1, <2>1, DiskGrows
  <2>0. pageAt(p, s) = <<k, born[k]>> OBVIOUS
  <2> HIDE DEF p, s
  <2>4. /\ s + 1 <= Len(data[p]) /\ data[p][s + 1] = <<k, born[k]>>
        /\ \A j \in 1 .. (s + 1) : data[p][j] # Torn
    <3>1. ~(s + 1 > Len(data[p])) /\ ~(\E j \in 1 .. (s + 1) : data[p][j] = Torn) BY <2>0, <2>1 DEF pageAt
    <3>2. data[p][s + 1] = <<k, born[k]>> BY <2>0, <2>1, <3>1 DEF pageAt
    <3> QED BY <2>1, <2>2, <3>1, <3>2
  <2>5. /\ s + 1 <= Len(data'[p]) /\ data'[p][s + 1] = <<k, born[k]>>
        /\ \A j \in 1 .. (s + 1) : data'[p][j] # Torn
    <3>1. \A j \in 1 .. (s + 1) : j \in 1 .. Len(data[p]) BY <2>1, <2>2, <2>4
    <3>2. s + 1 \in 1 .. (s + 1) BY <2>1
    <3>3. s + 1 <= Len(data'[p]) BY <2>1, <2>2, <2>3, <2>4
    <3> QED BY <2>3, <2>4, <3>1, <3>2, <3>3
  <2>6. pageAt(p, s)' = <<k, born[k]>>
    <3>1. p' = p /\ s' = s BY <2>3 DEF p, s
    <3> QED BY SMTT(40), <2>1, <2>2, <2>5, <3>1 DEF pageAt
  <2> QED BY <2>3, <2>6 DEF p, s
<1>2. FileInv /\ [Next]_vars => [Kept]_vars BY <1>1
<1> QED BY <1>2, FileInvariance, PTL DEF Spec, Durable

-----------------------------------------------------------------------------
(* A page stays in the map until the meta partition lists it *)

\* A scan drops only entries of pages that are in the file.
LEMMA ScanDrops ==
  ASSUME Types, ErasesFlushed, scan
  PROVE  ErasesFlushed' /\ \A k \in PageIds : dirty[k].inCache => dirty'[k] = dirty[k]
<1> DEFINE Drops == \A k \in PageIds : dirty[k].inCache => dirty'[k] = dirty[k]
<1> USE Constants DEF Types, ScanTypes, ErasesFlushed, threadVars, setVars
<1>1. ASSUME NEW late \in PinLate, startScan(late) PROVE ErasesFlushed' /\ Drops BY <1>1 DEF startScan
<1>2. CASE setPinned BY <1>2 DEF setPinned
<1>3. CASE cleanDirtyPageSet
  <2>1. dirty' = [k \in PageIds |-> IF k \in toClean THEN NotListed ELSE dirty[k]]
        /\ spc = "clean" /\ spc' = "iter" /\ UNCHANGED <<ipc, iter>>
    BY <1>3 DEF cleanDirtyPageSet
  <2>2. Drops BY <2>1 DEF toClean, flushedEntries
  <2> QED BY <2>1, <2>2
<1>4. CASE getIterators BY <1>4 DEF getIterators
<1>5. CASE nextInCache BY <1>5 DEF nextInCache, threadAt
<1>6. CASE nextFlushedHit BY <1>6 DEF nextFlushedHit, threadAt, flushedEntries, goto
<1>7. CASE nextFlushedSeek BY <1>7 DEF nextFlushedSeek, threadAt, flushedEntries, goto
<1>8. CASE nextFlushedRead BY <1>8 DEF nextFlushedRead, threadAt, goto
<1>9. CASE nextErase
  <2>1. /\ ipc[Cache] = "erase" /\ iter \in listed /\ dirty' = [dirty EXCEPT ![iter] = NotListed]
        /\ ipc' = [ipc EXCEPT ![Cache] = "next"]
    BY <1>9 DEF nextErase, threadAt, goto
  <2>2. iter \in PageIds BY <2>1 DEF listed, listedIn
  <2>3. Drops BY <2>1, <2>2 DEF SetTypes
  <2> QED BY <2>1, <2>3
<1>10. CASE nextDangling BY <1>10 DEF nextDangling, goto
<1>11. ASSUME NEW p \in Partitions, partitionHit(p) \/ partitionSeek(p) \/ partitionRead(p)
       PROVE  ErasesFlushed' /\ Drops
  BY <1>11 DEF partitionHit, partitionSeek, partitionRead, threadAt, goto
<1>12. CASE endScan BY <1>12 DEF endScan, dropScan, noThread
<1> QED BY <1>1, <1>2, <1>3, <1>4, <1>5, <1>6, <1>7, <1>8, <1>9, <1>10, <1>11, <1>12 DEF scan

\* The steps of a flush thread, in the order of its work.
LEMMA FlushKept ==
  ASSUME FileInv, FileInv', KeptInv, NEW p \in Partitions, flush(p)
  PROVE  KeptInv'
<1> USE Constants DEF KeptInv
<1>1. ASSUME NEW k \in PageIds, takePage(p, k) PROVE KeptInv'
  BY <1>1 DEF takePage, fileVars, disk, lifeVars, setVars, scanVars, threadVars, Flushed, Older, ErasesFlushed,
              KeptOrWritten, FileInv, Types, SetTypes
<1>2. CASE appendPage(p)
  <2>1. UNCHANGED <<meta, lifeVars, setVars, fpage, scanVars>> /\ fpc' = [fpc EXCEPT ![p] = "lock"]
    BY <1>2 DEF appendPage, appendOk, appendFailed, appendCleared, fileVars, disk
  <2>2. failures' = 0 => failures = 0
    BY <1>2 DEF appendPage, appendOk, appendFailed, appendCleared, fileVars, FileInv, Types, FileTypes
  <2>3. Older' /\ ErasesFlushed' BY <2>1 DEF Older, ErasesFlushed, lifeVars, setVars, scanVars, threadVars
  <2>4. KeptOrWritten' BY <2>1, <2>2 DEF KeptOrWritten, lifeVars, setVars
  <2>5. Flushed'
    <3> SUFFICES ASSUME status = "up", failures' = 0, NEW q \in Partitions
                 PROVE  /\ fpc'[q] \in {"lock", "body"} => fpage[q] \in indexed(metaData)'
                        /\ fpc'[q] = "label" => fpage[q] \in indexed(meta)
      BY <2>1 DEF Flushed, lifeVars, indexed
    <3>0. failures = 0 /\ ~cleared BY <2>2 DEF FileInv, Life
    <3>1. appendOk(p, <<fpage[p], born[fpage[p]]>>) /\ fret' = [fret EXCEPT ![p] = metaData.numPages[p]]
      <4>1. ~appendCleared BY <3>0 DEF appendCleared
      <4>2. ~appendFailed(p) BY <3>0 DEF appendFailed
      <4> QED BY <1>2, <4>1, <4>2, AppendCases
    <3>2. fpage[p] \in indexed(metaData)'
      BY <1>2, <3>1, AppendKeeps
    <3>3. indexed(metaData) \subseteq indexed(metaData)'
      <4>1. \A j \in indexed(metaData) : metaData'.pageIndexes[j] = metaData.pageIndexes[j]
        BY <1>2, <3>1, AppendKeeps
      <4> QED BY <4>1 DEF indexed
    <3> QED BY <2>1, <3>0, <3>2, <3>3 DEF Flushed, FileInv, Types, SetTypes
  <2> QED BY <2>3, <2>4, <2>5
<1>3. CASE flushSize(p)
  <2>1. /\ UNCHANGED <<meta, metaData, failures, lifeVars, fpage, scanVars, seqId, born, dirty>>
        /\ fpc[p] = "lock" /\ fpc' = [fpc EXCEPT ![p] = IF cleared THEN "label" ELSE "body"]
    BY <1>3 DEF flushSize, writeMetaSize, writeMetaCleared, fileVars, disk
  <2>2. cleared => status # "up" BY DEF FileInv, Life
  <2>3. Flushed' BY <2>1, <2>2 DEF Flushed, lifeVars, FileInv, Types, SetTypes, indexed
  <2>4. Older' /\ ErasesFlushed' /\ KeptOrWritten'
    BY <2>1 DEF Older, ErasesFlushed, KeptOrWritten, lifeVars, scanVars, threadVars, indexed
  <2> QED BY <2>3, <2>4
<1>4. CASE flushBody(p)
  <2>1. /\ UNCHANGED <<metaData, failures, lifeVars, fpage, scanVars, setVars>>
        /\ fpc[p] = "body" /\ fpc' = [fpc EXCEPT ![p] = "label"] /\ meta' = metaData
    BY <1>4 DEF flushBody, writeMetaBody
  <2>2. indexed(meta)' = indexed(metaData) /\ indexed(metaData)' = indexed(metaData) BY <2>1 DEF indexed
  <2>3. indexed(meta) \subseteq indexed(meta)' BY <2>1, <2>2, MetaIndexed DEF FileInv, Locked
  <2>4. Flushed' BY <2>1, <2>2, <2>3 DEF Flushed, lifeVars, FileInv, Types, SetTypes
  <2>5. Older' /\ ErasesFlushed' BY <2>1 DEF Older, ErasesFlushed, lifeVars, setVars, scanVars, threadVars
  <2>6. KeptOrWritten' BY <2>1, <2>3 DEF KeptOrWritten, lifeVars, setVars
  <2> QED BY <2>4, <2>5, <2>6
<1>5. CASE removePageFromDirtyPageSet(p)
  <2> DEFINE entry == IF dirty[fpage[p]] = NotListed THEN NotListed ELSE label(p)
  <2>1. /\ UNCHANGED <<meta, metaData, failures, lifeVars, seqId, born, spc, threadVars>>
        /\ fpc[p] = "label" /\ fpc' = [fpc EXCEPT ![p] = "idle"]
        /\ dirty' = [dirty EXCEPT ![fpage[p]] = entry] /\ fpage' = [fpage EXCEPT ![p] = NoId]
    BY <1>5 DEF removePageFromDirtyPageSet, fileVars, disk
  <2>2. ~entry.inCache BY DEF NotListed, label
  <2>3. \A k \in PageIds : k # fpage[p] => dirty'[k] = dirty[k] BY <2>1 DEF FileInv, Types, SetTypes
  <2>4. \A k \in PageIds : dirty'[k].inCache => dirty[k].inCache
    BY <2>1, <2>2, <2>3 DEF FileInv, Types, SetTypes
  <2>5. Flushed' BY <2>1 DEF Flushed, lifeVars, FileInv, Types, SetTypes, indexed
  <2>6. Older' BY <2>1 DEF Older, lifeVars
  <2>7. ErasesFlushed' BY <2>1, <2>4 DEF ErasesFlushed, threadVars, FileInv, Types, ScanTypes
  <2>8. KeptOrWritten' BY <2>1, <2>3 DEF KeptOrWritten, Flushed, lifeVars, indexed
  <2> QED BY <2>5, <2>6, <2>7, <2>8
<1> QED BY <1>1, <1>2, <1>3, <1>4, <1>5 DEF flush

\* The invariant holds before the set is made.
LEMMA KeptInitial == Init => KeptInv
  BY Constants DEF Init, FileInit, ScanInit, KeptInv, Flushed, Older, ErasesFlushed, KeptOrWritten, noThread, noPages

\* Every step keeps the pages that are not in the file yet in the map.
LEMMA KeptInvKept == FileInv /\ FileInv' /\ KeptInv /\ [Next]_vars => KeptInv'
<1> SUFFICES ASSUME FileInv, FileInv', KeptInv, [Next]_vars PROVE KeptInv' OBVIOUS
<1> USE Constants DEF KeptInv
<1>1. CASE UNCHANGED vars
  BY <1>1 DEF vars, fileVars, disk, lifeVars, setVars, flushVars, scanVars, threadVars, Flushed, Older,
              ErasesFlushed, KeptOrWritten, indexed
<1>2. CASE createSet \/ createSize \/ createBody
  <2>1. /\ UNCHANGED <<run, born, dirty, flushVars, scanVars>> /\ status' \in {"size", "body", "up"}
        /\ status' = "up" => seqId' = 0 /\ \A p \in Partitions : fpc[p] = "idle"
    BY <1>2 DEF createSet, createSize, createBody, setVars, FileInv, Life
  <2>2. Flushed' BY <2>1 DEF Flushed, flushVars
  <2>3. Older' /\ ErasesFlushed' BY <2>1 DEF Older, ErasesFlushed, scanVars, threadVars
  <2>4. KeptOrWritten' BY <2>1 DEF KeptOrWritten
  <2> QED BY <2>2, <2>3, <2>4
<1>3. CASE clearSet \/ clearDone \/ \E p \in Partitions : clearPartition(p)
  <2>1. /\ UNCHANGED <<run, born, scanVars>> /\ status' \in {"clearing", "none"}
        /\ \A k \in PageIds : dirty'[k] = dirty[k] \/ dirty'[k] = NotListed
    BY <1>3 DEF clearSet, clearDone, clearPartition, lifeVars, setVars
  <2>2. Flushed' /\ KeptOrWritten' BY <2>1 DEF Flushed, KeptOrWritten
  <2>3. Older' BY <2>1 DEF Older
  <2>4. ErasesFlushed' BY <2>1 DEF ErasesFlushed, scanVars, threadVars, NotListed, FileInv, Types, ScanTypes
  <2> QED BY <2>2, <2>3, <2>4
<1>4. CASE addPage
  <2>1. /\ status = "up" /\ seqId \in PageIds /\ spc = "idle" /\ seqId' = seqId + 1
        /\ born' = [born EXCEPT ![seqId] = run] /\ dirty' = [dirty EXCEPT ![seqId] = InCache]
        /\ UNCHANGED <<fileVars, lifeVars, flushVars, scanVars>>
    BY <1>4 DEF addPage, Active
  <2>2. run \in Nat /\ seqId \in Nat BY DEF FileInv, Types, SetTypes
  <2>3. \A k \in PageIds : born'[k] = (IF k = seqId THEN run ELSE born[k])
                           /\ dirty'[k] = (IF k = seqId THEN InCache ELSE dirty[k])
    BY <2>1 DEF FileInv, Types, SetTypes
  <2>4. Flushed' BY <2>1 DEF Flushed, fileVars, disk, lifeVars, flushVars, indexed
  <2>5. Older' BY <2>1, <2>2, <2>3 DEF Older, lifeVars
  <2>6. ErasesFlushed' BY <2>1 DEF ErasesFlushed, scanVars, threadVars
  <2>7. KeptOrWritten'
    <3> SUFFICES ASSUME failures = 0, NEW k \in PageIds, k < seqId + 1, born'[k] = run
                 PROVE  dirty'[k].inCache \/ k \in indexed(meta)
      BY <2>1 DEF KeptOrWritten, fileVars, disk, lifeVars, indexed
    <3>1. CASE k = seqId BY <2>3, <3>1 DEF InCache
    <3>2. CASE k # seqId
      <4>1. k \in Nat OBVIOUS
      <4>2. k < seqId BY <2>2, <3>2, <4>1
      <4> QED BY <2>1, <2>3, <3>2, <4>2 DEF KeptOrWritten
    <3> QED BY <3>1, <3>2
  <2> QED BY <2>4, <2>5, <2>6, <2>7
<1>5. ASSUME NEW p \in Partitions, flush(p) PROVE KeptInv' BY <1>5, FlushKept
<1>6. CASE scan
  <2>1. ScanFrame /\ ErasesFlushed' /\ \A k \in PageIds : dirty[k].inCache => dirty'[k] = dirty[k]
    BY <1>6, ScanLeaves, ScanDrops DEF FileInv
  <2>2. Flushed' /\ Older' BY <2>1 DEF ScanFrame, Flushed, Older, indexed
  <2>3. KeptOrWritten' BY <2>1 DEF ScanFrame, KeptOrWritten, indexed
  <2> QED BY <2>1, <2>2, <2>3
<1>7. CASE crash
  <2>1. /\ run' = run + 1 /\ status' = "down" /\ born' = born /\ run \in Nat
        /\ born \in [PageIds -> Nat] /\ ipc' = noThread
    BY <1>7 DEF crash, dropScan, FileInv, Types, SetTypes
  <2>2. Flushed' /\ KeptOrWritten' BY <2>1 DEF Flushed, KeptOrWritten
  <2>3. ErasesFlushed' BY <2>1 DEF ErasesFlushed, noThread
  <2>4. Older' BY <2>1 DEF Older
  <2> QED BY <2>2, <2>3, <2>4
<1>8. CASE restart
  <2>1. /\ status = "down" /\ UNCHANGED <<run, born, dirty, flushVars, scanVars>> /\ status' = "up"
    BY <1>8 DEF restart
  <2>2. /\ \A p \in Partitions : fpc[p] = "idle"
        /\ \A k \in PageIds : born[k] < run /\ born[k] \in Nat /\ run \in Nat
    BY <2>1 DEF FileInv, Life, Older, Types, SetTypes
  <2>3. Flushed' BY <2>1, <2>2 DEF Flushed, flushVars
  <2>4. KeptOrWritten' BY <2>1, <2>2 DEF KeptOrWritten
  <2>5. Older' BY <2>1, <2>2 DEF Older
  <2>6. ErasesFlushed' BY <2>1 DEF ErasesFlushed, scanVars, threadVars
  <2> QED BY <2>3, <2>4, <2>5, <2>6
<1>9. CASE restartRefused \/ restartWithoutSet
  <2>1. /\ status = "down" /\ status' \in {"refused", "none"} /\ UNCHANGED <<run, born, dirty, scanVars>>
    BY <1>9 DEF restartRefused, restartWithoutSet, setVars
  <2>2. Flushed' /\ KeptOrWritten' BY <2>1 DEF Flushed, KeptOrWritten
  <2>3. Older' BY <2>1 DEF Older
  <2>4. ErasesFlushed' BY <2>1 DEF ErasesFlushed, scanVars, threadVars
  <2> QED BY <2>2, <2>3, <2>4
<1> QED BY <1>1, <1>2, <1>3, <1>4, <1>5, <1>6, <1>7, <1>8, <1>9 DEF Next

\* The pages that are not in the file yet stay in the map, in every behaviour.
THEOREM KeptInvariance == Spec => []KeptInv
  BY KeptInitial, KeptInvKept, FileInvariance, PTL DEF Spec

\* While no write has failed, a page made in this run of the server is in the cache or is
\* found again after a crash, at every step of every flush thread.
THEOREM KeptOrWrittenCorrect == Spec => []KeptOrWritten
<1>1. KeptInv => KeptOrWritten BY DEF KeptInv
<1> QED BY <1>1, KeptInvariance, PTL

-----------------------------------------------------------------------------
(* Scans: what a step has to keep *)

\* A scan that is not under way has no record.
LEMMA IdleScan ==
  ASSUME ScanInv, spc = "idle", UNCHANGED scanVars, Answered'
  PROVE  ScanInv'
<1>1. UNCHANGED <<spc, pinLate, iter, todo, ipc, numPages, numIteratedPages, initial, returned, excused, erased, twice>>
  BY DEF scanVars, threadVars
<1>2. ~HasIterators /\ ~HasIterators' /\ ~Preparing' BY <1>1 DEF HasIterators, Preparing
<1>3. Before' BY <1>1, <1>2 DEF ScanInv, Before
<1>4. Map' /\ Once' /\ Complete' BY <1>2 DEF Map, Once, Complete
<1>5. Pinned' BY <1>1 DEF ScanInv, Pinned
<1> QED BY <1>1, <1>3, <1>4, <1>5 DEF ScanInv

\* A scan that ends, or is lost in a crash, leaves no record.
LEMMA DroppedScan ==
  ASSUME dropScan, Answered'
  PROVE  ScanInv'
<1>2. ~HasIterators' /\ ~Preparing' BY DEF dropScan, HasIterators, Preparing
<1>3. Before' BY <1>2 DEF dropScan, Before
<1>4. Map' /\ Once' /\ Complete' BY <1>2 DEF Map, Once, Complete
<1>5. Pinned' BY DEF dropScan, Pinned
<1> QED BY <1>3, <1>4, <1>5 DEF ScanInv, dropScan

\* A page that is returned was ahead in one place, and is ahead nowhere afterwards.
LEMMA OnceKept ==
  ASSUME HasIterators, Once, twice \subseteq twice', NEW k,
         \A j \in PageIds : (AheadInMap(j)' => AheadInMap(j)) /\ (AheadInFile(j)' => AheadInFile(j)),
         \A j \in PageIds : j = k \/ returned'[j] = returned[j] \/ j \in twice',
         k \in PageIds \ twice' => /\ returned[k] = 0 => returned'[k] < 2
                                   /\ \/ AheadInMap(k) /\ ~AheadInMap(k)'
                                      \/ AheadInFile(k) /\ ~AheadInFile(k)'
  PROVE  Once'
<1> SUFFICES ASSUME NEW j \in PageIds \ twice'
             PROVE  /\ returned'[j] < 2
                    /\ AheadInMap(j)' => returned'[j] = 0 /\ ~AheadInFile(j)'
                    /\ AheadInFile(j)' => returned'[j] = 0
  BY DEF Once
<1>1. /\ returned[j] < 2
      /\ AheadInMap(j) => returned[j] = 0 /\ ~AheadInFile(j)
      /\ AheadInFile(j) => returned[j] = 0
  BY DEF Once
<1>2. CASE j = k BY <1>1, <1>2
<1>3. CASE j # k BY <1>1, <1>3
<1> QED BY <1>2, <1>3

\* A page that was ahead and is not any more was returned, or has an excuse.
LEMMA CompleteKept ==
  ASSUME HasIterators, Complete, initial \in SUBSET PageIds, initial' = initial,
         erased \subseteq erased', excused \subseteq excused',
         \A j \in PageIds : returned[j] > 0 => returned'[j] > 0,
         \A j \in PageIds : AheadInMap(j) \/ AheadInFile(j) =>
           AheadInMap(j)' \/ AheadInFile(j)' \/ returned'[j] > 0 \/ j \in erased' \cup excused'
  PROVE  Complete'
<1> SUFFICES ASSUME NEW j \in initial
             PROVE  returned'[j] > 0 \/ j \in erased' \cup excused' \/ AheadInMap(j)' \/ AheadInFile(j)'
  BY DEF Complete
<1>1. returned[j] > 0 \/ j \in erased \cup excused \/ AheadInMap(j) \/ AheadInFile(j)
  BY DEF Complete
<1> QED BY <1>1

\* The iterator over dirty pages goes on to an entry that is listed, and passes over none.
LEMMA Advanced ==
  ASSUME NEW left \in SUBSET PageIds, NEW d, advance(left, d)
  PROVE  /\ iter' \notin todo' /\ (iter' = NoId => todo' = {})
         /\ todo' \subseteq left \cap listedIn(d) /\ (iter' # NoId => iter' \in left \cap listedIn(d))
         /\ \A j \in left \cap listedIn(d) : j \in todo' \/ j = iter'
<1> USE Constants
<1>1. CASE left \cap listedIn(d) = {} BY <1>1 DEF advance
<1>2. CASE left \cap listedIn(d) # {} BY <1>2 DEF advance
<1> QED BY <1>1, <1>2

\* The page at a place of a partition is the one that the index has there.
LEMMA PageIdUnique ==
  ASSUME Types, Good(metaData), NEW p \in Partitions, NEW s \in Nat, NEW j \in indexed(metaData),
         metaData.pageIndexes[j].partitionId = p, metaData.pageIndexes[j].pageSeqInPartition = s
  PROVE  getPageId(p, s) = j
<1> DEFINE owners == {k \in PageIds :
        metaData.pageIndexes[k] = [partitionId |-> p, pageSeqInPartition |-> s]}
<1>1. metaData.pageIndexes[j] \in [partitionId : Partitions \cup {NoId}, pageSeqInPartition : Nat \cup {NoId}] /\ j \in PageIds
  BY DEF Types, FileTypes, Shape, indexed
<1>2. metaData.pageIndexes[j] = [partitionId |-> p, pageSeqInPartition |-> s] BY <1>1
<1>3. owners \subseteq indexed(metaData) BY Constants DEF indexed, NoIndex
<1>4. \A k \in owners : k = j BY <1>2, <1>3 DEF Good
<1>5. j \in owners BY <1>1, <1>2
<1>6. (CHOOSE k \in owners : TRUE) \in owners BY <1>5
<1> QED BY <1>4, <1>5, <1>6 DEF getPageId

\* The id at a place belongs to a page that the index has there.
LEMMA PageIdIndexed ==
  ASSUME NEW p \in Partitions, NEW s \in Nat, getPageId(p, s) # NoId
  PROVE  /\ getPageId(p, s) \in indexed(metaData)
         /\ metaData.pageIndexes[getPageId(p, s)] = [partitionId |-> p, pageSeqInPartition |-> s]
<1> DEFINE owners == {k \in PageIds :
        metaData.pageIndexes[k] = [partitionId |-> p, pageSeqInPartition |-> s]}
<1>1. owners # {} /\ getPageId(p, s) = CHOOSE k \in owners : TRUE BY DEF getPageId
<1>2. (CHOOSE k \in owners : TRUE) \in owners BY <1>1
<1>3. getPageId(p, s) \in owners BY <1>1, <1>2
<1> QED BY <1>3, Constants DEF indexed, NoIndex

-----------------------------------------------------------------------------
(* Scans while pages are flushed *)

\* What the invariant says of pages that are ahead depends on these variables only.
LEMMA SameAhead ==
  ASSUME ScanInv, UNCHANGED <<metaData, dirty, isPinned, scanVars>>, Answered'
  PROVE  ScanInv'
<1>1. UNCHANGED <<spc, pinLate, iter, todo, ipc, numPages, numIteratedPages, initial, returned, excused, erased, twice>>
  BY DEF scanVars, threadVars
<1>2. HasIterators' = HasIterators /\ Preparing' = Preparing /\ listed' = listed
  BY <1>1 DEF HasIterators, Preparing, listed
<1>3. \A j \in PageIds : AheadInMap(j)' = AheadInMap(j) /\ AheadInFile(j)' = AheadInFile(j)
  BY <1>1 DEF AheadInMap, AheadInFile, indexed
<1>4. Before' BY <1>1, <1>2 DEF ScanInv, Before, indexed
<1>5. Map' BY <1>1, <1>2 DEF ScanInv, Map, morePages
<1>6. Pinned' BY <1>1 DEF ScanInv, Pinned
<1>7. Once' BY <1>1, <1>2, <1>3 DEF ScanInv, Once
<1>8. Complete' BY <1>1, <1>2, <1>3 DEF ScanInv, Complete
<1> QED BY <1>1, <1>4, <1>5, <1>6, <1>7, <1>8 DEF ScanInv

\* A page that is appended during a scan lies behind what its iterators will read.
LEMMA AppendScan ==
  ASSUME FileInv, ScanInv, NEW p \in Partitions, appendPage(p)
  PROVE  ScanInv'
<1> USE Constants
<1>0. /\ UNCHANGED <<lifeVars, setVars, fpage, scanVars>> /\ fpc' = [fpc EXCEPT ![p] = "lock"]
      /\ fpc \in [Partitions -> {"idle", "append", "lock", "body", "label"}] /\ fret \in [Partitions -> Nat \cup {NoId}]
  BY DEF appendPage, FileInv, Types, SetTypes
<1>1. CASE appendOk(p, <<fpage[p], born[fpage[p]]>>) /\ fret' = [fret EXCEPT ![p] = metaData.numPages[p]]
  <2>1. /\ fpage[p] \in indexed(metaData)' /\ status = "up"
        /\ \A j \in indexed(metaData) : metaData'.pageIndexes[j] = metaData.pageIndexes[j]
        /\ \A j \in indexed(metaData)' :
              \/ j \in indexed(metaData)
              \/ metaData'.pageIndexes[j] = [partitionId |-> p, pageSeqInPartition |-> metaData.numPages[p]]
    BY <1>1, AppendKeeps
  <2>2. indexed(metaData) \subseteq indexed(metaData)' BY <2>1 DEF indexed
  <2>3. fpage[p] \in PageIds BY <2>1 DEF indexed
  <2>4. metaData'.numPages = [metaData.numPages EXCEPT ![p] = metaData.numPages[p] + 1]
    BY <1>1, <2>3, AppendType DEF FileInv
  <2>5. metaData.numPages \in [Partitions -> Nat] /\ numPages \in [Partitions -> Nat]
    BY DEF FileInv, Types, FileTypes, Shape, ScanTypes
  <2>6. UNCHANGED <<spc, pinLate, iter, todo, ipc, numPages, numIteratedPages, initial, returned, excused, erased, twice>>
        /\ UNCHANGED <<dirty, isPinned, status>>
    BY <1>0 DEF scanVars, threadVars, setVars, lifeVars
  <2>7. HasIterators' = HasIterators /\ Preparing' = Preparing /\ listed' = listed
    BY <2>6 DEF HasIterators, Preparing, listed
  <2>8. ASSUME HasIterators, NEW j \in PageIds
        PROVE  /\ AheadInMap(j)' <=> AheadInMap(j)
               /\ AheadInFile(j)' <=> AheadInFile(j)
    <3>1. AheadInMap(j)' <=> AheadInMap(j) BY <2>6 DEF AheadInMap
    <3>2. CASE j \in indexed(metaData) BY <3>1, <2>1, <2>2, <2>6, <3>2 DEF AheadInFile
    <3>3. CASE j \notin indexed(metaData)' BY <3>1, <2>2, <3>3 DEF AheadInFile
    <3>4. CASE j \in indexed(metaData)' /\ j \notin indexed(metaData)
      <4>1. metaData'.pageIndexes[j] = [partitionId |-> p, pageSeqInPartition |-> metaData.numPages[p]]
        BY <2>1, <3>4
      <4>2. numPages[p] <= metaData.numPages[p] /\ numPages'[p] = numPages[p] BY <2>6, <2>8 DEF ScanInv, Map
      <4>3. ~(metaData.numPages[p] < numPages[p]) BY <2>5, <4>2
      <4> QED BY <3>1, <3>4, <4>1, <4>2, <4>3 DEF AheadInFile
    <3> QED BY <3>1, <3>2, <3>3, <3>4
  <2>9. Before' BY <2>2, <2>6, <2>7 DEF ScanInv, Before
  <2>10. Map'
    <3>1. \A q \in Partitions : numPages[q] <= metaData.numPages[q] => numPages[q] <= metaData'.numPages[q]
      BY <2>4, <2>5
    <3> QED BY <2>6, <2>7, <3>1 DEF ScanInv, Map, morePages
  <2>11. Pinned' BY <2>6 DEF ScanInv, Pinned
  <2>12. Once' BY <2>6, <2>7, <2>8 DEF ScanInv, Once
  <2>13. Complete' BY <2>6, <2>7, <2>8 DEF ScanInv, Complete
  <2>14. Answered' BY <1>0, <2>1, <2>2, <1>1 DEF ScanInv, Answered, lifeVars
  <2> QED BY <2>6, <2>9, <2>10, <2>11, <2>12, <2>13, <2>14 DEF ScanInv
<1>2. CASE (appendFailed(p) \/ appendCleared) /\ fret' = [fret EXCEPT ![p] = NoId]
  <2>1. metaData' = metaData BY <1>2 DEF appendFailed, appendCleared, fileVars
  <2>2. Answered' BY <1>0, <1>2, <2>1 DEF ScanInv, Answered, lifeVars, indexed
  <2> QED BY <1>0, <2>1, <2>2, SameAhead DEF setVars
<1> QED BY <1>1, <1>2, AppendCases

\* An entry that a flush thread erases is noted, and a set that is pinned keeps its entries.
LEMMA LabelScan ==
  ASSUME FileInv, ScanInv, NEW p \in Partitions, removePageFromDirtyPageSet(p)
  PROVE  ScanInv'
<1> USE Constants
<1> DEFINE k == fpage[p]
           entry == IF dirty[k] = NotListed THEN NotListed ELSE label(p)
<1>0. /\ fpc[p] = "label"
      /\ dirty' = [dirty EXCEPT ![k] = entry]
      /\ erased' = erased \cup IF HasIterators /\ entry = NotListed THEN {k} \cap (todo \cup {iter}) ELSE {}
      /\ excused' = excused \cup IF Active /\ fret[p] = NoId THEN {k} ELSE {}
      /\ fpc' = [fpc EXCEPT ![p] = "idle"]
      /\ fpage' = [fpage EXCEPT ![p] = NoId] /\ fret' = [fret EXCEPT ![p] = NoId]
      /\ UNCHANGED <<metaData, status, isPinned, spc, pinLate, threadVars, initial, returned, twice>>
  BY DEF removePageFromDirtyPageSet, fileVars, lifeVars
<1>1. UNCHANGED <<iter, todo, ipc, numPages, numIteratedPages>> BY <1>0 DEF threadVars
<1>2. HasIterators' = HasIterators /\ Preparing' = Preparing /\ indexed(metaData)' = indexed(metaData)
  BY <1>0 DEF HasIterators, Preparing, indexed
<1>3. Active => status = "up" /\ k \in PageIds BY <1>0 DEF Active, FileInv, Life, Given
<1>4. (HasIterators => Active) /\ (Preparing => Active) BY DEF HasIterators, Preparing, Active
<1>5. /\ dirty \in [PageIds -> Entries] /\ fpc \in [Partitions -> {"idle", "append", "lock", "body", "label"}]
      /\ fpage \in [Partitions -> PageIds \cup {NoId}] /\ fret \in [Partitions -> Nat \cup {NoId}]
  BY DEF FileInv, Types, SetTypes
<1>6. \A j \in PageIds : j # k => dirty'[j] = dirty[j] BY <1>0, <1>5
<1>7. k \in PageIds => dirty'[k] = entry BY <1>0, <1>5
<1> HIDE DEF k, entry
<1>8. /\ listed' \subseteq listed
      /\ \A j \in listed : j \in listed' \/ (j = k /\ entry = NotListed)
  BY <1>6, <1>7 DEF listed, listedIn, entry
<1>9. Before'
  <2>1. spc = "idle" => excused' = excused BY <1>0 DEF Active
  <2>2. ~HasIterators => erased' = erased BY <1>0
  <2>3. ASSUME Preparing, NEW j \in initial
        PROVE  dirty'[j].inCache \/ j \in indexed(metaData) \/ j \in excused'
    <3>1. dirty[j].inCache \/ j \in indexed(metaData) \/ j \in excused BY <2>3 DEF ScanInv, Before
    <3>2. CASE j # k BY <1>0, <1>6, <3>1, <3>2 DEF ScanInv
    <3>3. CASE j = k
      <4>1. fret[p] # NoId => k \in indexed(metaData)
        BY <1>0, <1>3, <1>4, <2>3 DEF ScanInv, Answered, k
      <4>2. fret[p] = NoId => k \in excused' BY <1>0, <1>4, <2>3
      <4> QED BY <3>3, <4>1, <4>2
    <3> QED BY <3>2, <3>3
  <2>4. spc = "iter" => listed' \subseteq twice BY <1>8 DEF ScanInv, Before
  <2> QED BY <1>0, <1>1, <1>2, <2>1, <2>2, <2>3, <2>4 DEF ScanInv, Before
<1>10. ASSUME HasIterators PROVE todo \subseteq listed' \cup erased' /\ (iter # NoId => iter \in listed' \cup erased')
  BY <1>0, <1>8, <1>10 DEF ScanInv, Map
<1>11. Map' BY <1>0, <1>1, <1>2, <1>10 DEF ScanInv, Map, morePages
<1>12. Pinned'
  <2> SUFFICES ASSUME ~pinLate PROVE erased' = {} BY <1>0 DEF ScanInv, Pinned
  <2>1. erased = {} BY DEF ScanInv, Pinned
  <2>2. ASSUME HasIterators, entry = NotListed, k \in todo \cup {iter} PROVE FALSE
    <3>1. isPinned BY <2>2 DEF ScanInv, Pinned, HasIterators
    <3>2. k \in listed BY <1>3, <1>4, <2>1, <2>2 DEF ScanInv, Map
    <3>3. label(p) # NotListed BY <3>1 DEF label, NotListed
    <3> QED BY <2>2, <3>2, <3>3 DEF listed, listedIn, entry
  <2> QED BY <1>0, <2>1, <2>2
<1>13. \A j \in PageIds : (AheadInMap(j)' <=> AheadInMap(j)) /\ (AheadInFile(j)' <=> AheadInFile(j))
  BY <1>0, <1>1, <1>2 DEF AheadInMap, AheadInFile
<1>14. Once' BY <1>0, <1>2, <1>13 DEF ScanInv, Once
<1>15. Complete'
  <2>1. erased \subseteq erased' /\ excused \subseteq excused' BY <1>0
  <2> QED BY <1>0, <1>2, <1>13, <2>1 DEF ScanInv, Complete
<1>16. Answered' BY <1>0, <1>2, <1>5 DEF ScanInv, Answered
<1> QED BY <1>0, <1>9, <1>11, <1>12, <1>14, <1>15, <1>16 DEF ScanInv

\* Every step of a flush thread.
LEMMA FlushScan ==
  ASSUME FileInv, ScanInv, NEW p \in Partitions, flush(p)
  PROVE  ScanInv'
<1> USE Constants
<1>0. /\ fpc \in [Partitions -> {"idle", "append", "lock", "body", "label"}]
      /\ fpage \in [Partitions -> PageIds \cup {NoId}] BY DEF FileInv, Types, SetTypes
<1>1. ASSUME NEW k \in PageIds, takePage(p, k) PROVE ScanInv'
  <2>1. /\ UNCHANGED <<metaData, dirty, isPinned, scanVars, status, fret>>
        /\ fpc' = [fpc EXCEPT ![p] = "append"] /\ fpage' = [fpage EXCEPT ![p] = k]
    BY <1>1 DEF takePage, fileVars, setVars, lifeVars
  <2>2. Answered' BY <1>0, <2>1 DEF ScanInv, Answered, indexed
  <2> QED BY <2>1, <2>2, SameAhead
<1>2. CASE flushSize(p) \/ flushBody(p)
  <2>1. /\ UNCHANGED <<metaData, dirty, isPinned, scanVars, status, fpage, fret>>
        /\ fpc[p] \in {"lock", "body"} /\ \A q \in Partitions : q # p => fpc'[q] = fpc[q]
    BY <1>0, <1>2 DEF flushSize, flushBody, writeMetaSize, writeMetaCleared, writeMetaBody, fileVars, setVars, lifeVars
  <2>2. Answered' BY <2>1 DEF ScanInv, Answered, indexed
  <2> QED BY <2>1, <2>2, SameAhead
<1> QED BY <1>1, <1>2, AppendScan, LabelScan DEF flush

-----------------------------------------------------------------------------
(* The steps of a scan *)

\* The steps that lead to the iterators.
LEMMA PrepareScan ==
  ASSUME FileInv, ScanInv, ErasesFlushed, Answered',
         (\E late \in PinLate : startScan(late)) \/ setPinned \/ cleanDirtyPageSet
  PROVE  ScanInv'
<1> USE Constants
<1>1. ASSUME NEW late \in PinLate, startScan(late) PROVE ScanInv'
  <2>1. /\ spc = "idle" /\ spc' = (IF late THEN "clean" ELSE "pin") /\ pinLate' = late /\ initial' = pages
        /\ UNCHANGED <<metaData, dirty, isPinned, iter, todo, ipc, numPages, numIteratedPages, returned, excused, erased, twice>>
    BY <1>1 DEF startScan, fileVars, setVars, threadVars
  <2>2. ~HasIterators /\ ~HasIterators' BY <2>1 DEF HasIterators
  <2>3. Before' BY <2>1, <2>2 DEF ScanInv, Before, pages, indexed
  <2>4. Map' /\ Once' /\ Complete' BY <2>2 DEF Map, Once, Complete
  <2>5. Pinned'
    <3>1. late \in BOOLEAN BY SetAssumption
    <3>2. erased' = {} BY <2>1, <2>2 DEF ScanInv, Before
    <3> QED BY <2>1, <3>1, <3>2 DEF Pinned
  <2>6. initial' \in SUBSET PageIds BY <2>1 DEF pages, indexed
  <2> QED BY <2>3, <2>4, <2>5, <2>6 DEF ScanInv
<1>2. CASE setPinned
  <2>1. /\ spc = "pin" /\ spc' = (IF pinLate THEN "scan" ELSE "clean") /\ isPinned' = TRUE
        /\ UNCHANGED <<metaData, dirty, pinLate, iter, todo, ipc, numPages, numIteratedPages, initial, returned, excused, erased, twice>>
    BY <1>2 DEF setPinned, fileVars, threadVars
  <2>2. HasIterators' = HasIterators /\ listed' = listed BY <2>1 DEF HasIterators, listed
  <2>3. Preparing' => Preparing BY <2>1 DEF Preparing
  <2>4. \A j \in PageIds : AheadInMap(j)' = AheadInMap(j) /\ AheadInFile(j)' = AheadInFile(j)
    BY <2>1 DEF AheadInMap, AheadInFile, indexed
  <2>5. Before' BY <2>1, <2>2, <2>3 DEF ScanInv, Before, indexed
  <2>6. Map' BY <2>1, <2>2 DEF ScanInv, Map, morePages
  <2>7. Pinned' BY <2>1 DEF ScanInv, Pinned
  <2>8. Once' BY <2>1, <2>2, <2>4 DEF ScanInv, Once
  <2>9. Complete' BY <2>1, <2>2, <2>4 DEF ScanInv, Complete
  <2> QED BY <2>1, <2>5, <2>6, <2>7, <2>8, <2>9 DEF ScanInv
<1>3. CASE cleanDirtyPageSet
  <2>1. /\ spc = "clean" /\ spc' = "iter" /\ twice' = listed \ flushedEntries
        /\ dirty' = [k \in PageIds |-> IF k \in flushedEntries THEN NotListed ELSE dirty[k]]
        /\ UNCHANGED <<metaData, isPinned, pinLate, iter, todo, ipc, numPages, numIteratedPages, initial, returned, excused, erased>>
    BY <1>3 DEF cleanDirtyPageSet, fileVars, threadVars, toClean
  <2>2. ~HasIterators /\ ~HasIterators' /\ Preparing BY <2>1 DEF HasIterators, Preparing
  <2>3. listed' \subseteq twice'
    BY <2>1 DEF listed, listedIn
  <2>4. \A k \in PageIds : dirty[k].inCache => dirty'[k].inCache BY <2>1 DEF flushedEntries
  <2>5. Before'
    <3>1. \A k \in initial' : dirty'[k].inCache \/ k \in indexed(metaData)' \/ k \in excused'
      BY <2>1, <2>2, <2>4 DEF ScanInv, Before, indexed
    <3> QED BY <2>1, <2>2, <2>3, <3>1 DEF ScanInv, Before
  <2>6. Map' /\ Once' /\ Complete' BY <2>2 DEF Map, Once, Complete
  <2>7. Pinned' BY <2>1 DEF ScanInv, Pinned
  <2> QED BY <2>1, <2>5, <2>6, <2>7 DEF ScanInv
<1> QED BY <1>1, <1>2, <1>3

\* The iterators together come to every page of the set, and to a page twice only when it was
\* flushed since the map was cleaned.
LEMMA IteratorScan ==
  ASSUME FileInv, ScanInv, Answered', getIterators
  PROVE  ScanInv'
<1> USE Constants
<1>1. /\ spc = "iter" /\ spc' = (IF pinLate THEN "pin" ELSE "scan") /\ advance(listed, dirty)
      /\ numPages' = metaData.numPages /\ twice' = twice \cap listed \cap indexed(metaData)
      /\ UNCHANGED <<metaData, dirty, isPinned, pinLate, ipc, numIteratedPages, initial, returned, excused, erased>>
  BY DEF getIterators, fileVars, setVars
<1>2. ~HasIterators /\ HasIterators' /\ Preparing /\ ~Preparing'
  <2>1. pinLate \in BOOLEAN BY DEF FileInv, Types, ScanTypes
  <2> QED BY <1>1, <2>1 DEF HasIterators, Preparing
<1>3. /\ returned = noPages /\ erased = {} /\ ipc = noThread /\ numIteratedPages = noneOf
      /\ listed \subseteq twice
      /\ \A k \in initial : dirty[k].inCache \/ k \in indexed(metaData) \/ k \in excused
      /\ initial \in SUBSET PageIds
  BY <1>1, <1>2 DEF ScanInv, Before
<1>4. /\ iter' \notin todo' /\ (iter' = NoId => todo' = {})
      /\ todo' \subseteq listed /\ (iter' # NoId => iter' \in listed)
      /\ \A j \in listed : j \in todo' \/ j = iter'
  BY <1>1, Advanced DEF listed, listedIn
<1>5. listed' = listed /\ indexed(metaData)' = indexed(metaData) BY <1>1 DEF listed, indexed
<1>6. \A p \in Partitions : metaData.numPages[p] \in Nat /\ ipc[p] = "next"
  BY <1>3 DEF FileInv, Types, FileTypes, Shape, noThread
<1>7. Before' BY <1>1, <1>2 DEF Before, HasIterators
<1>8. Map' BY <1>1, <1>4, <1>5, <1>6 DEF Map
<1>9. Pinned' BY <1>1 DEF ScanInv, Pinned
<1>10. Once'
  <2> SUFFICES ASSUME NEW j \in PageIds \ twice' PROVE returned'[j] = 0 /\ ~(AheadInMap(j)' /\ AheadInFile(j)')
    BY DEF Once
  <2>1. AheadInMap(j)' => j \in listed BY <1>4 DEF AheadInMap
  <2>2. AheadInFile(j)' => j \in indexed(metaData) BY <1>5 DEF AheadInFile
  <2> QED BY <1>1, <1>3, <2>1, <2>2 DEF noPages
<1>11. Complete'
  <2> SUFFICES ASSUME NEW j \in initial, j \notin excused PROVE AheadInMap(j)' \/ AheadInFile(j)'
    BY <1>1 DEF Complete
  <2>1. CASE dirty[j].inCache
    <3>1. j \in listed BY <1>3, <2>1 DEF listed, listedIn, NotListed
    <3>2. ipc'[Cache] = "next" BY <1>1, <1>3 DEF noThread
    <3> QED BY <1>4, <3>1, <3>2 DEF AheadInMap
  <2>2. CASE j \in indexed(metaData)
    <3> DEFINE q == metaData.pageIndexes[j].partitionId
               s == metaData.pageIndexes[j].pageSeqInPartition
    <3>1. q \in Partitions /\ s \in Nat /\ s < metaData.numPages[q] BY <2>2 DEF FileInv, Good
    <3>2. numIteratedPages'[q] = 0 /\ numPages'[q] = metaData.numPages[q] BY <1>1, <1>3, <3>1 DEF noneOf
    <3>3. metaData' = metaData BY <1>1
    <3> QED BY <1>5, <2>2, <3>1, <3>2, <3>3 DEF AheadInFile
  <2> QED BY <1>3, <2>1, <2>2
<1> QED BY <1>1, <1>3, <1>7, <1>8, <1>9, <1>10, <1>11 DEF ScanInv

\* What a step of a scan with its iterators has to keep, beside Map, Once and Complete.
LEMMA Running ==
  ASSUME ScanInv, spc = "scan", Answered', UNCHANGED <<spc, pinLate, isPinned, initial>>, Map', Once', Complete',
         ~pinLate => erased' = erased
  PROVE  ScanInv'
<1>1. Before' BY DEF Before, HasIterators, Preparing
<1>2. Pinned' BY DEF ScanInv, Pinned
<1> QED BY <1>1, <1>2 DEF ScanInv

\* The iterator over dirty pages returns a page that is in the cache.
LEMMA NextInCacheScan ==
  ASSUME FileInv, ScanInv, Answered', nextInCache
  PROVE  ScanInv'
<1> USE Constants
<1>0. PICK k : k = iter OBVIOUS
<1>1. /\ spc = "scan" /\ ipc[Cache] = "next" /\ k # NoId /\ give(k) /\ advance(todo, dirty)
      /\ UNCHANGED <<metaData, dirty, isPinned, spc, pinLate, ipc, numPages, numIteratedPages, initial, excused, erased, twice>>
  BY <1>0 DEF nextInCache, threadAt, fileVars, setVars
<1>2. ScanTypes /\ k \in PageIds /\ todo \in SUBSET PageIds BY <1>0, <1>1 DEF FileInv, Types, ScanTypes
<1>3. HasIterators /\ HasIterators' /\ listed' = listed BY <1>1 DEF HasIterators, listed
<1>4. /\ k \notin todo /\ todo \subseteq listed \cup erased
      /\ \A p \in Partitions : numPages[p] <= metaData.numPages[p] /\ (ipc[p] = "read" => morePages(p))
  BY <1>0, <1>3 DEF ScanInv, Map
<1>5. /\ iter' \notin todo' /\ (iter' = NoId => todo' = {})
      /\ todo' \subseteq todo \cap listed /\ (iter' # NoId => iter' \in todo \cap listed)
      /\ \A j \in todo \cap listed : j \in todo' \/ j = iter'
  BY <1>1, <1>2, Advanced DEF listed
<1>6. /\ \A j \in PageIds : j # k => returned'[j] = returned[j]
      /\ returned'[k] > 0 /\ (returned[k] = 0 => returned'[k] = 1)
  BY <1>1, <1>2, GiveType
<1>7. \A j \in PageIds : AheadInFile(j)' <=> AheadInFile(j) BY <1>1 DEF AheadInFile, indexed
<1>8. \A j \in PageIds : /\ AheadInMap(j) <=> j \in todo \cup {k}
                         /\ AheadInMap(j)' <=> j \in todo' \cup {iter'}
  BY <1>0, <1>1 DEF AheadInMap
<1>9. ~AheadInMap(k)' /\ AheadInMap(k) BY <1>2, <1>4, <1>5, <1>8
<1>10. Map' BY <1>1, <1>3, <1>4, <1>5 DEF Map, morePages
<1>11. \A j \in PageIds : AheadInMap(j)' => AheadInMap(j) BY <1>5, <1>8
<1>12. Once' BY <1>1, <1>2, <1>3, <1>6, <1>7, <1>9, <1>11, OnceKept DEF ScanInv
<1>13. \A j \in PageIds : AheadInMap(j) => AheadInMap(j)' \/ returned'[j] > 0 \/ j \in erased
  BY <1>4, <1>5, <1>6, <1>8
<1>14. \A j \in PageIds : returned[j] > 0 => returned'[j] > 0 BY <1>6
<1>15. Complete' BY <1>1, <1>3, <1>7, <1>13, <1>14, CompleteKept DEF ScanInv
<1> QED BY <1>1, <1>10, <1>12, <1>15, Running

\* The iterator over dirty pages returns a page that was flushed, from the cache or from the
\* file, and is not ahead of it any more.
LEMMA NextFlushedScan ==
  ASSUME FileInv, ScanInv, Answered', nextFlushedHit \/ nextFlushedSeek \/ nextFlushedRead
  PROVE  ScanInv'
<1> USE Constants
<1>0. PICK k : k = iter OBVIOUS
<1>1. /\ spc = "scan" /\ ipc[Cache] \in {"next", "read"} /\ k \in listed
      /\ UNCHANGED <<metaData, dirty, isPinned, spc, pinLate, iter, todo, numPages, numIteratedPages, initial, erased>>
      /\ ipc' = [ipc EXCEPT ![Cache] = "erase"] \/ ipc' = [ipc EXCEPT ![Cache] = "read"]
  BY <1>0 DEF nextFlushedHit, nextFlushedSeek, nextFlushedRead, threadAt, goto, flushedEntries, seekPageDirect, readPage,
              fileVars, setVars
<1>2. /\ ScanTypes /\ k \in PageIds /\ ipc \in [Partitions \cup {Cache} -> {"next", "read", "erase"}]
      /\ Cache \notin Partitions
  BY <1>1 DEF FileInv, Types, ScanTypes, listed, listedIn
<1>3. HasIterators /\ HasIterators' /\ listed' = listed BY <1>1 DEF HasIterators, listed
<1>4. Map' BY <1>1, <1>2, <1>3 DEF ScanInv, Map, morePages
<1>5. \A j \in PageIds : AheadInFile(j)' <=> AheadInFile(j) BY <1>1 DEF AheadInFile, indexed
<1>6. /\ k \notin todo
      /\ \A j \in PageIds : AheadInMap(j) <=> j \in todo \cup {k}
      /\ \A j \in PageIds : AheadInMap(j)' <=> j \in todo \/ (j = k /\ ipc'[Cache] # "erase")
  BY <1>0, <1>1, <1>3 DEF ScanInv, Map, AheadInMap
<1>7. CASE nextFlushedSeek
  <2>1. /\ UNCHANGED <<returned, excused, twice>> /\ ipc'[Cache] = "read"
    BY <1>2, <1>7 DEF nextFlushedSeek, goto
  <2>2. Once' BY <1>1, <1>3, <1>5, <1>6, <2>1 DEF ScanInv, Once
  <2>3. Complete' BY <1>1, <1>3, <1>5, <1>6, <2>1 DEF ScanInv, Complete
  <2> QED BY <1>1, <1>4, <2>2, <2>3, Running
<1>8. CASE nextFlushedHit \/ nextFlushedRead
  <2>1. ipc'[Cache] = "erase" BY <1>2, <1>8 DEF nextFlushedHit, nextFlushedRead, goto
  <2>2. /\ excused \subseteq excused' /\ twice \subseteq twice'
        /\ \A j \in PageIds : returned'[j] = returned[j] \/ j \in twice' \/ (j = k /\ give(k))
        /\ \A j \in PageIds : returned[j] > 0 => returned'[j] > 0
        /\ returned'[k] > 0 \/ k \in excused'
    <3>1. CASE nextFlushedHit BY <1>0, <1>2, <3>1, GiveType DEF nextFlushedHit
    <3>2. CASE nextFlushedRead
      <4>1. PICK got : giveLoaded(k, got) BY <1>0, <3>2 DEF nextFlushedRead
      <4> QED BY <1>2, <4>1, LoadType
    <3> QED BY <1>8, <3>1, <3>2
  <2>3. k \in PageIds \ twice' => (returned[k] = 0 => returned'[k] < 2)
    BY <1>2, <2>2, GiveType
  <2>4. AheadInMap(k) /\ ~AheadInMap(k)' BY <1>2, <1>6, <2>1
  <2>5. \A j \in PageIds : AheadInMap(j)' => AheadInMap(j) BY <1>6
  <2>6. Once' BY <1>3, <1>5, <2>2, <2>3, <2>4, <2>5, OnceKept DEF ScanInv
  <2>7. \A j \in PageIds : AheadInMap(j) => AheadInMap(j)' \/ returned'[j] > 0 \/ j \in excused'
    BY <1>6, <2>2
  <2>8. Complete' BY <1>1, <1>3, <1>5, <2>2, <2>7, CompleteKept DEF ScanInv
  <2> QED BY <1>1, <1>4, <2>6, <2>8, Running
<1> QED BY <1>7, <1>8

\* The iterator over dirty pages goes on, past the entry it removes, or ends when another
\* thread removed the entry it was on.
LEMMA NextEraseScan ==
  ASSUME FileInv, ScanInv, Answered', nextErase \/ nextDangling
  PROVE  ScanInv'
<1> USE Constants
<1>0. PICK k : k = iter OBVIOUS
<1>1. /\ spc = "scan" /\ ipc' = [ipc EXCEPT ![Cache] = "next"]
      /\ UNCHANGED <<metaData, isPinned, spc, pinLate, numPages, numIteratedPages, initial, returned, excused, twice>>
  BY DEF nextErase, nextDangling, threadAt, goto, fileVars, setVars
<1>2. /\ ScanTypes /\ ipc \in [Partitions \cup {Cache} -> {"next", "read", "erase"}] /\ todo \in SUBSET PageIds
      /\ Cache \notin Partitions
  BY DEF FileInv, Types, ScanTypes
<1>3. HasIterators /\ HasIterators' BY <1>1 DEF HasIterators
<1>4. /\ k \notin todo /\ todo \subseteq listed \cup erased /\ (k # NoId => k \in listed \cup erased)
      /\ \A p \in Partitions : numPages[p] <= metaData.numPages[p] /\ (ipc[p] = "read" => morePages(p))
  BY <1>0, <1>3 DEF ScanInv, Map
<1>5. \A j \in PageIds : AheadInFile(j)' <=> AheadInFile(j) BY <1>1 DEF AheadInFile, indexed
<1>6. \A p \in Partitions : ipc'[p] = ipc[p] BY <1>1, <1>2
<1>7. CASE nextErase
  <2>1. /\ k \in listed /\ ipc[Cache] = "erase" /\ erased' = erased
        /\ dirty' = [dirty EXCEPT ![k] = NotListed] /\ advance(todo, [dirty EXCEPT ![k] = NotListed])
    BY <1>0, <1>7 DEF nextErase, threadAt
  <2>2. /\ listedIn([dirty EXCEPT ![k] = NotListed]) = listed \ {k} /\ listed' = listed \ {k}
    BY <2>1 DEF listed, listedIn, FileInv, Types, SetTypes
  <2>3. /\ iter' \notin todo' /\ (iter' = NoId => todo' = {})
        /\ todo' \subseteq todo \cap listed' /\ (iter' # NoId => iter' \in todo \cap listed')
        /\ \A j \in todo \cap listed' : j \in todo' \/ j = iter'
    BY <1>2, <2>1, <2>2, Advanced
  <2>4. \A j \in PageIds : /\ AheadInMap(j) <=> j \in todo
                           /\ AheadInMap(j)' => j \in todo' \cup {iter'}
    BY <1>0, <2>1 DEF AheadInMap
  <2>5. ipc'[Cache] = "next" BY <1>1, <1>2
  <2>6. \A j \in PageIds : j \in todo' \cup {iter'} => AheadInMap(j)' BY <2>5 DEF AheadInMap
  <2>7. Map' BY <1>1, <1>3, <1>4, <1>6, <2>1, <2>3 DEF Map, morePages
  <2>8. \A j \in PageIds : AheadInMap(j)' => AheadInMap(j) BY <2>3, <2>4
  <2>9. Once' BY <1>1, <1>3, <1>5, <2>8 DEF ScanInv, Once
  <2>10. \A j \in PageIds : AheadInMap(j) => AheadInMap(j)' \/ j \in erased
    BY <1>4, <2>2, <2>3, <2>4, <2>6
  <2>11. Complete' BY <1>1, <1>3, <1>5, <2>1, <2>10, CompleteKept DEF ScanInv
  <2> QED BY <1>1, <2>1, <2>7, <2>9, <2>11, Running
<1>8. CASE nextDangling
  <2>1. /\ k # NoId /\ k \notin listed /\ erased' = erased \cup todo /\ iter' = NoId /\ todo' = {}
    BY <1>0, <1>8 DEF nextDangling
  <2>2. k \in erased /\ pinLate BY <1>4, <2>1 DEF ScanInv, Pinned
  <2>3. Map' BY <1>1, <1>3, <1>4, <1>6, <2>1 DEF Map, morePages
  <2>4. \A j \in PageIds : ~AheadInMap(j)' /\ (AheadInMap(j) => j \in erased')
    BY <1>0, <2>1, <2>2 DEF AheadInMap
  <2>5. Once' BY <1>1, <1>3, <1>5, <2>4 DEF ScanInv, Once
  <2>6. Complete' BY <1>1, <1>3, <1>5, <2>1, <2>4, CompleteKept DEF ScanInv
  <2> QED BY <1>1, <2>2, <2>3, <2>5, <2>6, Running
<1> QED BY <1>7, <1>8

\* The iterator over a partition returns the page that the index has at its place.
LEMMA PartitionScan ==
  ASSUME FileInv, ScanInv, Answered', NEW p \in Partitions, partitionHit(p) \/ partitionRead(p)
  PROVE  ScanInv'
<1> USE Constants
<1>0. PICK n : n = numIteratedPages[p] OBVIOUS
<1>1. PICK k : k = getPageId(p, n) OBVIOUS
<1>2. /\ spc = "scan" /\ numIteratedPages' = [numIteratedPages EXCEPT ![p] = n + 1]
      /\ ipc' = ipc \/ ipc' = [ipc EXCEPT ![p] = "next"]
      /\ UNCHANGED <<metaData, dirty, isPinned, spc, pinLate, iter, todo, numPages, initial, erased>>
  BY <1>0 DEF partitionHit, partitionRead, threadAt, goto, readPage, fileVars, setVars
<1>3. /\ ScanTypes /\ ipc \in [Partitions \cup {Cache} -> {"next", "read", "erase"}]
      /\ numIteratedPages \in [Partitions -> Nat] /\ n \in Nat /\ numPages \in [Partitions -> Nat]
  BY <1>0 DEF FileInv, Types, ScanTypes
<1>4. HasIterators /\ HasIterators' /\ listed' = listed BY <1>2 DEF HasIterators, listed
<1>5. n < numPages[p]
  BY <1>0, <1>4 DEF partitionHit, partitionRead, threadAt, morePages, ScanInv, Map
<1>6. \A q \in Partitions : numIteratedPages'[q] = IF q = p THEN n + 1 ELSE numIteratedPages[q]
  BY <1>2, <1>3
<1>7. Map'
  <2>1. \A q \in Partitions : ipc'[q] = "read" => ipc[q] = "read" /\ q # p
    <3>1. CASE partitionHit(p) BY <3>1 DEF partitionHit, threadAt
    <3>2. CASE partitionRead(p) BY <1>3, <3>2 DEF partitionRead, goto
    <3> QED BY <3>1, <3>2
  <2>2. \A q \in Partitions : ipc'[q] = "read" => morePages(q)'
    BY <1>2, <1>4, <1>6, <2>1 DEF ScanInv, Map, morePages
  <2> QED BY <1>2, <1>4, <2>2 DEF ScanInv, Map
<1>8. \A j \in PageIds : AheadInMap(j)' <=> AheadInMap(j)
  <2>1. ipc'[Cache] = ipc[Cache] BY <1>2, <1>3
  <2> QED BY <1>2, <2>1 DEF AheadInMap
<1>9. ASSUME NEW j \in PageIds
      PROVE  /\ AheadInFile(j)' => AheadInFile(j) /\ j # k
             /\ AheadInFile(j) => AheadInFile(j)' \/ j = k
             /\ j = k => AheadInFile(j)
  <2> DEFINE q == metaData.pageIndexes[j].partitionId
             s == metaData.pageIndexes[j].pageSeqInPartition
  <2>1. indexed(metaData)' = indexed(metaData) /\ metaData' = metaData /\ numPages' = numPages BY <1>2 DEF indexed
  <2>2. CASE j \notin indexed(metaData)
    <3>1. j # k BY <1>1, <1>3, <2>2, PageIdIndexed
    <3> QED BY <2>1, <2>2, <3>1 DEF AheadInFile
  <2>3. CASE j \in indexed(metaData)
    <3>1. q \in Partitions /\ s \in Nat BY <2>3 DEF FileInv, Good
    <3>2. j = k <=> (q = p /\ s = n)
      <4>1. ASSUME j = k PROVE q = p /\ s = n
        <5>1. getPageId(p, n) = j /\ getPageId(p, n) # NoId BY <1>1, <4>1
        <5>2. metaData.pageIndexes[j] = [partitionId |-> p, pageSeqInPartition |-> n] BY <1>3, <5>1, PageIdIndexed
        <5> QED BY <5>2
      <4>2. q = p /\ s = n => j = k BY <1>1, <1>3, <2>3, PageIdUnique DEF FileInv
      <4> QED BY <4>1, <4>2
    <3>3. /\ AheadInFile(j) <=> numIteratedPages[q] <= s /\ s < numPages[q]
          /\ AheadInFile(j)' <=> numIteratedPages'[q] <= s /\ s < numPages[q]
      BY <2>1, <2>3 DEF AheadInFile
    <3>4. numIteratedPages[q] \in Nat /\ numPages[q] \in Nat BY <1>3, <3>1
    <3>5. numIteratedPages'[q] = IF q = p THEN n + 1 ELSE numIteratedPages[q] BY <1>6, <3>1
    <3>6. q = p => numIteratedPages[q] = n BY <1>0
    <3> HIDE DEF q, s
    <3>7. CASE q = p
      <4>1. n + 1 <= s <=> n <= s /\ s # n BY <1>3, <3>1
      <4> QED BY <1>3, <1>5, <3>1, <3>2, <3>3, <3>5, <3>6, <3>7, <4>1
    <3>8. CASE q # p BY <3>2, <3>3, <3>5, <3>8
    <3> QED BY <3>7, <3>8
  <2> QED BY <2>2, <2>3
<1>10. /\ excused \subseteq excused' /\ twice \subseteq twice'
       /\ \A j \in PageIds : returned'[j] = returned[j] \/ j \in twice' \/ (j = k /\ give(k))
       /\ \A j \in PageIds : returned[j] > 0 => returned'[j] > 0
       /\ k \in PageIds => returned'[k] > 0 \/ k \in excused'
  <2>1. CASE partitionHit(p) BY <1>0, <1>1, <1>3, <2>1, GiveType DEF partitionHit
  <2>2. CASE partitionRead(p)
    <3>1. PICK got : giveLoaded(k, got) BY <1>0, <1>1, <2>2 DEF partitionRead
    <3> QED BY <1>3, <3>1, LoadType
  <2> QED BY <2>1, <2>2
<1>11. k \in PageIds \ twice' => (returned[k] = 0 => returned'[k] < 2)
  BY <1>3, <1>10, GiveType
<1>12. k \in PageIds => AheadInFile(k) /\ ~AheadInFile(k)' BY <1>9
<1>13. \A j \in PageIds : (AheadInMap(j)' => AheadInMap(j)) /\ (AheadInFile(j)' => AheadInFile(j)) BY <1>8, <1>9
<1>14. Once' BY <1>4, <1>10, <1>11, <1>12, <1>13, OnceKept DEF ScanInv
<1>15. \A j \in PageIds : AheadInMap(j) \/ AheadInFile(j) =>
          AheadInMap(j)' \/ AheadInFile(j)' \/ returned'[j] > 0 \/ j \in erased' \cup excused'
  BY <1>8, <1>9, <1>10
<1>16. Complete' BY <1>2, <1>4, <1>10, <1>15, CompleteKept DEF ScanInv
<1> QED BY <1>2, <1>7, <1>14, <1>16, Running

\* The iterator over a partition seeks the place of its next page.
LEMMA PartitionSeekScan ==
  ASSUME FileInv, ScanInv, Answered', NEW p \in Partitions, partitionSeek(p)
  PROVE  ScanInv'
<1> USE Constants
<1>1. /\ spc = "scan" /\ morePages(p) /\ ipc' = [ipc EXCEPT ![p] = "read"]
      /\ ipc \in [Partitions \cup {Cache} -> {"next", "read", "erase"}]
      /\ UNCHANGED <<metaData, dirty, isPinned, spc, pinLate, iter, todo, numPages, numIteratedPages, initial>>
      /\ UNCHANGED <<returned, excused, erased, twice>>
  BY DEF partitionSeek, threadAt, goto, seekPageDirect, setVars, FileInv, Types, ScanTypes
<1>2. HasIterators /\ HasIterators' /\ listed' = listed BY <1>1 DEF HasIterators, listed
<1>3. ipc'[Cache] = ipc[Cache] /\ \A q \in Partitions : q # p => ipc'[q] = ipc[q] BY <1>1
<1>4. Map' BY <1>1, <1>2, <1>3 DEF ScanInv, Map, morePages
<1>5. \A j \in PageIds : (AheadInMap(j)' <=> AheadInMap(j)) /\ (AheadInFile(j)' <=> AheadInFile(j))
  BY <1>1, <1>3 DEF AheadInMap, AheadInFile, indexed
<1>6. Once' BY <1>1, <1>2, <1>5 DEF ScanInv, Once
<1>7. Complete' BY <1>1, <1>2, <1>5 DEF ScanInv, Complete
<1> QED BY <1>1, <1>4, <1>6, <1>7, Running

\* Every step of a scan.
LEMMA ScanStep ==
  ASSUME FileInv, ScanInv, ErasesFlushed, scan
  PROVE  ScanInv'
<1>1. ScanFrame BY ScanLeaves DEF FileInv
<1>2. Answered' BY <1>1 DEF ScanFrame, ScanInv, Answered, indexed
<1>3. CASE endScan BY <1>2, <1>3, DroppedScan DEF endScan
<1> QED BY <1>2, <1>3, PrepareScan, IteratorScan, NextInCacheScan, NextFlushedScan, NextEraseScan, PartitionScan,
           PartitionSeekScan DEF scan

\* The invariant holds before the set is made.
LEMMA ScanInitial == Init => ScanInv
<1> SUFFICES ASSUME Init PROVE ScanInv OBVIOUS
<1> USE DEF Init, ScanInit
<1>1. ~HasIterators /\ ~Preparing BY DEF HasIterators, Preparing
<1>2. Before /\ Map /\ Pinned BY <1>1 DEF Before, Map, Pinned
<1>3. Once /\ Complete /\ Answered BY <1>1 DEF Once, Complete, Answered
<1> QED BY <1>2, <1>3 DEF ScanInv

\* Every step keeps what a scan needs.
LEMMA ScanInvKept == FileInv /\ FileInv' /\ KeptInv /\ ScanInv /\ [Next]_vars => ScanInv'
<1> SUFFICES ASSUME FileInv, FileInv', KeptInv, ScanInv, [Next]_vars PROVE ScanInv' OBVIOUS
<1>1. CASE UNCHANGED vars
  <2>1. UNCHANGED <<metaData, dirty, isPinned, scanVars, status, fpc, fpage, fret>>
    BY <1>1 DEF vars, fileVars, setVars, lifeVars, flushVars
  <2>2. Answered' BY <2>1 DEF ScanInv, Answered, indexed
  <2> QED BY <2>1, <2>2, SameAhead
<1>2. CASE createSet \/ createSize \/ createBody \/ clearSet \/ clearDone \/ (\E p \in Partitions : clearPartition(p))
           \/ restart \/ restartRefused \/ restartWithoutSet
  <2>1. UNCHANGED <<scanVars, flushVars>> /\ spc = "idle"
        /\ (status' = "up" => \A p \in Partitions : fpc[p] = "idle")
    BY <1>2 DEF createSet, createSize, createBody, clearSet, clearDone, clearPartition, restart, restartRefused,
                restartWithoutSet, Active, lifeVars, FileInv, Life
  <2>2. Answered' BY <2>1 DEF Answered, flushVars
  <2> QED BY <2>1, <2>2, IdleScan
<1>3. CASE addPage
  <2>1. UNCHANGED <<scanVars, flushVars, metaData, status>> /\ spc = "idle"
    BY <1>3 DEF addPage, Active, lifeVars, fileVars
  <2>2. Answered' BY <2>1 DEF ScanInv, Answered, flushVars, indexed
  <2> QED BY <2>1, <2>2, IdleScan
<1>4. CASE crash
  <2>1. dropScan /\ status' = "down" BY <1>4 DEF crash
  <2> QED BY <2>1, DroppedScan DEF Answered
<1>5. CASE \E p \in Partitions : flush(p) BY <1>5, FlushScan
<1>6. CASE scan BY <1>6, ScanStep DEF KeptInv
<1> QED BY <1>1, <1>2, <1>3, <1>4, <1>5, <1>6 DEF Next

\* What a scan needs holds in every behaviour.
THEOREM ScanInvariance == Spec => []ScanInv
  BY ScanInitial, ScanInvKept, KeptInvariance, FileInvariance, PTL DEF Spec

\* No flush thread erases an entry under a scan that pinned the set before it made its
\* iterators (dump, exportToFile, evictPages and the query server do).
THEOREM PinProtectsCorrect == Spec => []PinProtects
<1>1. ScanInv => PinProtects BY DEF ScanInv, Pinned, PinProtects
<1> QED BY <1>1, ScanInvariance, PTL

\* No page is returned twice by a scan, except those that the scan counts in twice.
THEOREM ScanOnceCorrect == Spec => []ScanOnce
<1>1. ScanInv => ScanOnce
  <2> SUFFICES ASSUME ScanInv PROVE ScanOnce OBVIOUS
  <2>1. CASE HasIterators BY <2>1 DEF ScanInv, Once, ScanOnce
  <2>2. CASE ~HasIterators
    <3>1. returned = noPages BY <2>2 DEF ScanInv, Before
    <3> QED BY <3>1 DEF ScanOnce, noPages
  <2> QED BY <2>1, <2>2
<1> QED BY <1>1, ScanInvariance, PTL

\* A scan that comes to its end has returned every page the set had when it began, except those
\* that were erased under it or have an excuse.
THEOREM ScanCompleteCorrect == Spec => ScanComplete
<1> DEFINE All == ScanEnds => \A k \in initial : returned[k] > 0 \/ k \in erased \cup excused
<1>1. ASSUME FileInv, ScanInv, Next PROVE All
  <2> SUFFICES ASSUME ScanEnds, NEW k \in initial PROVE returned[k] > 0 \/ k \in erased \cup excused
    OBVIOUS
  <2>1. spc = "scan" /\ spc' = "idle" /\ status' = "up" BY DEF ScanEnds
  <2>2. endScan
    <3>1. ASSUME NEW p \in Partitions, flush(p) PROVE spc' = spc
      BY <3>1 DEF flush, takePage, appendPage, flushSize, flushBody, removePageFromDirtyPageSet, scanVars
    <3>2. CASE scan
      <4>1. ASSUME NEW p \in Partitions, partitionHit(p) \/ partitionSeek(p) \/ partitionRead(p) PROVE spc' = spc
        BY <4>1 DEF partitionHit, partitionSeek, partitionRead
      <4>2. ASSUME nextInCache \/ nextFlushedHit \/ nextFlushedSeek \/ nextFlushedRead \/ nextErase \/ nextDangling
            PROVE  spc' = spc
        BY <4>2 DEF nextInCache, nextFlushedHit, nextFlushedSeek, nextFlushedRead, nextErase, nextDangling
      <4>3. ~((\E late \in PinLate : startScan(late)) \/ setPinned \/ cleanDirtyPageSet \/ getIterators)
        BY <2>1 DEF startScan, setPinned, cleanDirtyPageSet, getIterators
      <4> QED BY <2>1, <3>2, <4>1, <4>2, <4>3 DEF scan
    <3>3. ~crash BY <2>1 DEF crash
    <3>4. ASSUME Next, ~scan, ~crash, \A p \in Partitions : ~flush(p) PROVE spc' = spc
      BY <3>4 DEF Next, createSet, createSize, createBody, clearSet, clearDone, clearPartition, addPage, restart,
                  restartRefused, restartWithoutSet, scanVars
    <3> QED BY <1>1, <2>1, <3>1, <3>2, <3>3, <3>4
  <2>3. /\ HasIterators /\ iter = NoId /\ \A p \in Partitions : ~(numIteratedPages[p] < numPages[p])
    BY <2>2 DEF endScan, HasIterators, morePages
  <2>4. k \in PageIds /\ k # NoId BY <1>1, Constants DEF ScanInv
  <2>5. ~AheadInMap(k) BY <1>1, <2>3, <2>4 DEF ScanInv, Map, AheadInMap
  <2>6. ~AheadInFile(k)
    <3> SUFFICES ASSUME AheadInFile(k) PROVE FALSE OBVIOUS
    <3> DEFINE q == metaData.pageIndexes[k].partitionId
               s == metaData.pageIndexes[k].pageSeqInPartition
    <3>1. k \in indexed(metaData) /\ numIteratedPages[q] <= s /\ s < numPages[q] BY DEF AheadInFile
    <3>2. q \in Partitions /\ s \in Nat BY <1>1, <3>1 DEF FileInv, Good
    <3>3. numIteratedPages[q] \in Nat /\ numPages[q] \in Nat BY <1>1, <3>2 DEF FileInv, Types, ScanTypes
    <3>4. ~(numIteratedPages[q] < numPages[q]) BY <2>3, <3>2
    <3> HIDE DEF q, s
    <3> QED BY <3>1, <3>2, <3>3, <3>4
  <2> QED BY <1>1, <2>3, <2>5, <2>6 DEF ScanInv, Complete
<1>2. FileInv /\ ScanInv /\ [Next]_vars => [All]_vars BY <1>1
<1> QED BY <1>2, FileInvariance, ScanInvariance, PTL DEF Spec, ScanComplete

=============================================================================
