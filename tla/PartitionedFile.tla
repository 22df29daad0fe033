---------------------------- MODULE PartitionedFile ----------------------------
(***************************************************************************)
(* The file of a set (storage/source/PartitionedFile.cc and                *)
(* PartitionedFileMetaData.h): data partitions to which pages are appended, *)
(* a page index in memory, and a meta partition from which that index is   *)
(* built again after a restart.                                            *)
(*                                                                         *)
(* data, metaExists, metaSize, bodySize and meta are on disk; the others   *)
(* are lost in a crash.  The sizes are numbers of page index entries, plus *)
(* one for the fixed part.  A page is <<id, run>>: its id and the run of   *)
(* the server that made it, since ids can be given again after a crash.    *)
(* fileMutex is held across the steps of writeMeta and of clear; an append *)
(* is one critical section.  Lengths, paths and shared pages are left out. *)
(***************************************************************************)
EXTENDS Integers, Sequences, FiniteSets

CONSTANTS
  Partitions,    \* FilePartitionID
  PageIds,       \* PageID, a range that starts at 0
  MaxFailures    \* bound: writes that fail or are short

NoId == -1                                        \* (unsigned int)(-1)

ASSUME FileAssumption ==
  /\ IsFiniteSet(Partitions) /\ NoId \notin Partitions
  /\ PageIds \subseteq Nat
  /\ MaxFailures \in Nat

Torn == <<NoId, NoId>>                            \* what is left of a short write

VARIABLES
  data,          \* the data partitions
  metaExists, metaSize, bodySize,
  meta,          \* the meta partition after its size
  metaData,      \* PartitionedFileMetaData
  pos,           \* the offset of the handle of each partition, in pages
  cleared,
  fileMutex,     \* TRUE while writeMeta or clear holds it
  failures       \* write failures so far

disk == <<data, metaExists, metaSize, bodySize, meta>>
fileVars == <<disk, metaData, pos, cleared, fileMutex, failures>>

NoIndex == [partitionId |-> NoId, pageSeqInPartition |-> NoId]

emptyMetaData ==
  [ numFlushedPages |-> 0, latestPageId |-> NoId,
    numPages |-> [p \in Partitions |-> 0],
    pageIndexes |-> [k \in PageIds |-> NoIndex] ]

\* There is no such file yet.
FileInit ==
  /\ data = [p \in Partitions |-> <<>>]
  /\ metaExists = FALSE /\ metaSize = 0 /\ bodySize = 0 /\ meta = emptyMetaData
  /\ metaData = emptyMetaData
  /\ pos = [p \in Partitions |-> 0]
  /\ cleared = TRUE /\ fileMutex = FALSE
  /\ failures = 0

-----------------------------------------------------------------------------
(* The page index *)

\* unordered_map::insert leaves an entry that is there alone.
addPageIndex(index, k, p, seq) ==
  [index EXCEPT ![k] = IF @ = NoIndex
                         THEN [partitionId |-> p, pageSeqInPartition |-> seq] ELSE @]

indexed(m) == {k \in PageIds : m.pageIndexes[k] # NoIndex}

\* loadPageId
getPageId(p, seq) ==
  LET owners == {k \in PageIds :
        metaData.pageIndexes[k] = [partitionId |-> p, pageSeqInPartition |-> seq]}
  IN  IF owners = {} THEN NoId ELSE CHOOSE k \in owners : TRUE

\* Mutant: the id of the page appended last, whatever came before.
laterId_Last(k, latest) == k

laterId(k, latest) == IF k > latest \/ latest = NoId THEN k ELSE latest

-----------------------------------------------------------------------------
(* Appending a page: writeDataDirect, then the counters and the index. *)

appendOk(p, page) ==
  LET ret == metaData.numPages[p]
      k == page[1]
  IN  /\ ~fileMutex /\ ~cleared
      /\ data' = [data EXCEPT ![p] = Append(@, page)]
      /\ pos' = [pos EXCEPT ![p] = Len(data[p]) + 1]
      /\ metaData' = [numFlushedPages |-> metaData.numFlushedPages + 1,
                      latestPageId |-> laterId(k, metaData.latestPageId),
                      numPages |-> [metaData.numPages EXCEPT ![p] = ret + 1],
                      pageIndexes |-> addPageIndex(metaData.pageIndexes, k, p, ret)]
      /\ UNCHANGED <<metaExists, metaSize, bodySize, meta, cleared, fileMutex, failures>>

\* write() writes nothing, or a part of the page: -1 is returned either way.
appendFailed(p) ==
  /\ ~fileMutex /\ ~cleared
  /\ failures < MaxFailures /\ failures' = failures + 1
  /\ \/ UNCHANGED <<data, pos>>
     \/ /\ data' = [data EXCEPT ![p] = Append(@, Torn)]
        /\ pos' = [pos EXCEPT ![p] = Len(data[p]) + 1]
  /\ UNCHANGED <<metaExists, metaSize, bodySize, meta, metaData, cleared, fileMutex>>

\* The file has been cleared in the meantime.
appendCleared ==
  /\ ~fileMutex /\ cleared
  /\ UNCHANGED fileVars

-----------------------------------------------------------------------------
(* writeMeta: the size is written and flushed before the rest. *)

writeMetaSize ==
  /\ ~fileMutex /\ ~cleared
  /\ fileMutex' = TRUE
  /\ metaSize' = 1 + metaData.numFlushedPages
  /\ UNCHANGED <<data, metaExists, bodySize, meta, metaData, pos, cleared, failures>>

writeMetaBody ==
  /\ bodySize' = IF metaSize > bodySize THEN metaSize ELSE bodySize
  /\ meta' = metaData
  /\ fileMutex' = FALSE
  /\ UNCHANGED <<data, metaExists, metaSize, metaData, pos, cleared, failures>>

\* writeMeta on a cleared file returns -1.
writeMetaCleared ==
  /\ ~fileMutex /\ cleared
  /\ UNCHANGED fileVars

-----------------------------------------------------------------------------
(* Loading a page: a seek and a read on a handle that all threads share. *)

\* The pages behind a short write are not where the index says.
pageAt(p, i) ==
  IF i + 1 > Len(data[p]) \/ \E j \in 1 .. (i + 1) : data[p][j] = Torn
    THEN Torn ELSE data[p][i + 1]

seekPageDirect(p, seq) ==
  /\ seq < metaData.numPages[p]
  /\ pos' = [pos EXCEPT ![p] = seq]
  /\ UNCHANGED <<disk, metaData, cleared, fileMutex, failures>>

\* read() moves the offset unless it is at the end of the file.
readPage(p) ==
  /\ pos' = [pos EXCEPT ![p] = IF @ < Len(data[p]) THEN @ + 1 ELSE @]
  /\ UNCHANGED <<disk, metaData, cleared, fileMutex, failures>>

-----------------------------------------------------------------------------
(* The life of a file *)

\* O_APPEND | O_CREAT, or "a+" after a restart.
openData == UNCHANGED data

\* The constructor for a new file: an empty meta partition, then writeMeta.
newFile ==
  /\ metaExists' = TRUE /\ metaSize' = 0 /\ bodySize' = 0
  /\ metaData' = emptyMetaData
  /\ pos' = [p \in Partitions |-> 0]
  /\ openData
  /\ cleared' = FALSE
  /\ UNCHANGED <<meta, fileMutex, failures>>

metaComplete == metaSize # 0 /\ bodySize >= metaSize

\* Mutant: the page index is not built again.
rebuilt_NoIndex == [meta EXCEPT !.pageIndexes = emptyMetaData.pageIndexes]

rebuilt == meta

\* buildMetaDataFromMetaPartition and openData
openFile ==
  /\ metaData' = rebuilt
  /\ pos' = [p \in Partitions |-> 0]
  /\ openData
  /\ cleared' = FALSE
  /\ UNCHANGED <<metaExists, metaSize, bodySize, meta, fileMutex, failures>>

\* clear(): the meta partition is removed first,
clearMeta ==
  /\ ~fileMutex /\ ~cleared
  /\ fileMutex' = TRUE
  /\ metaExists' = FALSE /\ metaSize' = 0 /\ bodySize' = 0 /\ meta' = emptyMetaData
  /\ UNCHANGED <<data, metaData, pos, cleared, failures>>

\* and then the data partitions.
clearData(p) ==
  /\ data' = [data EXCEPT ![p] = <<>>]
  /\ UNCHANGED <<metaExists, metaSize, bodySize, meta, metaData, pos, cleared, fileMutex, failures>>

clearEnd ==
  /\ cleared' = TRUE
  /\ fileMutex' = FALSE
  /\ UNCHANGED <<disk, metaData, pos, failures>>

\* The server stops; its handles and locks are gone.
fileCrash ==
  /\ metaData' = emptyMetaData
  /\ pos' = [p \in Partitions |-> 0]
  /\ cleared' = TRUE /\ fileMutex' = FALSE
  /\ UNCHANGED <<disk, failures>>

=============================================================================
