------------------------------- MODULE PageCache -------------------------------
(***************************************************************************)
(* The page cache of a storage node (storage/source/PageCache.cc), the     *)
(* threads that flush its dirty pages (PDBFlushConsumerWork.cc), and the   *)
(* requests that create, pin and unpin pages (UserSet, SetCachePageIterator*)
(* and the handlers of PangeaStorageServer).                               *)
(*                                                                         *)
(* A page has an id that it keeps for ever; each time it is brought into   *)
(* memory there is a new PDBPage object for it.  An object is <<k, n>>:    *)
(* <<k, 0>> is the page as it was created, <<k, n>> its n-th load from the *)
(* file.  A stale pointer to an old object of a page is thus told apart    *)
(* from the object the cache holds now.                                    *)
(*                                                                         *)
(* Two locks order the threads.  evictionMutex is a mutex.                 *)
(* evictionAndFlushLock is a read-write lock: evictionLock() takes it for  *)
(* writing, flushLock() for reading.  A critical section under the write   *)
(* lock is one step, enabled when no thread reads; a thread waiting for it *)
(* may already hold evictionMutex, so that is a step of its own.           *)
(* The replacement order (accessSequenceId) is left open: any page of the  *)
(* eviction queue may come first.                                          *)
(***************************************************************************)
EXTENDS Naturals, Sequences, FiniteSets

CONSTANTS
  Pages,       \* page ids of one set
  Clients,     \* threads of the storage server that serve page requests
  Consumers,   \* PDBFlushConsumerWork threads, one per file partition
  Frames,      \* how many pages the shared memory pool can hold
  EvictStop,   \* evictStopSize, in pages
  FlushCap,    \* capacity of the flush buffer
  MaxLoads,    \* bound: how often a page is loaded from its file
  Releases,    \* the ways in which clients give a page up, see Release
  OneLoader,   \* the assumption PageCache::getPage states about its callers
  nullptr

ReleaseKinds == {"unpin", "decRef", "flush", "export"}

ASSUME CacheAssumption ==
  /\ Frames \in Nat \ {0}
  /\ EvictStop \in 0 .. Frames - 1
  /\ FlushCap \in Nat \ {0}
  /\ MaxLoads \in Nat
  /\ Releases \subseteq ReleaseKinds
  /\ OneLoader \in BOOLEAN
  /\ nullptr \notin Clients \cup Pages \cup ReleaseKinds
  /\ nullptr \notin Pages \X Nat
  /\ IsFiniteSet(Clients)

Objs == Pages \X (0 .. MaxLoads)

VARIABLES
  \* PDBPage
  refCount, dirty, inFlush, inEviction,
  rawBytes,        \* the object has a frame of the shared memory pool
  \* PageCache
  cache,           \* page id -> object, or nullptr
  evictionMutex,   \* the client that holds it, or nullptr
  evicting,        \* PageCache::inEviction
  evictable,       \* the queue of evict(), local to the holder of the mutex
  \* the set: dirtyPagesInPageCache (entries with inCache = true) and the file
  dirtySet,
  appended,        \* how often each page was appended to the file
  flushBuffer,
  born,            \* objects made so far for each page
  \* threads
  pc, key, ref,    \* where a client is, the page and the object it works on
  victim,          \* the object evictPage works on
  how,             \* the way in which the client gives its page up
  qpc, cur         \* where a flush thread is, and the page it popped

pageVars == <<refCount, dirty, inFlush, inEviction, rawBytes>>
cacheVars == <<cache, evictionMutex, evicting, evictable>>
setVars == <<dirtySet, appended, born>>
clientVars == <<pc, key, ref, victim, how>>
consumerVars == <<qpc, cur>>
vars == <<pageVars, cacheVars, setVars, flushBuffer, clientVars, consumerVars>>

Init ==
  /\ refCount = [o \in Objs |-> 0]
  /\ dirty = [o \in Objs |-> FALSE]
  /\ inFlush = [o \in Objs |-> FALSE]
  /\ inEviction = [o \in Objs |-> FALSE]
  /\ rawBytes = [o \in Objs |-> FALSE]
  /\ cache = [k \in Pages |-> nullptr]
  /\ evictionMutex = nullptr /\ evicting = FALSE /\ evictable = {}
  /\ dirtySet = {} /\ appended = [k \in Pages |-> 0]
  /\ flushBuffer = <<>>
  /\ born = [k \in Pages |-> 0]
  /\ pc = [c \in Clients |-> "idle"]
  /\ key = [c \in Clients |-> nullptr]
  /\ ref = [c \in Clients |-> nullptr]
  /\ victim = [c \in Clients |-> nullptr]
  /\ how = [c \in Clients |-> nullptr]
  /\ qpc = [q \in Consumers |-> "pop"]
  /\ cur = [q \in Consumers |-> nullptr]

\* The threads inside flushLock() ... flushUnlock().
Readers == {q \in Consumers :
              qpc[q] \in {"unlist", "free", "remove", "clearFlush", "clearDirty"}}

Cached == {k \in Pages : cache[k] # nullptr}
size == Cardinality(Cached)
Used == Cardinality({o \in Objs : rawBytes[o]})

\* Where a client is inside evictPage, after it has seen a reference count of 0.
EvictPage == {"classify", "mark", "enqueue", "reclassify", "evictFree"}

goto(c, to) == pc' = [pc EXCEPT ![c] = to]

-----------------------------------------------------------------------------
(* Locks *)

\* What a client does once it has evictionMutex.
Locked == [pin |-> "lookup", insert |-> "cache", unpin |-> "dec", evict |-> "scan"]

\* pthread_mutex_lock(&evictionMutex).  evict() sets inEviction right after it.
evictionMutexLock(c) ==
  /\ pc[c] \in DOMAIN Locked
  /\ evictionMutex = nullptr
  /\ evictionMutex' = c
  /\ evicting' = (evicting \/ pc[c] = "evict")
  /\ goto(c, Locked[pc[c]])
  /\ UNCHANGED <<pageVars, cache, evictable, setVars, flushBuffer, key, ref, victim, how, consumerVars>>

\* Mutant: the write lock is not taken.
UnderBothLocks_MutexOnly(c) == evictionMutex = c

\* The locks taken by a step that runs under evictionMutex and the write lock.
UnderBothLocks(c) == evictionMutex = c /\ Readers = {}

-----------------------------------------------------------------------------
(* Requests for pages *)

\* The clients that asked for page k and have no object for it yet.
Asking(k) == {c \in Clients :
                /\ key[c] = k
                /\ \/ pc[c] \in {"pin", "lookup", "alloc", "evict", "scan", "evictLoop"}
                   \/ pc[c] \in EvictPage /\ how[c] = nullptr}

\* UserSet::addPage draws a fresh page id; getNewPage finds it is not cached.
getNewPage(c, k) ==
  /\ pc[c] = "idle" /\ born[k] = 0 /\ Asking(k) = {}
  /\ evictionMutex = nullptr
  /\ goto(c, "alloc")
  /\ key' = [key EXCEPT ![c] = k]
  /\ UNCHANGED <<pageVars, cacheVars, setVars, flushBuffer, ref, victim, how, consumerVars>>

\* Bound: a page is asked for only while the model has objects left for it.
LoadsLeft(k) == born[k] + Cardinality(Asking(k)) <= MaxLoads

\* getPage(file, ..., pageId): the caller found the page in the file's metadata.
getPage(c, k) ==
  /\ pc[c] = "idle" /\ appended[k] > 0 /\ LoadsLeft(k)
  /\ OneLoader => \A d \in Clients : key[d] = k => pc[d] # "insertLoaded" /\ d \notin Asking(k)
  /\ goto(c, "pin")
  /\ key' = [key EXCEPT ![c] = k]
  /\ UNCHANGED <<pageVars, cacheVars, setVars, flushBuffer, ref, victim, how, consumerVars>>

pinObject(c, o) ==
  /\ refCount' = [refCount EXCEPT ![o] = @ + 1]
  /\ ref' = [ref EXCEPT ![c] = o]

getPageHit(c) ==
  /\ pc[c] = "lookup" /\ UnderBothLocks(c)
  /\ cache[key[c]] # nullptr
  /\ pinObject(c, cache[key[c]])
  /\ evictionMutex' = nullptr
  /\ goto(c, "hold")
  /\ UNCHANGED <<dirty, inFlush, inEviction, rawBytes, cache, evicting, evictable,
                 setVars, flushBuffer, key, victim, how, consumerVars>>

getPageMiss(c) ==
  /\ pc[c] = "lookup" /\ UnderBothLocks(c)
  /\ cache[key[c]] = nullptr
  /\ evictionMutex' = nullptr
  /\ goto(c, "alloc")
  /\ UNCHANGED <<pageVars, cache, evicting, evictable, setVars, flushBuffer,
                 key, ref, victim, how, consumerVars>>

\* SetCachePageIterator::next on an entry that is still in the cache: the write
\* lock alone, without evictionMutex.
iteratorNext(c, k) ==
  /\ pc[c] = "idle" /\ k \in dirtySet /\ Readers = {}
  /\ cache[k] # nullptr
  /\ pinObject(c, cache[k])
  /\ key' = [key EXCEPT ![c] = k]
  /\ goto(c, "hold")
  /\ UNCHANGED <<dirty, inFlush, inEviction, rawBytes, cacheVars, setVars, flushBuffer,
                 victim, how, consumerVars>>

-----------------------------------------------------------------------------
(* allocateBufferFromSharedMemoryBlocking and what follows it *)

\* The pool has room: a new object, which is not in the cache yet.
allocate(c) ==
  LET o == <<key[c], born[key[c]]>> IN
  /\ pc[c] = "alloc" /\ Used < Frames /\ born[key[c]] <= MaxLoads
  /\ rawBytes' = [rawBytes EXCEPT ![o] = TRUE]
  /\ born' = [born EXCEPT ![key[c]] = @ + 1]
  /\ ref' = [ref EXCEPT ![c] = o]
  /\ dirty' = [dirty EXCEPT ![o] = (o[2] = 0)]
  /\ goto(c, IF o[2] = 0 THEN "insert" ELSE "insertLoaded")
  /\ UNCHANGED <<refCount, inFlush, inEviction, cacheVars, dirtySet, appended, flushBuffer,
                 key, victim, how, consumerVars>>

\* The pool is full: evict, unless another thread is at it (then retry).
allocateFails(c) ==
  /\ pc[c] = "alloc" /\ Used >= Frames /\ ~evicting
  /\ goto(c, "evict")
  /\ UNCHANGED <<pageVars, cacheVars, setVars, flushBuffer, key, ref, victim, how, consumerVars>>

\* ... the thread yields and tries again.
allocateRetry(c) ==
  /\ pc[c] = "alloc" /\ Used >= Frames /\ evicting
  /\ UNCHANGED vars

\* cachePage: a page id that is there already keeps its object.
cachePage(o) == cache' = IF cache[o[1]] = nullptr THEN [cache EXCEPT ![o[1]] = o] ELSE cache

insertNewPage(c) ==
  /\ pc[c] = "cache" /\ UnderBothLocks(c)
  /\ cachePage(ref[c])
  /\ refCount' = [refCount EXCEPT ![ref[c]] = @ + 1]
  /\ evictionMutex' = nullptr
  /\ goto(c, "addDirty")
  /\ UNCHANGED <<dirty, inFlush, inEviction, rawBytes, evicting, evictable, setVars,
                 flushBuffer, key, ref, victim, how, consumerVars>>

\* getPage takes evictionMutex alone to cache the page it has loaded.
insertLoadedPage(c) ==
  /\ pc[c] = "insertLoaded" /\ evictionMutex = nullptr
  /\ cachePage(ref[c])
  /\ refCount' = [refCount EXCEPT ![ref[c]] = @ + 1]
  /\ goto(c, "hold")
  /\ UNCHANGED <<dirty, inFlush, inEviction, rawBytes, evictionMutex, evicting, evictable,
                 setVars, flushBuffer, key, ref, victim, how, consumerVars>>

addPageToDirtyPageSet(c) ==
  /\ pc[c] = "addDirty"
  /\ dirtySet' = dirtySet \cup {key[c]}
  /\ goto(c, "holdNew")
  /\ UNCHANGED <<pageVars, cacheVars, appended, born, flushBuffer, key, ref, victim, how, consumerVars>>

-----------------------------------------------------------------------------
(* evict(), the branch of the default strategy *)

\* Under the write lock: the pages nobody pins that are clean or not being flushed.
EvictableAtScan(o) == refCount[o] = 0 /\ (~dirty[o] \/ ~inFlush[o])

evictScan(c) ==
  /\ pc[c] = "scan" /\ UnderBothLocks(c)
  /\ evictable' = {o \in Objs : cache[o[1]] = o /\ EvictableAtScan(o)}
  /\ goto(c, "evictLoop")
  /\ UNCHANGED <<pageVars, cache, evictionMutex, evicting, setVars, flushBuffer,
                 key, ref, victim, how, consumerVars>>

evictMore == size > EvictStop /\ evictable # {}

\* evictPage(key): the page is looked up again and its reference count tested.
CanEvict(o) == cache[o[1]] # nullptr /\ refCount[cache[o[1]]] = 0

evictNext(c, o) ==
  /\ pc[c] = "evictLoop" /\ evictMore /\ o \in evictable
  /\ evictable' = evictable \ {o}
  /\ IF CanEvict(o)
       THEN victim' = [victim EXCEPT ![c] = cache[o[1]]] /\ goto(c, "classify")
       ELSE UNCHANGED <<victim, pc>>
  /\ UNCHANGED <<pageVars, cache, evictionMutex, evicting, setVars, flushBuffer,
                 key, ref, how, consumerVars>>

\* Mutant: evict() returns without resetting inEviction, as on an early return.
evictEnd_StaysInEviction(c) ==
  /\ pc[c] = "evictLoop" /\ ~evictMore
  /\ evictable' = {} /\ evictionMutex' = nullptr
  /\ goto(c, "alloc")
  /\ UNCHANGED <<pageVars, cache, evicting, setVars, flushBuffer, key, ref, victim, how,
                 consumerVars>>

evictEnd(c) ==
  /\ pc[c] = "evictLoop" /\ ~evictMore
  /\ evictable' = {} /\ evicting' = FALSE /\ evictionMutex' = nullptr
  /\ goto(c, "alloc")
  /\ UNCHANGED <<pageVars, cache, setVars, flushBuffer, key, ref, victim, how, consumerVars>>

-----------------------------------------------------------------------------
(* The rest of evictPage, which no lock protects until a clean page is freed *)

\* evictPage returns to the loop of evict(), or to the handler that called it.
evictPageReturn(c) ==
  /\ victim' = [victim EXCEPT ![c] = nullptr]
  /\ goto(c, IF how[c] = nullptr THEN "evictLoop" ELSE "idle")
  /\ how' = [how EXCEPT ![c] = nullptr]
  /\ ref' = IF how[c] = nullptr THEN ref ELSE [ref EXCEPT ![c] = nullptr]

\* Mutant: a dirty page is evicted like a clean one.
evictClassify_AsClean(c) ==
  /\ pc[c] = "classify"
  /\ goto(c, "reclassify")
  /\ UNCHANGED <<pageVars, cacheVars, setVars, flushBuffer, key, ref, victim, how, consumerVars>>

evictClassify(c) ==
  /\ pc[c] = "classify"
  /\ goto(c, IF dirty[victim[c]] /\ ~inFlush[victim[c]] THEN "mark" ELSE "reclassify")
  /\ UNCHANGED <<pageVars, cacheVars, setVars, flushBuffer, key, ref, victim, how, consumerVars>>

evictMark(c) ==
  /\ pc[c] = "mark"
  /\ inFlush' = [inFlush EXCEPT ![victim[c]] = TRUE]
  /\ inEviction' = [inEviction EXCEPT ![victim[c]] = TRUE]
  /\ goto(c, "enqueue")
  /\ UNCHANGED <<refCount, dirty, rawBytes, cacheVars, setVars, flushBuffer,
                 key, ref, victim, how, consumerVars>>

\* flushBuffer->addPageToTail, which blocks while the buffer is full.
evictEnqueue(c) ==
  /\ pc[c] = "enqueue" /\ Len(flushBuffer) < FlushCap
  /\ flushBuffer' = Append(flushBuffer, victim[c])
  /\ evictPageReturn(c)
  /\ UNCHANGED <<pageVars, cacheVars, setVars, key, consumerVars>>

\* Mutant: a page that is in flush is freed at once.
evictReclassify_FreesInFlush(c) ==
  /\ pc[c] = "reclassify"
  /\ goto(c, "evictFree")
  /\ UNCHANGED <<pageVars, cacheVars, setVars, flushBuffer, key, ref, victim, how, consumerVars>>

\* The second test of isInFlush(): a page in flush is only marked for eviction.
evictReclassify(c) ==
  /\ pc[c] = "reclassify"
  /\ IF inFlush[victim[c]]
       THEN /\ inEviction' = [inEviction EXCEPT ![victim[c]] = TRUE]
            /\ evictPageReturn(c)
       ELSE /\ goto(c, "evictFree")
            /\ UNCHANGED <<inEviction, ref, victim, how>>
  /\ UNCHANGED <<refCount, dirty, inFlush, rawBytes, cacheVars, setVars, flushBuffer,
                 key, consumerVars>>

\* flushLock(); shm->free; setRawBytes(nullptr); removePage(key); flushUnlock().
evictFree(c) ==
  /\ pc[c] = "evictFree"
  /\ rawBytes' = [rawBytes EXCEPT ![victim[c]] = FALSE]
  /\ cache' = [cache EXCEPT ![victim[c][1]] = nullptr]
  /\ evictPageReturn(c)
  /\ UNCHANGED <<refCount, dirty, inFlush, inEviction, evictionMutex, evicting, evictable,
                 setVars, flushBuffer, key, consumerVars>>

-----------------------------------------------------------------------------
(* Giving a page up *)

\* "unpin": the StorageUnpinPage handler, under both locks.
\* "decRef": decPageRefCount with no lock (writeBackRecords, StorageAddData, getNewBytes).
\* "flush": the same, then flushPageWithoutEviction (CacheThrough sets, isFlushing()).
\* "export": the same, then evictPage without evictionMutex (exportToFile).
\* A page is flushed by the client that created it, exported by one that reads it.
release(c, h) ==
  /\ h \in Releases
  /\ \/ pc[c] = "hold" /\ h # "flush"
     \/ pc[c] = "holdNew" /\ h # "export"
  /\ how' = [how EXCEPT ![c] = h]
  /\ goto(c, IF h = "unpin" THEN "unpin" ELSE "decRef")
  /\ UNCHANGED <<pageVars, cacheVars, setVars, flushBuffer, key, ref, victim, consumerVars>>

\* Mutant: the count is reset instead of decremented.
decPageRefCount_Reset(k) ==
  refCount' = IF cache[k] = nullptr THEN refCount ELSE [refCount EXCEPT ![cache[k]] = 0]

\* decPageRefCount(key): it is the object now in the cache whose count goes down,
\* never below 0.
decPageRefCount(k) ==
  refCount' = IF cache[k] = nullptr THEN refCount
              ELSE [refCount EXCEPT ![cache[k]] = IF @ = 0 THEN 0 ELSE @ - 1]

done(c) ==
  /\ ref' = [ref EXCEPT ![c] = nullptr]
  /\ how' = [how EXCEPT ![c] = nullptr]
  /\ goto(c, "idle")

unpinPage(c) ==
  /\ pc[c] = "dec" /\ UnderBothLocks(c)
  /\ decPageRefCount(key[c])
  /\ evictionMutex' = nullptr
  /\ done(c)
  /\ UNCHANGED <<dirty, inFlush, inEviction, rawBytes, cache, evicting, evictable, setVars,
                 flushBuffer, key, victim, consumerVars>>

unlockedUnpin(c) ==
  /\ pc[c] = "decRef"
  /\ decPageRefCount(key[c])
  /\ \/ how[c] = "decRef" /\ done(c)
     \/ how[c] = "flush" /\ goto(c, "flushTest") /\ UNCHANGED <<ref, how>>
     \/ how[c] = "export" /\ goto(c, "exportEvict") /\ UNCHANGED <<ref, how>>
  /\ UNCHANGED <<dirty, inFlush, inEviction, rawBytes, cacheVars, setVars, flushBuffer,
                 key, victim, consumerVars>>

\* evictPage(key) of the export loop.
exportEvict(c) ==
  /\ pc[c] = "exportEvict"
  /\ IF cache[key[c]] # nullptr /\ refCount[cache[key[c]]] = 0
       THEN /\ victim' = [victim EXCEPT ![c] = cache[key[c]]]
            /\ goto(c, "classify")
            /\ UNCHANGED <<ref, how>>
       ELSE done(c) /\ UNCHANGED victim
  /\ UNCHANGED <<pageVars, cacheVars, setVars, flushBuffer, key, consumerVars>>

\* Mutant: a page counts as clean as soon as it is chosen for flushing.
flushTest_ClearsDirty(c) ==
  LET o == cache[key[c]] IN
  /\ pc[c] = "flushTest"
  /\ IF o # nullptr /\ dirty[o] /\ ~inFlush[o]
       THEN /\ victim' = [victim EXCEPT ![c] = o]
            /\ dirty' = [dirty EXCEPT ![o] = FALSE]
            /\ goto(c, "flushMark")
            /\ UNCHANGED <<ref, how>>
       ELSE done(c) /\ UNCHANGED <<victim, dirty>>
  /\ UNCHANGED <<refCount, inFlush, inEviction, rawBytes, cacheVars, setVars, flushBuffer,
                 key, consumerVars>>

\* flushPageWithoutEviction(key): the test, the two flags, the buffer.
flushTest(c) ==
  LET o == cache[key[c]] IN
  /\ pc[c] = "flushTest"
  /\ IF o # nullptr /\ dirty[o] /\ ~inFlush[o]
       THEN /\ victim' = [victim EXCEPT ![c] = o]
            /\ goto(c, "flushMark")
            /\ UNCHANGED <<ref, how>>
       ELSE done(c) /\ UNCHANGED victim
  /\ UNCHANGED <<pageVars, cacheVars, setVars, flushBuffer, key, consumerVars>>

flushMark(c) ==
  /\ pc[c] = "flushMark"
  /\ inFlush' = [inFlush EXCEPT ![victim[c]] = TRUE]
  /\ inEviction' = [inEviction EXCEPT ![victim[c]] = FALSE]
  /\ goto(c, "flushEnqueue")
  /\ UNCHANGED <<refCount, dirty, rawBytes, cacheVars, setVars, flushBuffer,
                 key, ref, victim, how, consumerVars>>

flushEnqueue(c) ==
  /\ pc[c] = "flushEnqueue" /\ Len(flushBuffer) < FlushCap
  /\ flushBuffer' = Append(flushBuffer, victim[c])
  /\ victim' = [victim EXCEPT ![c] = nullptr]
  /\ done(c)
  /\ UNCHANGED <<pageVars, cacheVars, setVars, key, consumerVars>>

-----------------------------------------------------------------------------
(* PDBFlushConsumerWork::execute *)

popPageFromHead(q) ==
  /\ qpc[q] = "pop" /\ flushBuffer # <<>>
  /\ cur' = [cur EXCEPT ![q] = Head(flushBuffer)]
  /\ flushBuffer' = Tail(flushBuffer)
  /\ qpc' = [qpc EXCEPT ![q] = "append"]
  /\ UNCHANGED <<pageVars, cacheVars, setVars, clientVars>>

\* flushLock(), then the page is appended if it still has its bytes.
appendPage(q) ==
  LET o == cur[q] IN
  /\ qpc[q] = "append"
  /\ IF rawBytes[o]
       THEN /\ appended' = [appended EXCEPT ![o[1]] = @ + 1]
            /\ qpc' = [qpc EXCEPT ![q] = "unlist"]
       ELSE /\ qpc' = [qpc EXCEPT ![q] = "free"]
            /\ UNCHANGED appended
  /\ UNCHANGED <<pageVars, cacheVars, dirtySet, born, flushBuffer, clientVars, cur>>

\* writeMeta and removePageFromDirtyPageSet, under the set's own lock.
removePageFromDirtyPageSet(q) ==
  /\ qpc[q] = "unlist"
  /\ dirtySet' = dirtySet \ {cur[q][1]}
  /\ qpc' = [qpc EXCEPT ![q] = "free"]
  /\ UNCHANGED <<pageVars, cacheVars, appended, born, flushBuffer, clientVars, cur>>

Droppable(o) == refCount[o] = 0 /\ inEviction[o]

\* Mutant: the page leaves the cache and keeps its frame.
freePage_NotFreed(q) ==
  /\ qpc[q] = "free"
  /\ qpc' = [qpc EXCEPT ![q] = "remove"]
  /\ UNCHANGED <<pageVars, cacheVars, setVars, flushBuffer, clientVars, cur>>

freePage(q) ==
  /\ qpc[q] = "free"
  /\ rawBytes' = [rawBytes EXCEPT ![cur[q]] = @ /\ ~Droppable(cur[q])]
  /\ qpc' = [qpc EXCEPT ![q] = "remove"]
  /\ UNCHANGED <<refCount, dirty, inFlush, inEviction, cacheVars, setVars, flushBuffer,
                 clientVars, cur>>

\* The same test again; removePage takes the page id, not the object.
removePage(q) ==
  /\ qpc[q] = "remove"
  /\ cache' = IF Droppable(cur[q]) THEN [cache EXCEPT ![cur[q][1]] = nullptr] ELSE cache
  /\ qpc' = [qpc EXCEPT ![q] = "clearFlush"]
  /\ UNCHANGED <<pageVars, evictionMutex, evicting, evictable, setVars, flushBuffer,
                 clientVars, cur>>

clearInFlush(q) ==
  /\ qpc[q] = "clearFlush"
  /\ inFlush' = [inFlush EXCEPT ![cur[q]] = FALSE]
  /\ qpc' = [qpc EXCEPT ![q] = "clearDirty"]
  /\ UNCHANGED <<refCount, dirty, inEviction, rawBytes, cacheVars, setVars, flushBuffer,
                 clientVars, cur>>

\* Mutant: a flushed page stays dirty.
clearDirty_StaysDirty(q) ==
  /\ qpc[q] = "clearDirty"
  /\ cur' = [cur EXCEPT ![q] = nullptr]
  /\ qpc' = [qpc EXCEPT ![q] = "pop"]
  /\ UNCHANGED <<pageVars, cacheVars, setVars, flushBuffer, clientVars>>

\* setDirty(false), then flushUnlock().
clearDirty(q) ==
  /\ qpc[q] = "clearDirty"
  /\ dirty' = [dirty EXCEPT ![cur[q]] = FALSE]
  /\ cur' = [cur EXCEPT ![q] = nullptr]
  /\ qpc' = [qpc EXCEPT ![q] = "pop"]
  /\ UNCHANGED <<refCount, inFlush, inEviction, rawBytes, cacheVars, setVars, flushBuffer,
                 clientVars>>

-----------------------------------------------------------------------------
\* No request is being served and there is nothing to flush.
Quiescent ==
  /\ \A c \in Clients : pc[c] = "idle"
  /\ \A q \in Consumers : qpc[q] = "pop"
  /\ flushBuffer = <<>>

NewRequest(c) == \E k \in Pages : getNewPage(c, k) \/ getPage(c, k) \/ iteratorNext(c, k)

UsePage(c) == \E h \in ReleaseKinds : release(c, h)

WriteLocked(c) == getPageHit(c) \/ getPageMiss(c) \/ insertNewPage(c) \/ unpinPage(c) \/ evictScan(c)

Unlocked(c) ==
  \/ allocate(c) \/ allocateFails(c) \/ allocateRetry(c) \/ addPageToDirtyPageSet(c)
  \/ (\E o \in Objs : evictNext(c, o)) \/ evictEnd(c)
  \/ evictClassify(c) \/ evictMark(c) \/ evictEnqueue(c) \/ evictReclassify(c) \/ evictFree(c)
  \/ unlockedUnpin(c) \/ exportEvict(c)
  \/ flushTest(c) \/ flushMark(c) \/ flushEnqueue(c)

Flush(q) ==
  \/ popPageFromHead(q) \/ appendPage(q) \/ removePageFromDirtyPageSet(q) \/ freePage(q)
  \/ removePage(q) \/ clearInFlush(q) \/ clearDirty(q)

Next ==
  \/ \E c \in Clients : \/ NewRequest(c) \/ UsePage(c)
                        \/ evictionMutexLock(c) \/ insertLoadedPage(c)
                        \/ WriteLocked(c) \/ Unlocked(c)
  \/ \E q \in Consumers : Flush(q)
  \/ Quiescent /\ UNCHANGED vars

Spec == Init /\ [][Next]_vars

\* Every thread runs on.  Locks are granted to a thread that keeps asking for
\* them (strong fairness).  Requests stop coming at some point: a thread that
\* allocates in a loop competes with every later request for the same frames.
Fairness ==
  /\ \A c \in Clients : /\ WF_vars(UsePage(c)) /\ WF_vars(Unlocked(c))
                        /\ SF_vars(evictionMutexLock(c)) /\ SF_vars(insertLoadedPage(c))
                        /\ SF_vars(WriteLocked(c))
  /\ \A q \in Consumers : WF_vars(Flush(q))
  /\ <>[][\A c \in Clients : ~NewRequest(c)]_vars

FairSpec == Spec /\ Fairness

-----------------------------------------------------------------------------
(* Properties *)

ClientStates ==
  {"idle", "pin", "lookup", "alloc", "insert", "cache", "insertLoaded", "addDirty", "holdNew", "hold",
   "unpin", "dec", "decRef", "exportEvict", "flushTest", "flushMark", "flushEnqueue",
   "evict", "scan", "evictLoop"} \cup EvictPage

ConsumerStates ==
  {"pop", "append", "unlist", "free", "remove", "clearFlush", "clearDirty"}

\* Every variable has its type; the flush buffer never exceeds its capacity.
TypeOK ==
  /\ refCount \in [Objs -> Nat]
  /\ dirty \in [Objs -> BOOLEAN] /\ inFlush \in [Objs -> BOOLEAN]
  /\ inEviction \in [Objs -> BOOLEAN] /\ rawBytes \in [Objs -> BOOLEAN]
  /\ cache \in [Pages -> Objs \cup {nullptr}]
  /\ evictionMutex \in Clients \cup {nullptr} /\ evicting \in BOOLEAN
  /\ evictable \subseteq Objs
  /\ dirtySet \subseteq Pages /\ appended \in [Pages -> Nat]
  /\ flushBuffer \in Seq(Objs) /\ Len(flushBuffer) <= FlushCap
  /\ born \in [Pages -> Nat]
  /\ pc \in [Clients -> ClientStates]
  /\ key \in [Clients -> Pages \cup {nullptr}]
  /\ ref \in [Clients -> Objs \cup {nullptr}]
  /\ victim \in [Clients -> Objs \cup {nullptr}]
  /\ how \in [Clients -> ReleaseKinds \cup {nullptr}]
  /\ qpc \in [Consumers -> ConsumerStates]
  /\ cur \in [Consumers -> Objs \cup {nullptr}]

\* The client has a reference to its object that it has not given up yet.
Holding(c) == pc[c] \in {"addDirty", "holdNew", "hold", "unpin", "dec", "decRef"}

\* A client that has pinned a page can go on reading and writing it: neither
\* evict() nor a flush thread frees its frame or drops it from the cache, in
\* whatever order they run (PageCache::evictPage, PDBFlushConsumerWork::execute).
PinnedPageStays ==
  \A c \in Clients : Holding(c) => rawBytes[ref[c]] /\ cache[key[c]] = ref[c]

\* The reference count of an object is the number of clients that hold it, so
\* decPageRefCount never has to clamp it at 0.
RefCountIsHolders ==
  \A o \in Objs : refCount[o] = Cardinality({c \in Clients : Holding(c) /\ ref[c] = o})

\* A page that was created is always in memory or in the file: a frame is never
\* given back before the page has been appended.
NoPageLost ==
  \A k \in Pages : born[k] > 0 =>
     appended[k] > 0 \/ \E o \in Objs : o[1] = k /\ rawBytes[o]

\* Every frame in use belongs to a cached page or to one about to be cached.  Any
\* other frame is lost for ever: only the cache can find a page to evict.  The two
\* tests of a flush thread agree because pins and unpins wait for its lock; a caller
\* of decPageRefCount without a lock comes between them (Releases = {"decRef"}).
NoFrameLeaked ==
  \A o \in Objs : rawBytes[o] =>
     \/ cache[o[1]] = o
     \/ \E c \in Clients : ref[c] = o /\ pc[c] \in {"insert", "cache", "insertLoaded"}

\* A page is appended to its file at most once: a second copy would be read by
\* every later scan of the set.
AppendedOnce == \A k \in Pages : appended[k] <= 1

\* An entry of dirtyPagesInPageCache that says inCache names a dirty page of the
\* cache: SetCachePageIterator::next never gets nullptr, and the page it pins
\* without evictionMutex is never one that evictPage is about to free as clean.
DirtySetIsDirty ==
  \A k \in dirtySet : cache[k] # nullptr /\ dirty[cache[k]] /\ rawBytes[cache[k]]

\* "Dangerous: dead loop" (allocateBufferFromSharedMemoryBlocking): a client that
\* asks for a page gets it, although it must evict and wait for a flush first.
EveryRequestServed == \A c \in Clients : pc[c] # "idle" ~> pc[c] = "idle"

=============================================================================
