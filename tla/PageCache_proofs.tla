---------------------------- MODULE PageCache_proofs ----------------------------
(***************************************************************************)
(* Proofs about the page cache, for any pages, clients, flush threads and  *)
(* frames, any ways of giving a page up and any number of loaders.         *)
(* Shape says what the variables of a thread are where it is; Fresh what   *)
(* is known of a page until it is in its file: who makes it, that nobody   *)
(* else knows it before it is listed as dirty, and that neither evictPage  *)
(* nor a flush thread has come to free it while it is listed.              *)
(***************************************************************************)
EXTENDS PageCache, FiniteSetTheorems, SequenceTheorems, TLAPS

First(k) == <<k, 0>>
InBuffer(o) == \E i \in 1 .. Len(flushBuffer) : flushBuffer[i] = o
Born(o) == o[2] < born[o[1]]

\* The states in which a client works on its victim.
OnVictim == EvictPage \cup {"flushMark", "flushEnqueue"}

\* What the variables of a client say where it is, those of a flush thread, the
\* flush buffer and the cache.
ClientLocals ==
  /\ \A c \in Clients : pc[c] # "idle" => key[c] \in Pages
  /\ \A c \in Clients : pc[c] \in {"insert", "cache", "addDirty"} =>
       ref[c] = First(key[c]) /\ born[key[c]] > 0
  /\ \A c \in Clients : pc[c] = "insertLoaded" =>
       ref[c] \in Objs /\ ref[c][1] = key[c] /\ ref[c][2] > 0 /\ Born(ref[c])
  /\ \A c \in Clients : pc[c] \in OnVictim => victim[c] \in Objs /\ Born(victim[c])
  /\ \A c \in Clients :
       how[c] = nullptr \/ pc[c] \in {"unpin", "dec", "decRef", "flushTest", "exportEvict"} \cup OnVictim
  /\ \A c \in Clients : pc[c] = "exportEvict" => how[c] = "export"

SharedLocals ==
  /\ \A q \in Consumers : qpc[q] # "pop" => cur[q] \in Objs /\ Born(cur[q])
  /\ \A q \in Consumers : qpc[q] = "unlist" => appended[cur[q][1]] > 0
  /\ \A i \in 1 .. Len(flushBuffer) : Born(flushBuffer[i])
  /\ \A k \in Pages : cache[k] # nullptr => cache[k][1] = k /\ Born(cache[k])

Shape == TypeOK /\ ClientLocals /\ SharedLocals

-----------------------------------------------------------------------------
\* Objects are pairs of a page and a number, and none of them is nullptr.
LEMMA Objects ==
  /\ \A o \in Objs : o[1] \in Pages /\ o[2] \in 0 .. MaxLoads /\ o[2] \in Nat
  /\ \A o \in Objs : o[2] = 0 => o = First(o[1])
  /\ \A k \in Pages : First(k) \in Objs /\ First(k)[1] = k /\ First(k)[2] = 0
  /\ \A k \in Pages, n \in 0 .. MaxLoads : <<k, n>> \in Objs /\ <<k, n>>[1] = k /\ <<k, n>>[2] = n
  /\ nullptr \notin Objs /\ nullptr \notin Pages /\ nullptr \notin Clients
  /\ nullptr \notin ReleaseKinds
BY CacheAssumption DEF Objs, First

LockMove(from, to) ==
  \/ from = "pin" /\ to = "lookup"
  \/ from = "insert" /\ to = "cache"
  \/ from = "unpin" /\ to = "dec"
  \/ from = "evict" /\ to = "scan"

\* Taking evictionMutex moves the client to the step it waited for.
LEMMA LockDoes ==
  ASSUME NEW c \in Clients, evictionMutexLock(c)
  PROVE  /\ evictionMutex = nullptr /\ evictionMutex' = c
         /\ evicting' = (evicting \/ pc[c] = "evict")
         /\ UNCHANGED <<pageVars, cache, evictable, setVars, flushBuffer, key, ref, victim, how,
                        consumerVars>>
         /\ \E s : /\ pc' = [pc EXCEPT ![c] = s]
                   /\ LockMove(pc[c], s)
<1>1. pc[c] \in {"pin", "insert", "unpin", "evict"} BY DEF evictionMutexLock, Locked
<1>2. /\ pc[c] = "pin" => Locked[pc[c]] = "lookup"
      /\ pc[c] = "insert" => Locked[pc[c]] = "cache"
      /\ pc[c] = "unpin" => Locked[pc[c]] = "dec"
      /\ pc[c] = "evict" => Locked[pc[c]] = "scan"
  BY DEF Locked
<1>3. PICK s : s = Locked[pc[c]] OBVIOUS
<1>4. LockMove(pc[c], s)
  BY <1>1, <1>2, <1>3 DEF LockMove
<1>5. pc' = [pc EXCEPT ![c] = s] BY <1>3 DEF evictionMutexLock, goto
<1> QED BY <1>4, <1>5, Zenon DEF evictionMutexLock


-----------------------------------------------------------------------------
(* What the steps with several outcomes do, as updates at one thread *)

AllocateBy(c, o, s) ==
  /\ pc[c] = "alloc" /\ key[c] \in Pages /\ o[1] = key[c] /\ o[2] = born[key[c]]
  /\ \/ s = "insert" /\ o[2] = 0 /\ o = First(key[c])
     \/ s = "insertLoaded" /\ o[2] > 0
  /\ pc' = [pc EXCEPT ![c] = s]
  /\ rawBytes' = [rawBytes EXCEPT ![o] = TRUE]
  /\ born' = [born EXCEPT ![key[c]] = @ + 1]
  /\ ref' = [ref EXCEPT ![c] = o]
  /\ dirty' = [dirty EXCEPT ![o] = (o[2] = 0)]
  /\ UNCHANGED <<refCount, inFlush, inEviction, cacheVars, dirtySet, appended, flushBuffer,
                 key, victim, how, consumerVars>>

\* allocate(c) makes the next object of the page.
LEMMA allocateDoes ==
  ASSUME Shape, NEW c \in Clients, allocate(c)
  PROVE  \E o \in Objs, s \in {"insert", "insertLoaded"} : AllocateBy(c, o, s)
<1> USE Objects DEF Shape
<1>1. key[c] \in Pages BY DEF allocate, ClientLocals
<1>2. PICK o \in Objs : o = <<key[c], born[key[c]]>> /\ o[1] = key[c] /\ o[2] = born[key[c]]
  BY <1>1 DEF allocate, TypeOK
<1>3. CASE o[2] = 0 BY <1>1, <1>2, <1>3 DEF allocate, AllocateBy, goto
<1>4. CASE o[2] # 0
  <2>1. o[2] > 0 BY <1>4
  <2>2. AllocateBy(c, o, "insertLoaded") BY <1>1, <1>2, <1>4, <2>1 DEF allocate, AllocateBy, goto
  <2> QED BY <2>2
<1> QED BY <1>3, <1>4

EvictNextBy(c, o, s, v) ==
  /\ pc[c] = "evictLoop" /\ o \in evictable /\ evictable' = evictable \ {o}
  /\ pc' = [pc EXCEPT ![c] = s] /\ victim' = [victim EXCEPT ![c] = v]
  /\ \/ CanEvict(o) /\ s = "classify" /\ v = cache[o[1]]
     \/ ~CanEvict(o) /\ s = "evictLoop" /\ v = victim[c]
  /\ UNCHANGED <<pageVars, cache, evictionMutex, evicting, setVars, flushBuffer,
                 key, ref, how, consumerVars>>

\* evictNext takes one page of the queue, as a victim or not.
LEMMA evictNextDoes ==
  ASSUME Shape, NEW c \in Clients, NEW o \in Objs, evictNext(c, o)
  PROVE  \E s, v : EvictNextBy(c, o, s, v)
<1>1. pc[c] = "evictLoop" => [pc EXCEPT ![c] = "evictLoop"] = pc BY DEF Shape, TypeOK
<1>2. [victim EXCEPT ![c] = victim[c]] = victim BY DEF Shape, TypeOK
<1> QED BY <1>1, <1>2, Zenon DEF evictNext, EvictNextBy, goto

ReturnBy(c, s, r) ==
  /\ victim' = [victim EXCEPT ![c] = nullptr] /\ how' = [how EXCEPT ![c] = nullptr]
  /\ pc' = [pc EXCEPT ![c] = s] /\ ref' = [ref EXCEPT ![c] = r]
  /\ \/ how[c] = nullptr /\ s = "evictLoop" /\ r = ref[c]
     \/ how[c] # nullptr /\ s = "idle" /\ r = nullptr

\* evictPage goes back to evict(), or the request is over.
LEMMA evictPageReturnDoes ==
  ASSUME Shape, NEW c \in Clients, evictPageReturn(c)
  PROVE  \E s, r : ReturnBy(c, s, r)
<1>1. [ref EXCEPT ![c] = ref[c]] = ref BY DEF Shape, TypeOK
<1>2. CASE how[c] = nullptr BY <1>1, <1>2 DEF evictPageReturn, goto, ReturnBy
<1>3. CASE how[c] # nullptr BY <1>3 DEF evictPageReturn, goto, ReturnBy
<1> QED BY <1>2, <1>3

\* The two outcomes of the second test of isInFlush().
LEMMA evictReclassifyDoes ==
  ASSUME NEW c \in Clients, evictReclassify(c)
  PROVE  /\ pc[c] = "reclassify"
         /\ UNCHANGED <<refCount, dirty, inFlush, rawBytes, cacheVars, setVars, flushBuffer,
                        key, consumerVars>>
         /\ \/ /\ inFlush[victim[c]] /\ evictPageReturn(c)
               /\ inEviction' = [inEviction EXCEPT ![victim[c]] = TRUE]
            \/ /\ ~inFlush[victim[c]] /\ pc' = [pc EXCEPT ![c] = "evictFree"]
               /\ UNCHANGED <<inEviction, ref, victim, how>>
BY Zenon DEF evictReclassify, goto

\* Only the count of the cached object changes.
LEMMA decPageRefCountDoes ==
  ASSUME Shape, NEW k \in Pages, decPageRefCount(k)
  PROVE  /\ refCount' \in [Objs -> Nat]
         /\ \A o \in Objs : refCount'[o] = IF o = cache[k] /\ refCount[o] > 0 THEN refCount[o] - 1
                                           ELSE refCount[o]
<1> USE Objects DEF Shape
<1>1. CASE cache[k] = nullptr BY <1>1 DEF decPageRefCount, TypeOK
<1>2. CASE cache[k] \in Objs BY <1>2 DEF decPageRefCount, TypeOK
<1> QED BY <1>1, <1>2 DEF TypeOK

\* After cachePage the page is cached, by this object or by the one it had.
LEMMA cachePageDoes ==
  ASSUME Shape, NEW o \in Objs, Born(o), cachePage(o)
  PROVE  \E x \in Objs : /\ cache' = [cache EXCEPT ![o[1]] = x] /\ x[1] = o[1] /\ Born(x)
                         /\ (cache[o[1]] = nullptr /\ x = o) \/ cache[o[1]] = x
<1> USE Objects DEF Shape
<1>1. CASE cache[o[1]] = nullptr BY <1>1 DEF cachePage
<1>2. CASE cache[o[1]] # nullptr
  <2>1. cache[o[1]] \in Objs /\ cache[o[1]][1] = o[1] /\ Born(cache[o[1]])
    BY <1>2 DEF TypeOK, SharedLocals
  <2>2. cache' = [cache EXCEPT ![o[1]] = cache[o[1]]] BY <1>2 DEF cachePage, TypeOK
  <2> QED BY <2>1, <2>2
<1> QED BY <1>1, <1>2

UnpinBy(c, s, r, h) ==
  /\ pc' = [pc EXCEPT ![c] = s] /\ ref' = [ref EXCEPT ![c] = r] /\ how' = [how EXCEPT ![c] = h]
  /\ \/ how[c] = "decRef" /\ s = "idle" /\ r = nullptr /\ h = nullptr
     \/ how[c] = "flush" /\ s = "flushTest" /\ r = ref[c] /\ h = how[c]
     \/ how[c] = "export" /\ s = "exportEvict" /\ r = ref[c] /\ h = how[c]

\* The three ways on from an unlocked decPageRefCount.
LEMMA unlockedUnpinDoes ==
  ASSUME Shape, NEW c \in Clients, unlockedUnpin(c)
  PROVE  /\ pc[c] = "decRef" /\ decPageRefCount(key[c])
         /\ UNCHANGED <<dirty, inFlush, inEviction, rawBytes, cacheVars, setVars, flushBuffer,
                        key, victim, consumerVars>>
         /\ \E s, r, h : UnpinBy(c, s, r, h)
<1>1. [ref EXCEPT ![c] = ref[c]] = ref /\ [how EXCEPT ![c] = how[c]] = how BY DEF Shape, TypeOK
<1>2. CASE how[c] = "decRef" BY <1>2 DEF unlockedUnpin, done, goto, UnpinBy
<1>3. CASE how[c] = "flush" BY <1>1, <1>3, Zenon DEF unlockedUnpin, goto, UnpinBy
<1>4. CASE how[c] = "export" BY <1>1, <1>4, Zenon DEF unlockedUnpin, goto, UnpinBy
<1>5. how[c] \in {"decRef", "flush", "export"} BY DEF unlockedUnpin
<1> QED BY <1>2, <1>3, <1>4, <1>5 DEF unlockedUnpin

\* The client is done, or goes on with the object that the cache holds for its page.
PickBy(c, s, r, h, v) ==
  /\ UNCHANGED <<pageVars, cacheVars, setVars, flushBuffer, key, consumerVars>>
  /\ pc' = [pc EXCEPT ![c] = s] /\ ref' = [ref EXCEPT ![c] = r]
  /\ how' = [how EXCEPT ![c] = h] /\ victim' = [victim EXCEPT ![c] = v]
  /\ \/ /\ pc[c] = "exportEvict" /\ s = "classify"
        /\ cache[key[c]] # nullptr /\ refCount[cache[key[c]]] = 0
        /\ r = ref[c] /\ h = how[c] /\ v = cache[key[c]]
     \/ /\ pc[c] = "flushTest" /\ s = "flushMark"
        /\ cache[key[c]] # nullptr /\ dirty[cache[key[c]]] /\ ~inFlush[cache[key[c]]]
        /\ r = ref[c] /\ h = how[c] /\ v = cache[key[c]]
     \/ /\ pc[c] \in {"exportEvict", "flushTest"} /\ s = "idle"
        /\ r = nullptr /\ h = nullptr /\ v = victim[c]

\* What exportEvict and flushTest do with the page they look up.
LEMMA PickDoes ==
  ASSUME Shape, NEW c \in Clients, exportEvict(c) \/ flushTest(c)
  PROVE  \E s, r, h, v : PickBy(c, s, r, h, v)
<1>1. /\ [ref EXCEPT ![c] = ref[c]] = ref /\ [how EXCEPT ![c] = how[c]] = how
      /\ [victim EXCEPT ![c] = victim[c]] = victim
  BY DEF Shape, TypeOK
<1>2. CASE exportEvict(c)
  <2>0. pc[c] \in {"exportEvict", "flushTest"} BY <1>2 DEF exportEvict
  <2>1. CASE cache[key[c]] # nullptr /\ refCount[cache[key[c]]] = 0
    BY <1>1, <1>2, <2>1, Zenon DEF exportEvict, PickBy, goto
  <2>2. CASE ~(cache[key[c]] # nullptr /\ refCount[cache[key[c]]] = 0)
    BY <1>1, <1>2, <2>0, <2>2, Zenon DEF exportEvict, done, PickBy, goto
  <2> QED BY <2>1, <2>2
<1>3. CASE flushTest(c)
  <2>0. pc[c] \in {"exportEvict", "flushTest"} BY <1>3 DEF flushTest
  <2>1. CASE cache[key[c]] # nullptr /\ dirty[cache[key[c]]] /\ ~inFlush[cache[key[c]]]
    BY <1>1, <1>3, <2>1, Zenon DEF flushTest, PickBy, goto
  <2>2. CASE ~(cache[key[c]] # nullptr /\ dirty[cache[key[c]]] /\ ~inFlush[cache[key[c]]])
    BY <1>1, <1>3, <2>0, <2>2, Zenon DEF flushTest, done, PickBy, goto
  <2> QED BY <2>1, <2>2
<1> QED BY <1>2, <1>3

AppendBy(q, s, n) ==
  /\ UNCHANGED <<pageVars, cacheVars, dirtySet, born, flushBuffer, clientVars, cur>>
  /\ qpc[q] = "append" /\ qpc' = [qpc EXCEPT ![q] = s]
  /\ appended' = [appended EXCEPT ![cur[q][1]] = n]
  /\ \/ rawBytes[cur[q]] /\ s = "unlist" /\ n = appended[cur[q][1]] + 1
     \/ ~rawBytes[cur[q]] /\ s = "free" /\ n = appended[cur[q][1]]

\* The page is appended once, or not at all.
LEMMA appendPageDoes ==
  ASSUME Shape, NEW q \in Consumers, appendPage(q)
  PROVE  cur[q] \in Objs /\ cur[q][1] \in Pages /\ \E s, n : AppendBy(q, s, n)
<1>1. cur[q] \in Objs /\ cur[q][1] \in Pages BY Objects DEF Shape, SharedLocals, appendPage
<1>2. [appended EXCEPT ![cur[q][1]] = appended[cur[q][1]]] = appended
  BY <1>1 DEF Shape, TypeOK
<1>3. CASE rawBytes[cur[q]]
  <2>1. AppendBy(q, "unlist", appended[cur[q][1]] + 1) BY <1>3, Zenon DEF appendPage, AppendBy
  <2> QED BY <1>1, <2>1
<1>4. CASE ~rawBytes[cur[q]]
  <2>1. AppendBy(q, "free", appended[cur[q][1]]) BY <1>2, <1>4, Zenon DEF appendPage, AppendBy
  <2> QED BY <1>1, <2>1
<1> QED BY <1>1, <1>3, <1>4

\* addPageToTail
LEMMA EnqueueDoes ==
  ASSUME Shape, NEW o \in Objs, Len(flushBuffer) < FlushCap, flushBuffer' = Append(flushBuffer, o)
  PROVE  /\ flushBuffer' \in Seq(Objs) /\ Len(flushBuffer') <= FlushCap
         /\ Len(flushBuffer) \in Nat /\ Len(flushBuffer') = Len(flushBuffer) + 1
         /\ flushBuffer'[Len(flushBuffer) + 1] = o
         /\ \A i \in 1 .. Len(flushBuffer) : flushBuffer'[i] = flushBuffer[i]
         /\ \A i \in 1 .. Len(flushBuffer') :
              flushBuffer'[i] = o \/ (i \in 1 .. Len(flushBuffer) /\ flushBuffer'[i] = flushBuffer[i])
<1>1. PICK b : b = flushBuffer' OBVIOUS
<1>2. /\ b \in Seq(Objs) /\ Len(flushBuffer) \in Nat /\ Len(b) = Len(flushBuffer) + 1
      /\ b[Len(flushBuffer) + 1] = o
      /\ \A i \in 1 .. Len(flushBuffer) : b[i] = flushBuffer[i]
  BY <1>1, AppendProperties DEF Shape, TypeOK
<1>3. Len(b) <= FlushCap BY <1>2, CacheAssumption
<1>4. \A i \in 1 .. Len(b) : b[i] = o \/ (i \in 1 .. Len(flushBuffer) /\ b[i] = flushBuffer[i])
  <2>1. \A i \in 1 .. Len(b) : i = Len(flushBuffer) + 1 \/ i \in 1 .. Len(flushBuffer) BY <1>2
  <2> QED BY <1>2, <2>1
<1> QED BY <1>1, <1>2, <1>3, <1>4, Zenon

\* popPageFromHead takes the first page and leaves the rest in order.
LEMMA PopDoes ==
  ASSUME Shape, NEW q \in Consumers, popPageFromHead(q)
  PROVE  /\ qpc[q] = "pop" /\ qpc' = [qpc EXCEPT ![q] = "append"]
         /\ flushBuffer' \in Seq(Objs) /\ Len(flushBuffer') <= FlushCap
         /\ Len(flushBuffer) \in Nat \ {0} /\ Len(flushBuffer') = Len(flushBuffer) - 1
         /\ flushBuffer[1] \in Objs /\ Born(flushBuffer[1])
         /\ cur' = [cur EXCEPT ![q] = flushBuffer[1]]
         /\ \A i \in 1 .. Len(flushBuffer') : i + 1 \in 1 .. Len(flushBuffer) /\ flushBuffer'[i] = flushBuffer[i + 1]
         /\ UNCHANGED <<pageVars, cacheVars, setVars, clientVars>>
<1>1. flushBuffer \in Seq(Objs) /\ flushBuffer # <<>> BY DEF Shape, TypeOK, popPageFromHead
<1>2. Len(flushBuffer) \in Nat \ {0} BY <1>1
<1>3. flushBuffer[1] \in Objs /\ Head(flushBuffer) = flushBuffer[1] BY <1>1, <1>2
<1>4. /\ Tail(flushBuffer) \in Seq(Objs) /\ Len(Tail(flushBuffer)) = Len(flushBuffer) - 1
      /\ \A i \in 1 .. Len(Tail(flushBuffer)) :
           i + 1 \in 1 .. Len(flushBuffer) /\ Tail(flushBuffer)[i] = flushBuffer[i + 1]
  BY <1>1, <1>2
<1> QED BY <1>2, <1>3, <1>4, CacheAssumption DEF Shape, TypeOK, SharedLocals, popPageFromHead

-----------------------------------------------------------------------------
(* Shape is inductive *)

\* The initial state has its shape.
LEMMA ShapeInit == Init => Shape
<1> SUFFICES ASSUME Init PROVE Shape OBVIOUS
<1> USE Objects, CacheAssumption DEF Init
<1>1. TypeOK
  <2>1. flushBuffer \in Seq(Objs) /\ Len(flushBuffer) <= FlushCap BY EmptySeq
  <2> QED BY <2>1 DEF TypeOK, ClientStates, ConsumerStates
<1>2. ClientLocals BY DEF ClientLocals, OnVictim, EvictPage
<1>3. SharedLocals BY DEF SharedLocals
<1> QED BY <1>1, <1>2, <1>3 DEF Shape

\* A request begins.
LEMMA ShapeRequests ==
  ASSUME Shape, NEW c \in Clients, NEW k \in Pages,
         getNewPage(c, k) \/ getPage(c, k)
         \/ iteratorNext(c, k)
  PROVE  Shape'
<1> USE Objects DEF Shape, pageVars, cacheVars, setVars, clientVars, consumerVars, goto
<1>1. CASE getNewPage(c, k) \/ getPage(c, k)
  <2>1. /\ pc[c] = "idle" /\ \E s \in {"alloc", "pin"} : pc' = [pc EXCEPT ![c] = s]
        /\ key' = [key EXCEPT ![c] = k]
        /\ UNCHANGED <<pageVars, cacheVars, setVars, flushBuffer, ref, victim, how, consumerVars>>
    BY <1>1 DEF getNewPage, getPage
  <2>2. TypeOK' BY <2>1 DEF TypeOK, ClientStates
  <2>3. ClientLocals' BY <2>1 DEF TypeOK, ClientLocals, OnVictim, EvictPage, Born
  <2>4. SharedLocals' BY <2>1 DEF SharedLocals, Born
  <2> QED BY <2>2, <2>3, <2>4
<1>2. CASE iteratorNext(c, k)
  <2>1. TypeOK' BY <1>2 DEF iteratorNext, pinObject, TypeOK, ClientStates
  <2>2. ClientLocals' BY <1>2 DEF iteratorNext, pinObject, TypeOK, ClientLocals, OnVictim, EvictPage, Born
  <2>3. SharedLocals' BY <1>2 DEF iteratorNext, pinObject, SharedLocals, Born
  <2> QED BY <2>1, <2>2, <2>3
<1> QED BY <1>1, <1>2

\* A client takes the mutex, or does what it took the locks for.
LEMMA ShapeLocked ==
  ASSUME Shape, NEW c \in Clients,
         evictionMutexLock(c)
         \/ getPageHit(c)
         \/ getPageMiss(c)
         \/ insertNewPage(c)
         \/ insertLoadedPage(c)
         \/ unpinPage(c)
         \/ evictScan(c)
  PROVE  Shape'
<1> USE Objects DEF Shape, pageVars, cacheVars, setVars, clientVars, consumerVars, goto, LockMove
<1>1. CASE evictionMutexLock(c)
  <2>1. PICK s : /\ pc' = [pc EXCEPT ![c] = s]
                 /\ LockMove(pc[c], s)
    BY <1>1, LockDoes
  <2>2. /\ evictionMutex' = c /\ evicting' \in BOOLEAN
        /\ UNCHANGED <<pageVars, cache, evictable, setVars, flushBuffer, key, ref, victim, how, consumerVars>>
    BY <1>1, LockDoes
  <2>3. TypeOK' BY <2>1, <2>2 DEF TypeOK, ClientStates
  <2>4. ClientLocals' BY <2>1, <2>2 DEF TypeOK, ClientLocals, OnVictim, EvictPage, Born
  <2>5. SharedLocals' BY <2>1, <2>2 DEF SharedLocals, Born
  <2> QED BY <2>3, <2>4, <2>5
<1>2. CASE getPageHit(c)
  <2>1. key[c] \in Pages
    BY <1>2 DEF getPageHit, ClientLocals
  <2>2. cache[key[c]] \in Objs
    BY <1>2, <2>1 DEF getPageHit, TypeOK
  <2>3. TypeOK' BY <1>2, <2>1, <2>2 DEF getPageHit, pinObject, TypeOK, ClientStates
  <2>4. ClientLocals' BY <1>2, <2>1, <2>2 DEF getPageHit, pinObject, TypeOK, ClientLocals, OnVictim, EvictPage, Born
  <2>5. SharedLocals' BY <1>2, <2>1, <2>2 DEF getPageHit, pinObject, SharedLocals, Born
  <2> QED BY <2>3, <2>4, <2>5
<1>3. CASE getPageMiss(c)
  <2>1. TypeOK' BY <1>3 DEF getPageMiss, TypeOK, ClientStates
  <2>2. ClientLocals' BY <1>3 DEF getPageMiss, TypeOK, ClientLocals, OnVictim, EvictPage, Born
  <2>3. SharedLocals' BY <1>3 DEF getPageMiss, SharedLocals, Born
  <2> QED BY <2>1, <2>2, <2>3
<1>4. CASE insertNewPage(c)
  <2>1. key[c] \in Pages /\ ref[c] \in Objs /\ ref[c][1] = key[c] /\ Born(ref[c])
    BY <1>4 DEF insertNewPage, ClientLocals, Born
  <2>2. PICK x \in Objs : cache' = [cache EXCEPT ![key[c]] = x] /\ x[1] = key[c] /\ Born(x)
    BY <1>4, <2>1, cachePageDoes DEF insertNewPage
  <2>3. TypeOK' BY <1>4, <2>1, <2>2 DEF insertNewPage, TypeOK, ClientStates
  <2>4. ClientLocals' BY <1>4, <2>1, <2>2 DEF insertNewPage, TypeOK, ClientLocals, OnVictim, EvictPage, Born
  <2>5. SharedLocals' BY <1>4, <2>1, <2>2 DEF insertNewPage, SharedLocals, Born
  <2> QED BY <2>3, <2>4, <2>5
<1>5. CASE insertLoadedPage(c)
  <2>1. key[c] \in Pages /\ ref[c] \in Objs /\ ref[c][1] = key[c] /\ Born(ref[c])
    BY <1>5 DEF insertLoadedPage, ClientLocals
  <2>2. PICK x \in Objs : cache' = [cache EXCEPT ![key[c]] = x] /\ x[1] = key[c] /\ Born(x)
    BY <1>5, <2>1, cachePageDoes DEF insertLoadedPage
  <2>3. TypeOK' BY <1>5, <2>1, <2>2 DEF insertLoadedPage, TypeOK, ClientStates
  <2>4. ClientLocals' BY <1>5, <2>1, <2>2 DEF insertLoadedPage, TypeOK, ClientLocals, OnVictim, EvictPage, Born
  <2>5. SharedLocals' BY <1>5, <2>1, <2>2 DEF insertLoadedPage, SharedLocals, Born
  <2> QED BY <2>3, <2>4, <2>5
<1>6. CASE unpinPage(c)
  <2>1. key[c] \in Pages /\ decPageRefCount(key[c])
    BY <1>6 DEF unpinPage, ClientLocals
  <2>2. refCount' \in [Objs -> Nat]
    BY <2>1, decPageRefCountDoes
  <2>3. TypeOK' BY <1>6, <2>1, <2>2 DEF unpinPage, done, TypeOK, ClientStates
  <2>4. ClientLocals' BY <1>6, <2>1, <2>2 DEF unpinPage, done, TypeOK, ClientLocals, OnVictim, EvictPage, Born
  <2>5. SharedLocals' BY <1>6, <2>1, <2>2 DEF unpinPage, done, SharedLocals, Born
  <2> QED BY <2>3, <2>4, <2>5
<1>7. CASE evictScan(c)
  <2>1. TypeOK' BY <1>7 DEF evictScan, TypeOK, ClientStates
  <2>2. ClientLocals' BY <1>7 DEF evictScan, TypeOK, ClientLocals, OnVictim, EvictPage, Born
  <2>3. SharedLocals' BY <1>7 DEF evictScan, SharedLocals, Born
  <2> QED BY <2>1, <2>2, <2>3
<1> QED BY <1>1, <1>2, <1>3, <1>4, <1>5, <1>6, <1>7

\* A client allocates.
LEMMA ShapeAllocate ==
  ASSUME Shape, NEW c \in Clients,
         allocate(c)
         \/ allocateFails(c)
         \/ addPageToDirtyPageSet(c)
         \/ evictEnd(c)
  PROVE  Shape'
<1> USE Objects DEF Shape, pageVars, cacheVars, setVars, clientVars, consumerVars, goto
<1>1. CASE allocate(c)
  <2>1. PICK o \in Objs, s \in {"insert", "insertLoaded"} : AllocateBy(c, o, s)
    BY <1>1, allocateDoes
  <2>2. TypeOK' BY <2>1 DEF AllocateBy, TypeOK, ClientStates
  <2>3. ClientLocals' BY <2>1, SMTT(40) DEF AllocateBy, TypeOK, ClientLocals, OnVictim, EvictPage, Born
  <2>4. SharedLocals'
    <3>1. \A x \in Objs : Born(x) => Born(x)' BY <2>1 DEF AllocateBy, TypeOK, Born
    <3>2. UNCHANGED <<qpc, cur, appended, flushBuffer, cache>> BY <2>1 DEF AllocateBy
    <3>3. \A i \in 1 .. Len(flushBuffer) : flushBuffer[i] \in Objs BY DEF TypeOK
    <3> QED BY <3>1, <3>2, <3>3 DEF TypeOK, SharedLocals
  <2> QED BY <2>2, <2>3, <2>4
<1>2. CASE allocateFails(c)
  <2>1. TypeOK' BY <1>2 DEF allocateFails, TypeOK, ClientStates
  <2>2. ClientLocals' BY <1>2 DEF allocateFails, TypeOK, ClientLocals, OnVictim, EvictPage, Born
  <2>3. SharedLocals' BY <1>2 DEF allocateFails, SharedLocals, Born
  <2> QED BY <2>1, <2>2, <2>3
<1>3. CASE addPageToDirtyPageSet(c)
  <2>1. key[c] \in Pages
    BY <1>3 DEF addPageToDirtyPageSet, ClientLocals
  <2>2. TypeOK' BY <1>3, <2>1 DEF addPageToDirtyPageSet, TypeOK, ClientStates
  <2>3. ClientLocals' BY <1>3, <2>1 DEF addPageToDirtyPageSet, TypeOK, ClientLocals, OnVictim, EvictPage, Born
  <2>4. SharedLocals' BY <1>3, <2>1 DEF addPageToDirtyPageSet, SharedLocals, Born
  <2> QED BY <2>2, <2>3, <2>4
<1>4. CASE evictEnd(c)
  <2>1. TypeOK' BY <1>4 DEF evictEnd, TypeOK, ClientStates
  <2>2. ClientLocals' BY <1>4 DEF evictEnd, TypeOK, ClientLocals, OnVictim, EvictPage, Born
  <2>3. SharedLocals' BY <1>4 DEF evictEnd, SharedLocals, Born
  <2> QED BY <2>1, <2>2, <2>3
<1> QED BY <1>1, <1>2, <1>3, <1>4

\* A client evicts.
LEMMA ShapeEvict ==
  ASSUME Shape, NEW c \in Clients,
         (\E o \in Objs : evictNext(c, o))
         \/ evictClassify(c)
         \/ evictMark(c)
         \/ evictEnqueue(c)
         \/ evictReclassify(c)
         \/ evictFree(c)
  PROVE  Shape'
<1> USE Objects DEF Shape, pageVars, cacheVars, setVars, clientVars, consumerVars, goto
<1>1. CASE (\E o \in Objs : evictNext(c, o))
  <2>0. PICK o \in Objs : evictNext(c, o) BY <1>1
  <2>1. PICK s, v : EvictNextBy(c, o, s, v) BY <2>0, evictNextDoes
  <2>2. s = "classify" => v \in Objs /\ Born(v)
    BY <2>1 DEF EvictNextBy, CanEvict, TypeOK, SharedLocals
  <2>3. TypeOK' BY <2>1, <2>2 DEF EvictNextBy, TypeOK, ClientStates, EvictPage
  <2>4. ClientLocals' BY <2>1, <2>2 DEF EvictNextBy, TypeOK, ClientLocals, OnVictim, EvictPage, Born
  <2>5. SharedLocals' BY <2>1, <2>2 DEF EvictNextBy, SharedLocals, Born
  <2> QED BY <2>3, <2>4, <2>5
<1>2. CASE evictClassify(c)
  <2>1. TypeOK' BY <1>2 DEF evictClassify, TypeOK, ClientStates, EvictPage
  <2>2. ClientLocals' BY <1>2 DEF evictClassify, TypeOK, ClientLocals, OnVictim, EvictPage, Born
  <2>3. SharedLocals' BY <1>2 DEF evictClassify, SharedLocals, Born
  <2> QED BY <2>1, <2>2, <2>3
<1>3. CASE evictMark(c)
  <2>1. victim[c] \in Objs /\ victim[c][1] \in Pages /\ Born(victim[c])
    BY <1>3 DEF evictMark, ClientLocals, OnVictim, EvictPage
  <2>2. TypeOK' BY <1>3, <2>1 DEF evictMark, TypeOK, ClientStates, EvictPage
  <2>3. ClientLocals' BY <1>3, <2>1 DEF evictMark, TypeOK, ClientLocals, OnVictim, EvictPage, Born
  <2>4. SharedLocals' BY <1>3, <2>1 DEF evictMark, SharedLocals, Born
  <2> QED BY <2>2, <2>3, <2>4
<1>4. CASE evictEnqueue(c)
  <2>1. victim[c] \in Objs /\ victim[c][1] \in Pages /\ Born(victim[c])
    BY <1>4 DEF evictEnqueue, ClientLocals, OnVictim, EvictPage
  <2>2. /\ pc[c] = "enqueue" /\ Len(flushBuffer) < FlushCap
        /\ flushBuffer' = Append(flushBuffer, victim[c])
        /\ UNCHANGED <<pageVars, cacheVars, setVars, key, consumerVars>>
    BY <1>4 DEF evictEnqueue
  <2>3. /\ flushBuffer' \in Seq(Objs) /\ Len(flushBuffer') <= FlushCap
        /\ \A i \in 1 .. Len(flushBuffer') : Born(flushBuffer'[i])
    <3>1. /\ flushBuffer' \in Seq(Objs) /\ Len(flushBuffer') <= FlushCap /\ born' = born
          /\ \A i \in 1 .. Len(flushBuffer') :
               flushBuffer'[i] = victim[c] \/ (i \in 1 .. Len(flushBuffer) /\ flushBuffer'[i] = flushBuffer[i])
      BY <2>1, <2>2, EnqueueDoes
    <3>2. \A i \in 1 .. Len(flushBuffer) : Born(flushBuffer[i]) BY DEF SharedLocals
    <3> QED BY <2>1, <3>1, <3>2 DEF Born
  <2>4. PICK s, r : ReturnBy(c, s, r)
    BY <1>4, evictPageReturnDoes DEF evictEnqueue
  <2>5. TypeOK' BY <2>1, <2>2, <2>3, <2>4 DEF ReturnBy, TypeOK, ClientStates
  <2>6. ClientLocals'
    <3>1. /\ s \in {"evictLoop", "idle"} /\ pc' = [pc EXCEPT ![c] = s] /\ UNCHANGED <<key, born>>
          /\ how' = [how EXCEPT ![c] = nullptr] /\ key[c] \in Pages
          /\ \A d \in Clients \ {c} : ref'[d] = ref[d] /\ victim'[d] = victim[d]
      BY <2>1, <2>2, <2>3, <2>4 DEF ReturnBy, ClientLocals
    <3> QED BY <3>1 DEF TypeOK, ClientLocals, OnVictim, EvictPage, Born
  <2>7. SharedLocals' BY <2>1, <2>2, <2>3, <2>4 DEF ReturnBy, SharedLocals, Born
  <2> QED BY <2>5, <2>6, <2>7
<1>5. CASE evictReclassify(c) /\ evictPageReturn(c)
  <2>1. victim[c] \in Objs /\ victim[c][1] \in Pages /\ Born(victim[c])
    BY <1>5 DEF evictReclassify, ClientLocals, OnVictim, EvictPage
  <2>2. /\ pc[c] = "reclassify" /\ inEviction' \in [Objs -> BOOLEAN]
        /\ UNCHANGED <<refCount, dirty, inFlush, rawBytes, cacheVars, setVars, flushBuffer,
                       key, consumerVars>>
    BY <1>5, <2>1, evictReclassifyDoes, ZenonT(60) DEF TypeOK
  <2>3. PICK s, r : ReturnBy(c, s, r)
    BY <1>5, evictPageReturnDoes
  <2>4. TypeOK' BY <2>1, <2>2, <2>3 DEF ReturnBy, TypeOK, ClientStates
  <2>5. ClientLocals'
    <3>1. /\ s \in {"evictLoop", "idle"} /\ pc' = [pc EXCEPT ![c] = s] /\ UNCHANGED <<key, born>>
          /\ how' = [how EXCEPT ![c] = nullptr] /\ key[c] \in Pages
          /\ \A d \in Clients \ {c} : ref'[d] = ref[d] /\ victim'[d] = victim[d]
      BY <2>1, <2>2, <2>3 DEF ReturnBy, ClientLocals
    <3> QED BY <3>1 DEF TypeOK, ClientLocals, OnVictim, EvictPage, Born
  <2>6. SharedLocals' BY <2>1, <2>2, <2>3 DEF ReturnBy, SharedLocals, Born
  <2> QED BY <2>4, <2>5, <2>6
<1>6. CASE evictReclassify(c) /\ ~evictPageReturn(c)
  <2>1. /\ pc[c] = "reclassify" /\ pc' = [pc EXCEPT ![c] = "evictFree"]
        /\ UNCHANGED <<pageVars, cacheVars, setVars, flushBuffer, key, ref, victim, how,
                       consumerVars>>
    BY <1>6, evictReclassifyDoes
  <2>2. TypeOK' BY <2>1 DEF TypeOK, ClientStates, EvictPage
  <2>3. ClientLocals' BY <2>1 DEF TypeOK, ClientLocals, OnVictim, EvictPage, Born
  <2>4. SharedLocals' BY <2>1 DEF SharedLocals, Born
  <2> QED BY <2>2, <2>3, <2>4
<1>7. CASE evictFree(c)
  <2>1. victim[c] \in Objs /\ victim[c][1] \in Pages /\ Born(victim[c])
    BY <1>7 DEF evictFree, ClientLocals, OnVictim, EvictPage
  <2>2. /\ pc[c] = "evictFree"
        /\ rawBytes' = [rawBytes EXCEPT ![victim[c]] = FALSE]
        /\ cache' = [cache EXCEPT ![victim[c][1]] = nullptr]
        /\ UNCHANGED <<refCount, dirty, inFlush, inEviction, evictionMutex, evicting, evictable,
                       setVars, flushBuffer, key, consumerVars>>
    BY <1>7 DEF evictFree
  <2>3. PICK s, r : ReturnBy(c, s, r)
    BY <1>7, evictPageReturnDoes DEF evictFree
  <2>4. TypeOK' BY <2>1, <2>2, <2>3 DEF ReturnBy, TypeOK, ClientStates
  <2>5. ClientLocals'
    <3>1. /\ s \in {"evictLoop", "idle"} /\ pc' = [pc EXCEPT ![c] = s] /\ UNCHANGED <<key, born>>
          /\ how' = [how EXCEPT ![c] = nullptr] /\ key[c] \in Pages
          /\ \A d \in Clients \ {c} : ref'[d] = ref[d] /\ victim'[d] = victim[d]
      BY <2>1, <2>2, <2>3 DEF ReturnBy, ClientLocals
    <3> QED BY <3>1 DEF TypeOK, ClientLocals, OnVictim, EvictPage, Born
  <2>6. SharedLocals' BY <2>1, <2>2, <2>3 DEF ReturnBy, SharedLocals, Born
  <2> QED BY <2>4, <2>5, <2>6
<1> QED BY <1>1, <1>2, <1>3, <1>4, <1>5, <1>6, <1>7

\* A client gives its page up.
LEMMA ShapeRelease ==
  ASSUME Shape, NEW c \in Clients,
         (\E h \in ReleaseKinds : release(c, h))
         \/ unlockedUnpin(c)
         \/ exportEvict(c) \/ flushTest(c)
         \/ flushMark(c)
         \/ flushEnqueue(c)
  PROVE  Shape'
<1> USE Objects DEF Shape, pageVars, cacheVars, setVars, clientVars, consumerVars, goto
<1>1. CASE (\E h \in ReleaseKinds : release(c, h))
  <2>1. TypeOK' BY <1>1 DEF release, TypeOK, ClientStates
  <2>2. ClientLocals' BY <1>1 DEF release, TypeOK, ClientLocals, OnVictim, EvictPage, Born
  <2>3. SharedLocals' BY <1>1 DEF release, SharedLocals, Born
  <2> QED BY <2>1, <2>2, <2>3
<1>2. CASE unlockedUnpin(c)
  <2>1. /\ pc[c] = "decRef" /\ decPageRefCount(key[c]) /\ key[c] \in Pages
        /\ UNCHANGED <<dirty, inFlush, inEviction, rawBytes, cacheVars, setVars, flushBuffer,
                       key, victim, consumerVars>>
    BY <1>2, unlockedUnpinDoes DEF ClientLocals
  <2>2. refCount' \in [Objs -> Nat]
    BY <2>1, decPageRefCountDoes
  <2>3. PICK s, r, h : UnpinBy(c, s, r, h)
    BY <1>2, unlockedUnpinDoes
  <2>4. TypeOK' BY <2>1, <2>2, <2>3 DEF UnpinBy, TypeOK, ClientStates
  <2>5. ClientLocals' BY <2>1, <2>2, <2>3, SMTT(40) DEF UnpinBy, TypeOK, ClientLocals, OnVictim, EvictPage, Born
  <2>6. SharedLocals' BY <2>1, <2>2, <2>3 DEF UnpinBy, SharedLocals, Born
  <2> QED BY <2>4, <2>5, <2>6
<1>3. CASE exportEvict(c) \/ flushTest(c)
  <2>1. PICK s, r, h, v : PickBy(c, s, r, h, v)
    BY <1>3, PickDoes
  <2>2. key[c] \in Pages /\ (s \in OnVictim => v \in Objs /\ Born(v))
    BY <2>1 DEF PickBy, TypeOK, ClientLocals, SharedLocals, OnVictim, EvictPage
  <2>3. TypeOK' BY <2>1, <2>2 DEF PickBy, TypeOK, ClientStates, EvictPage
  <2>4. ClientLocals' BY <2>1, <2>2 DEF PickBy, TypeOK, ClientLocals, OnVictim, EvictPage, Born
  <2>5. SharedLocals' BY <2>1, <2>2 DEF PickBy, SharedLocals, Born
  <2> QED BY <2>3, <2>4, <2>5
<1>4. CASE flushMark(c)
  <2>1. TypeOK' BY <1>4 DEF flushMark, TypeOK, ClientStates
  <2>2. ClientLocals' BY <1>4 DEF flushMark, ClientLocals, OnVictim, TypeOK, Born
  <2>3. SharedLocals' BY <1>4 DEF flushMark, SharedLocals, Born
  <2> QED BY <2>1, <2>2, <2>3
<1>5. CASE flushEnqueue(c)
  <2>1. victim[c] \in Objs /\ victim[c][1] \in Pages /\ Born(victim[c])
    BY <1>5 DEF flushEnqueue, ClientLocals, OnVictim, EvictPage
  <2>2. /\ pc[c] = "flushEnqueue" /\ Len(flushBuffer) < FlushCap
        /\ flushBuffer' = Append(flushBuffer, victim[c])
        /\ pc' = [pc EXCEPT ![c] = "idle"] /\ victim' = [victim EXCEPT ![c] = nullptr]
        /\ ref' = [ref EXCEPT ![c] = nullptr] /\ how' = [how EXCEPT ![c] = nullptr]
        /\ UNCHANGED <<pageVars, cacheVars, setVars, key, consumerVars>>
    BY <1>5 DEF flushEnqueue, done
  <2>3. /\ flushBuffer' \in Seq(Objs) /\ Len(flushBuffer') <= FlushCap
        /\ \A i \in 1 .. Len(flushBuffer') : Born(flushBuffer'[i])
    <3>1. /\ flushBuffer' \in Seq(Objs) /\ Len(flushBuffer') <= FlushCap /\ born' = born
          /\ \A i \in 1 .. Len(flushBuffer') :
               flushBuffer'[i] = victim[c] \/ (i \in 1 .. Len(flushBuffer) /\ flushBuffer'[i] = flushBuffer[i])
      BY <2>1, <2>2, EnqueueDoes
    <3>2. \A i \in 1 .. Len(flushBuffer) : Born(flushBuffer[i]) BY DEF SharedLocals
    <3> QED BY <2>1, <3>1, <3>2 DEF Born
  <2>4. TypeOK' BY <2>1, <2>2, <2>3 DEF TypeOK, ClientStates
  <2>5. ClientLocals' BY <2>1, <2>2, <2>3 DEF TypeOK, ClientLocals, OnVictim, EvictPage, Born
  <2>6. SharedLocals' BY <2>1, <2>2, <2>3 DEF SharedLocals, Born
  <2> QED BY <2>4, <2>5, <2>6
<1> QED BY <1>1, <1>2, <1>3, <1>4, <1>5

\* A flush thread runs.
LEMMA ShapeFlush ==
  ASSUME Shape, NEW q \in Consumers,
         popPageFromHead(q)
         \/ appendPage(q)
         \/ removePageFromDirtyPageSet(q)
         \/ freePage(q)
         \/ removePage(q)
         \/ clearInFlush(q)
         \/ clearDirty(q)
  PROVE  Shape'
<1> USE Objects DEF Shape, pageVars, cacheVars, setVars, clientVars, consumerVars, goto
<1>1. CASE popPageFromHead(q)
  <2>1. /\ flushBuffer' \in Seq(Objs) /\ Len(flushBuffer') <= FlushCap
        /\ flushBuffer[1] \in Objs /\ Born(flushBuffer[1]) /\ cur' = [cur EXCEPT ![q] = flushBuffer[1]]
        /\ qpc[q] = "pop" /\ qpc' = [qpc EXCEPT ![q] = "append"]
        /\ UNCHANGED <<pageVars, cacheVars, setVars, clientVars>>
    BY <1>1, PopDoes
  <2>2. \A i \in 1 .. Len(flushBuffer') : Born(flushBuffer'[i])
    BY <1>1, PopDoes, SMTT(40) DEF SharedLocals, Born
  <2>3. TypeOK' BY <2>1, <2>2 DEF TypeOK, ConsumerStates
  <2>4. ClientLocals' BY <2>1, <2>2 DEF ClientLocals, Born
  <2>5. SharedLocals' BY <2>1, <2>2 DEF SharedLocals, TypeOK, Born
  <2> QED BY <2>3, <2>4, <2>5
<1>2. CASE appendPage(q)
  <2>1. PICK s, n : AppendBy(q, s, n)
    BY <1>2, appendPageDoes
  <2>2. cur[q] \in Objs /\ cur[q][1] \in Pages
    BY <1>2, appendPageDoes
  <2>3. TypeOK'
    <3>1. s \in {"unlist", "free"} /\ n \in Nat BY <2>1, <2>2 DEF AppendBy, TypeOK
    <3> QED BY <2>1, <2>2, <3>1 DEF AppendBy, TypeOK, ConsumerStates
  <2>4. ClientLocals' BY <2>1, <2>2 DEF AppendBy, ClientLocals, Born
  <2>5. SharedLocals' BY <2>1, <2>2 DEF AppendBy, SharedLocals, TypeOK, Born
  <2> QED BY <2>3, <2>4, <2>5
<1>3. CASE removePageFromDirtyPageSet(q)
  <2>1. TypeOK' BY <1>3 DEF removePageFromDirtyPageSet, TypeOK, ConsumerStates
  <2>2. ClientLocals' BY <1>3 DEF removePageFromDirtyPageSet, ClientLocals, Born
  <2>3. SharedLocals' BY <1>3 DEF removePageFromDirtyPageSet, SharedLocals, Born
  <2> QED BY <2>1, <2>2, <2>3
<1>4. CASE freePage(q)
  <2>1. TypeOK' BY <1>4 DEF freePage, TypeOK, ConsumerStates
  <2>2. ClientLocals' BY <1>4 DEF freePage, ClientLocals, Born
  <2>3. SharedLocals' BY <1>4 DEF freePage, SharedLocals, Born
  <2> QED BY <2>1, <2>2, <2>3
<1>5. CASE removePage(q)
  <2>1. TypeOK' BY <1>5 DEF removePage, TypeOK, ConsumerStates
  <2>2. ClientLocals' BY <1>5 DEF removePage, ClientLocals, Born
  <2>3. SharedLocals' BY <1>5 DEF removePage, SharedLocals, Born
  <2> QED BY <2>1, <2>2, <2>3
<1>6. CASE clearInFlush(q)
  <2>1. TypeOK' BY <1>6 DEF clearInFlush, TypeOK, ConsumerStates
  <2>2. ClientLocals' BY <1>6 DEF clearInFlush, ClientLocals, Born
  <2>3. SharedLocals' BY <1>6 DEF clearInFlush, SharedLocals, Born
  <2> QED BY <2>1, <2>2, <2>3
<1>7. CASE clearDirty(q)
  <2>1. TypeOK' BY <1>7 DEF clearDirty, TypeOK, ConsumerStates
  <2>2. ClientLocals' BY <1>7 DEF clearDirty, ClientLocals, Born
  <2>3. SharedLocals' BY <1>7 DEF clearDirty, SharedLocals, TypeOK, Born
  <2> QED BY <2>1, <2>2, <2>3
<1> QED BY <1>1, <1>2, <1>3, <1>4, <1>5, <1>6, <1>7

\* Every step keeps it.
LEMMA ShapeNext == Shape /\ [Next]_vars => Shape'
<1> SUFFICES ASSUME Shape, [Next]_vars PROVE Shape' OBVIOUS
<1>1. CASE UNCHANGED vars
  BY <1>1 DEF vars, pageVars, cacheVars, setVars, clientVars, consumerVars, Shape, TypeOK,
              ClientLocals, SharedLocals, Born
<1>2. ASSUME NEW c \in Clients, NewRequest(c) PROVE Shape'
  BY <1>2, ShapeRequests DEF NewRequest
<1>3. ASSUME NEW c \in Clients, UsePage(c) PROVE Shape' BY <1>3, ShapeRelease DEF UsePage
<1>4. ASSUME NEW c \in Clients, evictionMutexLock(c) \/ insertLoadedPage(c) \/ WriteLocked(c)
      PROVE  Shape'
  BY <1>4, ShapeLocked DEF WriteLocked
<1>5. ASSUME NEW c \in Clients, Unlocked(c) PROVE Shape'
  <2>1. CASE allocateRetry(c) BY <1>1, <2>1 DEF allocateRetry
  <2>2. CASE allocate(c) \/ allocateFails(c) \/ addPageToDirtyPageSet(c) \/ evictEnd(c)
    BY <2>2, ShapeAllocate
  <2>3. CASE \/ (\E o \in Objs : evictNext(c, o)) \/ evictClassify(c) \/ evictMark(c)
             \/ evictEnqueue(c) \/ evictReclassify(c) \/ evictFree(c)
    BY <2>3, ShapeEvict
  <2>4. CASE unlockedUnpin(c) \/ exportEvict(c) \/ flushTest(c) \/ flushMark(c) \/ flushEnqueue(c)
    BY <2>4, ShapeRelease
  <2> QED BY <1>5, <2>1, <2>2, <2>3, <2>4 DEF Unlocked
<1>6. ASSUME NEW q \in Consumers, Flush(q) PROVE Shape' BY <1>6, ShapeFlush DEF Flush
<1> QED BY <1>1, <1>2, <1>3, <1>4, <1>5, <1>6 DEF Next

-----------------------------------------------------------------------------
(* A page that is not in the file yet *)

\* Past its lookup a client that asked for a page has no object for it yet.
Allocating(c) == \/ pc[c] \in {"alloc", "evict", "scan", "evictLoop"}
                 \/ pc[c] \in EvictPage /\ how[c] = nullptr

Asks(c, k) == key[c] = k /\ pc[c] # "idle"

\* Before a page is listed as dirty, only the client that creates it knows it.
Private(k) == appended[k] = 0 /\ k \notin dirtySet

\* The client that creates a page, until it is listed as dirty.
Maker(c) == pc[c] \in {"insert", "cache", "addDirty"}

Untouched(o) ==
  /\ ~InBuffer(o)
  /\ \A q \in Consumers : qpc[q] # "pop" => cur[q] # o
  /\ \A c \in Clients : pc[c] \in OnVictim => victim[c] # o

Creating(c, k) ==
  /\ Private(k) /\ born[k] = 1
  /\ dirty[First(k)] /\ rawBytes[First(k)] /\ Untouched(First(k))
  /\ pc[c] = "addDirty" => cache[k] = First(k) /\ refCount[First(k)] = 1
  /\ pc[c] # "addDirty" => cache[k] = nullptr /\ refCount[First(k)] = 0

Listed(k) ==
  /\ born[k] = 1 /\ cache[k] = First(k) /\ dirty[First(k)] /\ rawBytes[First(k)]
  /\ \A c \in Clients : pc[c] = "reclassify" /\ victim[c] = First(k) => inFlush[First(k)]
  /\ \A c \in Clients : pc[c] = "evictFree" => victim[c] # First(k)
  /\ \A q \in Consumers : qpc[q] \in {"free", "remove", "clearFlush", "clearDirty"} => cur[q] # First(k)
  /\ \A c \in Clients : key[c] = k => ~Allocating(c)

OneCreator == \A k \in Pages : Private(k) => \A c, d \in Clients : Asks(c, k) /\ Asks(d, k) => c = d
Unborn == \A k \in Pages : born[k] = 0 =>
            Private(k) /\ refCount[First(k)] = 0 /\ \A c \in Clients : Asks(c, k) => Allocating(c)
Creators == \A c \in Clients : Maker(c) => Creating(c, key[c])
AllListed == \A k \in dirtySet : Listed(k)
Owned == \A k \in Pages : born[k] > 0 /\ Private(k) =>
           \E c \in Clients : key[c] = k /\ Maker(c)

Fresh == OneCreator /\ Unborn /\ Creators /\ AllListed /\ Owned

\* Nobody but its maker has to do with a page that is being made.
LEMMA MakerAlone ==
  ASSUME Shape, Fresh, NEW d \in Clients, Maker(d)
  PROVE  /\ key[d] \in Pages /\ key[d] \notin dirtySet /\ born[key[d]] = 1
         /\ \A c \in Clients : pc[c] \in OnVictim => victim[c] \in Objs /\ victim[c][1] # key[d]
         /\ \A q \in Consumers : qpc[q] # "pop" => cur[q] \in Objs /\ cur[q][1] # key[d]
         /\ \A c \in Clients \ {d} : pc[c] # "idle" => key[c] # key[d]
<1> USE Objects DEF Shape, Fresh
<1>1. key[d] \in Pages /\ pc[d] # "idle" BY DEF ClientLocals, Maker
<1>2. Creating(d, key[d]) BY DEF Creators
<1>3. \A o \in Objs : Born(o) /\ o[1] = key[d] => o = First(key[d]) BY <1>2 DEF Creating, Born
<1>4. \A c \in Clients : pc[c] \in OnVictim => victim[c] \in Objs /\ victim[c][1] # key[d]
  BY <1>2, <1>3 DEF Creating, Untouched, ClientLocals
<1>5. \A q \in Consumers : qpc[q] # "pop" => cur[q] \in Objs /\ cur[q][1] # key[d]
  BY <1>2, <1>3 DEF Creating, Untouched, SharedLocals
<1>6. \A c \in Clients \ {d} : pc[c] # "idle" => key[c] # key[d]
  BY <1>1, <1>2 DEF Creating, OneCreator, Asks
<1> QED BY <1>1, <1>2, <1>4, <1>5, <1>6 DEF Creating, Private

\* The one object of a page that is listed as dirty.
LEMMA ListedOnce ==
  ASSUME Shape, Fresh, NEW k \in dirtySet
  PROVE  /\ k \in Pages /\ cache[k] = First(k) /\ born[k] = 1
         /\ \A o \in Objs : Born(o) /\ o[1] = k => o = First(k)
BY Objects DEF Shape, Fresh, TypeOK, AllListed, Listed, Born

\* A step that takes no page from its maker.
LEMMA OwnedKept ==
  ASSUME Owned, UNCHANGED born, \A k \in Pages : Private(k)' => Private(k),
         \A c \in Clients : Maker(c) => Maker(c)' /\ key'[c] = key[c]
  PROVE  Owned'
BY DEF Owned

\* A request begins.
LEMMA FreshRequests ==
  ASSUME Shape, Fresh, Shape', NEW c \in Clients, NEW k \in Pages,
         getNewPage(c, k)
         \/ getPage(c, k)
         \/ iteratorNext(c, k)
  PROVE  Fresh'
<1> USE Objects DEF Shape, Fresh, pageVars, cacheVars, setVars, clientVars, consumerVars, goto
<1>1. CASE getNewPage(c, k)
  <2>1. \A y : InBuffer(y)' = InBuffer(y) BY <1>1 DEF getNewPage, Asking, InBuffer
  <2>2. OneCreator' BY <1>1, <2>1 DEF getNewPage, Asking, OneCreator, Unborn, Private, Asks, Allocating, EvictPage, TypeOK, ClientLocals
  <2>3. Unborn' BY <1>1, <2>1 DEF getNewPage, Asking, Unborn, Private, Asks, Allocating, TypeOK
  <2>4. Creators' BY <1>1, <2>1 DEF getNewPage, Asking, Creators, Maker, Creating, Private, Untouched, OnVictim, EvictPage, TypeOK
  <2>5. AllListed' BY <1>1, <2>1 DEF getNewPage, Asking, AllListed, Listed, Allocating, TypeOK
  <2>6. Owned'
    <3>1. UNCHANGED born /\ \A l \in Pages : Private(l)' => Private(l) BY <1>1, <2>1 DEF getNewPage, Asking, Private
    <3>2. \A d \in Clients : Maker(d) => Maker(d)' /\ key'[d] = key[d] BY <1>1, <2>1 DEF getNewPage, Asking, Maker, TypeOK
    <3> QED BY <3>1, <3>2, OwnedKept
  <2> QED BY <2>2, <2>3, <2>4, <2>5, <2>6
<1>2. CASE getPage(c, k)
  <2>1. /\ pc[c] = "idle" /\ pc' = [pc EXCEPT ![c] = "pin"]
        /\ key' = [key EXCEPT ![c] = k] /\ appended[k] > 0
        /\ UNCHANGED <<pageVars, cacheVars, setVars, flushBuffer, ref, victim, how, consumerVars>>
    BY <1>2 DEF getPage
  <2>2. \A y : InBuffer(y)' = InBuffer(y) BY <2>1 DEF InBuffer
  <2>3. OneCreator' BY <2>1, <2>2 DEF OneCreator, Private, Asks, TypeOK
  <2>4. Unborn' BY <2>1, <2>2 DEF Unborn, Private, Asks, Allocating, TypeOK
  <2>5. Creators' BY <2>1, <2>2 DEF Creators, Maker, Creating, Private, Untouched, OnVictim, EvictPage, TypeOK
  <2>6. AllListed' BY <2>1, <2>2 DEF AllListed, Listed, Allocating, EvictPage, TypeOK
  <2>7. Owned'
    <3>1. UNCHANGED born /\ \A l \in Pages : Private(l)' => Private(l) BY <2>1, <2>2 DEF Private
    <3>2. \A d \in Clients : Maker(d) => Maker(d)' /\ key'[d] = key[d] BY <2>1, <2>2 DEF Maker, TypeOK
    <3> QED BY <3>1, <3>2, OwnedKept
  <2> QED BY <2>3, <2>4, <2>5, <2>6, <2>7
<1>3. CASE iteratorNext(c, k)
  <2>1. /\ cache[k] = First(k) /\ \A l \in Pages : born[l] = 0 => First(l) # First(k)
        /\ \A d \in Clients : Maker(d) => key[d] \in Pages /\ First(key[d]) \in Objs \ {First(k)}
    BY <1>3, ListedOnce, MakerAlone DEF iteratorNext
  <2>2. \A y : InBuffer(y)' = InBuffer(y) BY <1>3, <2>1 DEF iteratorNext, pinObject, InBuffer
  <2>3. OneCreator' BY <1>3, <2>1, <2>2 DEF iteratorNext, pinObject, OneCreator, Private, Asks, TypeOK
  <2>4. Unborn' BY <1>3, <2>1, <2>2 DEF iteratorNext, pinObject, Unborn, Private, Asks, Allocating, TypeOK
  <2>5. Creators' BY <1>3, <2>1, <2>2 DEF iteratorNext, pinObject, Creators, Maker, Creating, Private, Untouched, OnVictim, EvictPage, TypeOK
  <2>6. AllListed' BY <1>3, <2>1, <2>2 DEF iteratorNext, pinObject, AllListed, Listed, Allocating, EvictPage, TypeOK
  <2>7. Owned'
    <3>1. UNCHANGED born /\ \A l \in Pages : Private(l)' => Private(l) BY <1>3, <2>1, <2>2 DEF iteratorNext, pinObject, Private
    <3>2. \A d \in Clients : Maker(d) => Maker(d)' /\ key'[d] = key[d] BY <1>3, <2>1, <2>2 DEF iteratorNext, pinObject, Maker, TypeOK
    <3> QED BY <3>1, <3>2, OwnedKept
  <2> QED BY <2>3, <2>4, <2>5, <2>6, <2>7
<1> QED BY <1>1, <1>2, <1>3

\* A client takes the mutex, or does what it took the locks for.
LEMMA FreshLocked ==
  ASSUME Shape, Fresh, Shape', NEW c \in Clients,
         evictionMutexLock(c)
         \/ getPageHit(c)
         \/ getPageMiss(c)
         \/ insertNewPage(c)
         \/ insertLoadedPage(c)
         \/ unpinPage(c)
         \/ evictScan(c)
  PROVE  Fresh'
<1> USE Objects DEF Shape, Fresh, pageVars, cacheVars, setVars, clientVars, consumerVars, goto, LockMove
<1>1. CASE evictionMutexLock(c)
  <2>1. PICK s : /\ pc' = [pc EXCEPT ![c] = s]
                 /\ LockMove(pc[c], s)
    BY <1>1, LockDoes
  <2>2. UNCHANGED <<pageVars, cache, evictable, setVars, flushBuffer, key, ref, victim, how, consumerVars>>
    BY <1>1, LockDoes
  <2>3. s # "idle" BY <2>1
  <2>4. \A y : InBuffer(y)' = InBuffer(y) BY <2>1, <2>2, <2>3 DEF InBuffer
  <2>5. OneCreator' BY <2>1, <2>2, <2>3, <2>4 DEF OneCreator, Private, Asks, TypeOK
  <2>6. Unborn' BY <2>1, <2>2, <2>3, <2>4 DEF Unborn, Private, Asks, Allocating, EvictPage, TypeOK
  <2>7. Creators' BY <2>1, <2>2, <2>3, <2>4 DEF Creators, Maker, Creating, Private, Untouched, OnVictim, EvictPage, TypeOK
  <2>8. AllListed' BY <2>1, <2>2, <2>3, <2>4 DEF AllListed, Listed, Allocating, EvictPage, TypeOK
  <2>9. Owned'
    <3>1. UNCHANGED born /\ \A l \in Pages : Private(l)' => Private(l) BY <2>1, <2>2, <2>3, <2>4 DEF Private
    <3>2. \A d \in Clients : Maker(d) => Maker(d)' /\ key'[d] = key[d] BY <2>1, <2>2, <2>3, <2>4 DEF Maker, TypeOK
    <3> QED BY <3>1, <3>2, OwnedKept
  <2> QED BY <2>5, <2>6, <2>7, <2>8, <2>9
<1>2. CASE getPageHit(c)
  <2>1. key[c] \in Pages
    BY <1>2 DEF getPageHit, ClientLocals
  <2>2. /\ cache[key[c]] \in Objs
        /\ \A l \in Pages : born[l] = 0 => First(l) # cache[key[c]]
        /\ \A d \in Clients : Maker(d) => key[d] \in Pages /\ First(key[d]) \in Objs \ {cache[key[c]]}
    <3>1. cache[key[c]] \in Objs /\ cache[key[c]][1] = key[c] /\ Born(cache[key[c]])
      BY <1>2, <2>1 DEF getPageHit, TypeOK, SharedLocals
    <3>2. \A d \in Clients : Maker(d) => key[d] \in Pages /\ key[d] # key[c]
      BY <1>2, MakerAlone DEF getPageHit, Maker
    <3> QED BY <3>1, <3>2 DEF Born
  <2>3. \A y : InBuffer(y)' = InBuffer(y) BY <1>2, <2>1, <2>2 DEF getPageHit, pinObject, InBuffer
  <2>4. OneCreator' BY <1>2, <2>1, <2>2, <2>3 DEF getPageHit, pinObject, OneCreator, Private, Asks, TypeOK
  <2>5. Unborn' BY <1>2, <2>1, <2>2, <2>3 DEF getPageHit, pinObject, Unborn, Private, Asks, Allocating, EvictPage, TypeOK
  <2>6. Creators' BY <1>2, <2>1, <2>2, <2>3 DEF getPageHit, pinObject, Creators, Maker, Creating, Private, Untouched, OnVictim, EvictPage, TypeOK
  <2>7. AllListed' BY <1>2, <2>1, <2>2, <2>3 DEF getPageHit, pinObject, AllListed, Listed, Allocating, EvictPage, TypeOK
  <2>8. Owned'
    <3>1. UNCHANGED born /\ \A l \in Pages : Private(l)' => Private(l) BY <1>2, <2>1, <2>2, <2>3 DEF getPageHit, pinObject, Private
    <3>2. \A d \in Clients : Maker(d) => Maker(d)' /\ key'[d] = key[d] BY <1>2, <2>1, <2>2, <2>3 DEF getPageHit, pinObject, Maker, TypeOK
    <3> QED BY <3>1, <3>2, OwnedKept
  <2> QED BY <2>4, <2>5, <2>6, <2>7, <2>8
<1>3. CASE getPageMiss(c)
  <2>1. key[c] \in Pages
    BY <1>3 DEF getPageMiss, ClientLocals
  <2>2. \A y : InBuffer(y)' = InBuffer(y) BY <1>3, <2>1 DEF getPageMiss, InBuffer
  <2>3. OneCreator' BY <1>3, <2>1, <2>2 DEF getPageMiss, OneCreator, Private, Asks, TypeOK
  <2>4. Unborn' BY <1>3, <2>1, <2>2 DEF getPageMiss, Unborn, Private, Asks, Allocating, TypeOK
  <2>5. Creators' BY <1>3, <2>1, <2>2 DEF getPageMiss, Creators, Maker, Creating, Private, Untouched, OnVictim, EvictPage, TypeOK
  <2>6. AllListed' BY <1>3, <2>1, <2>2 DEF getPageMiss, AllListed, Listed, Allocating, TypeOK
  <2>7. Owned'
    <3>1. UNCHANGED born /\ \A l \in Pages : Private(l)' => Private(l) BY <1>3, <2>1, <2>2 DEF getPageMiss, Private
    <3>2. \A d \in Clients : Maker(d) => Maker(d)' /\ key'[d] = key[d] BY <1>3, <2>1, <2>2 DEF getPageMiss, Maker, TypeOK
    <3> QED BY <3>1, <3>2, OwnedKept
  <2> QED BY <2>3, <2>4, <2>5, <2>6, <2>7
<1>4. CASE insertNewPage(c)
  <2>1. key[c] \in Pages /\ ref[c] = First(key[c]) /\ cache[key[c]] = nullptr /\ refCount[First(key[c])] = 0 /\ born[key[c]] = 1
        /\ \A l \in Pages : l # key[c] => First(l) # First(key[c])
    BY <1>4 DEF insertNewPage, ClientLocals, Creators, Creating, Maker
  <2>2. cache' = [cache EXCEPT ![key[c]] = First(key[c])]
    BY <1>4, <2>1 DEF insertNewPage, cachePage
  <2>3. \A y : InBuffer(y)' = InBuffer(y) BY <1>4, <2>1, <2>2 DEF insertNewPage, InBuffer
  <2>4. OneCreator' BY <1>4, <2>1, <2>2, <2>3 DEF insertNewPage, OneCreator, Private, Asks, TypeOK
  <2>5. Unborn' BY <1>4, <2>1, <2>2, <2>3 DEF insertNewPage, Unborn, Private, Asks, Allocating, TypeOK
  <2>6. Creators' BY <1>4, <2>1, <2>2, <2>3 DEF insertNewPage, Maker, TypeOK, ClientLocals, SharedLocals, Private, Asks, Allocating, OnVictim, EvictPage, Creators, Creating, Untouched, OneCreator
  <2>7. AllListed' BY <1>4, <2>1, <2>2, <2>3 DEF insertNewPage, AllListed, Listed, Allocating, TypeOK
  <2>8. Owned'
    <3>1. UNCHANGED born /\ \A l \in Pages : Private(l)' => Private(l) BY <1>4, <2>1, <2>2, <2>3 DEF insertNewPage, Private
    <3>2. \A d \in Clients : Maker(d) => Maker(d)' /\ key'[d] = key[d] BY <1>4, <2>1, <2>2, <2>3 DEF insertNewPage, Maker, TypeOK
    <3> QED BY <3>1, <3>2, OwnedKept
  <2> QED BY <2>4, <2>5, <2>6, <2>7, <2>8
<1>5. CASE insertLoadedPage(c)
  <2>1. key[c] \in Pages /\ ref[c] \in Objs /\ ref[c][1] = key[c] /\ Born(ref[c]) /\ ref[c][2] > 0
    BY <1>5 DEF insertLoadedPage, ClientLocals
  <2>2. PICK x \in Objs : cache' = [cache EXCEPT ![key[c]] = x] /\ x[1] = key[c] /\ Born(x)
    BY <1>5, <2>1, cachePageDoes DEF insertLoadedPage
  <2>3. \A y : InBuffer(y)' = InBuffer(y) BY <1>5, <2>1, <2>2 DEF insertLoadedPage, InBuffer
  <2>4. OneCreator' BY <1>5, <2>1, <2>2, <2>3 DEF insertLoadedPage, OneCreator, Private, Asks, TypeOK
  <2>5. Unborn' BY <1>5, <2>1, <2>2, <2>3 DEF insertLoadedPage, Unborn, Private, Asks, Allocating, EvictPage, TypeOK
  <2>6. Creators' BY <1>5, <2>1, <2>2, <2>3, SMTT(40) DEF insertLoadedPage, Maker, TypeOK, ClientLocals, SharedLocals, Private, Asks, Allocating, OnVictim, EvictPage, Creators, Creating, Untouched, OneCreator
  <2>7. AllListed' BY <1>5, <2>1, <2>2, <2>3, SMTT(40) DEF insertLoadedPage, AllListed, Listed, Allocating, OnVictim, EvictPage, Born, TypeOK, ClientLocals, SharedLocals
  <2>8. Owned'
    <3>1. UNCHANGED born /\ \A l \in Pages : Private(l)' => Private(l) BY <1>5, <2>1, <2>2, <2>3 DEF insertLoadedPage, Private
    <3>2. \A d \in Clients : Maker(d) => Maker(d)' /\ key'[d] = key[d] BY <1>5, <2>1, <2>2, <2>3 DEF insertLoadedPage, Maker, TypeOK
    <3> QED BY <3>1, <3>2, OwnedKept
  <2> QED BY <2>4, <2>5, <2>6, <2>7, <2>8
<1>6. CASE unpinPage(c)
  <2>1. key[c] \in Pages /\ decPageRefCount(key[c])
    BY <1>6 DEF unpinPage, ClientLocals
  <2>2. /\ refCount' \in [Objs -> Nat]
        /\ \A o \in Objs : refCount'[o] = IF o = cache[key[c]] /\ refCount[o] > 0 THEN refCount[o] - 1
                                          ELSE refCount[o]
    BY <2>1, decPageRefCountDoes
  <2>3. \A d \in Clients : Maker(d) =>
          key[d] \in Pages /\ key[d] # key[c] /\ First(key[d]) \in Objs /\ cache[key[c]] # First(key[d])
    <3>1. \A d \in Clients : Maker(d) => key[d] \in Pages /\ key[d] # key[c]
      BY <1>6, MakerAlone DEF unpinPage, Maker
    <3>2. cache[key[c]] # nullptr => cache[key[c]][1] = key[c] BY <2>1 DEF SharedLocals
    <3> QED BY <3>1, <3>2
  <2>4. \A y : InBuffer(y)' = InBuffer(y) BY <1>6, <2>1, <2>2, <2>3 DEF unpinPage, done, InBuffer
  <2>5. OneCreator' BY <1>6, <2>1, <2>2, <2>3, <2>4 DEF unpinPage, done, OneCreator, Private, Asks, TypeOK
  <2>6. Unborn' BY <1>6, <2>1, <2>2, <2>3, <2>4 DEF unpinPage, done, Unborn, Private, Asks, Allocating, TypeOK
  <2>7. Creators' BY <1>6, <2>1, <2>2, <2>3, <2>4 DEF unpinPage, done, Creators, Maker, Creating, Private, Untouched, OnVictim, EvictPage, TypeOK
  <2>8. AllListed' BY <1>6, <2>1, <2>2, <2>3, <2>4 DEF unpinPage, done, AllListed, Listed, Allocating, EvictPage, TypeOK
  <2>9. Owned'
    <3>1. UNCHANGED born /\ \A l \in Pages : Private(l)' => Private(l) BY <1>6, <2>1, <2>2, <2>3, <2>4 DEF unpinPage, done, Private
    <3>2. \A d \in Clients : Maker(d) => Maker(d)' /\ key'[d] = key[d] BY <1>6, <2>1, <2>2, <2>3, <2>4 DEF unpinPage, done, Maker, TypeOK
    <3> QED BY <3>1, <3>2, OwnedKept
  <2> QED BY <2>5, <2>6, <2>7, <2>8, <2>9
<1>7. CASE evictScan(c)
  <2>1. \A y : InBuffer(y)' = InBuffer(y) BY <1>7 DEF evictScan, InBuffer
  <2>2. OneCreator' BY <1>7, <2>1 DEF evictScan, OneCreator, Private, Asks, TypeOK
  <2>3. Unborn' BY <1>7, <2>1 DEF evictScan, Unborn, Private, Asks, Allocating, TypeOK
  <2>4. Creators' BY <1>7, <2>1 DEF evictScan, Creators, Maker, Creating, Private, Untouched, OnVictim, EvictPage, TypeOK
  <2>5. AllListed' BY <1>7, <2>1 DEF evictScan, AllListed, Listed, Allocating, TypeOK
  <2>6. Owned'
    <3>1. UNCHANGED born /\ \A l \in Pages : Private(l)' => Private(l) BY <1>7, <2>1 DEF evictScan, Private
    <3>2. \A d \in Clients : Maker(d) => Maker(d)' /\ key'[d] = key[d] BY <1>7, <2>1 DEF evictScan, Maker, TypeOK
    <3> QED BY <3>1, <3>2, OwnedKept
  <2> QED BY <2>2, <2>3, <2>4, <2>5, <2>6
<1> QED BY <1>1, <1>2, <1>3, <1>4, <1>5, <1>6, <1>7

\* A client allocates.
LEMMA FreshAllocate ==
  ASSUME Shape, Fresh, Shape', NEW c \in Clients,
         allocate(c)
         \/ allocateFails(c)
         \/ addPageToDirtyPageSet(c)
         \/ evictEnd(c)
  PROVE  Fresh'
<1> USE Objects DEF Shape, Fresh, pageVars, cacheVars, setVars, clientVars, consumerVars, goto
<1>1. CASE allocate(c)
  <2>1. PICK o \in Objs, s \in {"insert", "insertLoaded"} : AllocateBy(c, o, s)
    BY <1>1, allocateDoes
  <2>2. \A y : InBuffer(y)' = InBuffer(y) BY <2>1 DEF AllocateBy, InBuffer
  <2>3. OneCreator' BY <2>1, <2>2 DEF AllocateBy, OneCreator, Private, Asks, TypeOK
  <2>4. Unborn' BY <2>1, <2>2 DEF AllocateBy, Unborn, Private, Asks, Allocating, TypeOK
  <2>5. Creators'
    <3>1. \A d \in Clients : Maker(d) => d # c /\ key[d] \in Pages /\ key[d] # key[c] /\ o # First(key[d])
      BY <2>1, MakerAlone DEF AllocateBy, Maker
    <3>2. \A x \in Objs : Untouched(x) => Untouched(x)'
      BY <2>1, <2>2 DEF AllocateBy, Untouched, OnVictim, EvictPage, TypeOK
    <3>3. ASSUME NEW d \in Clients, Maker(d) PROVE Creating(d, key[d])'
      <4>1. Creating(d, key[d]) BY <3>3 DEF Creators
      <4> QED BY <2>1, <3>1, <3>2, <3>3, <4>1 DEF AllocateBy, Creating, Private, TypeOK
    <3>4. ASSUME s = "insert" PROVE Creating(c, key[c])'
      <4>1. key[c] \in Pages /\ born[key[c]] = 0 /\ o = First(key[c]) BY <2>1, <3>4 DEF AllocateBy
      <4>2. Private(key[c]) /\ refCount[o] = 0 BY <4>1 DEF Unborn
      <4>3. ~Born(o) BY <4>1 DEF Born
      <4>4. cache[key[c]] = nullptr
        <5>1. cache[key[c]] # nullptr => cache[key[c]] \in Objs /\ cache[key[c]][2] < 0
          <6>1. cache[key[c]] # nullptr => cache[key[c]] \in Objs BY <4>1 DEF TypeOK
          <6>2. cache[key[c]] # nullptr => cache[key[c]][1] = key[c] /\ Born(cache[key[c]])
            BY <4>1 DEF SharedLocals
          <6> QED BY <4>1, <6>1, <6>2 DEF Born
        <5> QED BY <5>1
      <4>5. Untouched(o) BY <4>3 DEF Untouched, InBuffer, ClientLocals, SharedLocals
      <4>6. /\ pc'[c] = "insert" /\ born'[key[c]] = 1 /\ dirty'[o] /\ rawBytes'[o]
            /\ UNCHANGED <<key, cache, refCount, appended, dirtySet>>
        <5>1. pc' = [pc EXCEPT ![c] = "insert"] /\ born' = [born EXCEPT ![key[c]] = @ + 1]
          BY <2>1, <3>4 DEF AllocateBy
        <5>2. dirty' = [dirty EXCEPT ![o] = TRUE] /\ rawBytes' = [rawBytes EXCEPT ![o] = TRUE]
          BY <2>1, <4>1 DEF AllocateBy
        <5>3. pc'[c] = "insert" /\ born'[key[c]] = 1 BY <4>1, <5>1 DEF TypeOK
        <5>4. dirty'[o] /\ rawBytes'[o] BY <5>2 DEF TypeOK
        <5> QED BY <2>1, <5>3, <5>4 DEF AllocateBy
      <4> QED BY <3>2, <4>1, <4>2, <4>4, <4>5, <4>6 DEF Creating, Private
    <3>5. \A d \in Clients : Maker(d)' => key'[d] = key[d] /\ (Maker(d) \/ (d = c /\ s = "insert"))
      <4>1. s \in {"insert", "insertLoaded"} /\ pc' = [pc EXCEPT ![c] = s] /\ key' = key
        BY <2>1 DEF AllocateBy
      <4>2. \A d \in Clients : pc'[d] = IF d = c THEN s ELSE pc[d] BY <4>1 DEF TypeOK
      <4>3. \A d \in Clients : Maker(d)' => Maker(d) \/ (d = c /\ s = "insert")
        BY <4>1, <4>2, Zenon DEF Maker
      <4> QED BY <4>1, <4>3
    <3> QED BY <3>3, <3>4, <3>5 DEF Creators
  <2>6. AllListed' BY <2>1, <2>2 DEF AllocateBy, AllListed, Listed, Allocating, TypeOK
  <2>7. Owned'
    <3>1. \A l \in Pages : Private(l)' <=> Private(l) BY <2>1 DEF AllocateBy, Private
    <3>2. \A d \in Clients : Maker(d) => d # c /\ Maker(d)' /\ key'[d] = key[d]
      BY <2>1 DEF AllocateBy, Maker, TypeOK
    <3>3. ASSUME NEW l \in Pages, born'[l] > 0, Private(l)
          PROVE  \E d \in Clients : key'[d] = l /\ Maker(d)'
      <4>1. CASE born[l] > 0 BY <3>2, <3>3, <4>1 DEF Owned
      <4>2. CASE born[l] = 0
        <5>1. key'[c] = l /\ s = "insert" BY <2>1, <3>3, <4>2 DEF AllocateBy, TypeOK
        <5> QED BY <2>1, <5>1 DEF AllocateBy, Maker, TypeOK
      <4> QED BY <4>1, <4>2 DEF TypeOK
    <3> QED BY <3>1, <3>3 DEF Owned
  <2> QED BY <2>3, <2>4, <2>5, <2>6, <2>7
<1>2. CASE allocateFails(c)
  <2>1. \A y : InBuffer(y)' = InBuffer(y) BY <1>2 DEF allocateFails, InBuffer
  <2>2. OneCreator' BY <1>2, <2>1 DEF allocateFails, OneCreator, Private, Asks, TypeOK
  <2>3. Unborn' BY <1>2, <2>1 DEF allocateFails, Unborn, Private, Asks, Allocating, TypeOK
  <2>4. Creators' BY <1>2, <2>1 DEF allocateFails, Creators, Maker, Creating, Private, Untouched, OnVictim, EvictPage, TypeOK
  <2>5. AllListed' BY <1>2, <2>1 DEF allocateFails, AllListed, Listed, Allocating, TypeOK
  <2>6. Owned'
    <3>1. UNCHANGED born /\ \A l \in Pages : Private(l)' => Private(l) BY <1>2, <2>1 DEF allocateFails, Private
    <3>2. \A d \in Clients : Maker(d) => Maker(d)' /\ key'[d] = key[d] BY <1>2, <2>1 DEF allocateFails, Maker, TypeOK
    <3> QED BY <3>1, <3>2, OwnedKept
  <2> QED BY <2>2, <2>3, <2>4, <2>5, <2>6
<1>3. CASE addPageToDirtyPageSet(c)
  <2>1. key[c] \in Pages
    BY <1>3 DEF addPageToDirtyPageSet, ClientLocals
  <2>2. \A y : InBuffer(y)' = InBuffer(y) BY <1>3, <2>1 DEF addPageToDirtyPageSet, InBuffer
  <2>3. OneCreator' BY <1>3, <2>1, <2>2 DEF addPageToDirtyPageSet, OneCreator, Private, Asks, TypeOK
  <2>4. Unborn' BY <1>3, <2>1, <2>2 DEF addPageToDirtyPageSet, Unborn, Private, Asks, Allocating, EvictPage, TypeOK
  <2>5. Creators' BY <1>3, <2>1, <2>2 DEF addPageToDirtyPageSet, Maker, TypeOK, ClientLocals, SharedLocals, Private, Asks, Allocating, OnVictim, EvictPage, Creators, Creating, Untouched, OneCreator
  <2>6. AllListed'
    <3>1. Creating(c, key[c]) /\ pc[c] = "addDirty" BY <1>3 DEF addPageToDirtyPageSet, Creators, Maker
    <3>2. \A d \in Clients : key'[d] = key[c] => ~Allocating(d)'
      <4>1. \A d \in Clients \ {c} : key[d] = key[c] => pc[d] = "idle"
        BY <1>3, MakerAlone DEF addPageToDirtyPageSet, Maker
      <4> QED BY <1>3, <4>1 DEF addPageToDirtyPageSet, Allocating, EvictPage, TypeOK
    <3>3. Listed(key[c])'
      BY <1>3, <2>1, <3>1, <3>2 DEF addPageToDirtyPageSet, Creating, Untouched, OnVictim, EvictPage, Listed, TypeOK
    <3>4. ASSUME NEW l \in dirtySet PROVE Listed(l)'
      <4>1. Listed(l) BY DEF AllListed
      <4> QED BY <1>3, <4>1 DEF addPageToDirtyPageSet, Listed, Allocating, EvictPage, TypeOK
    <3> QED BY <1>3, <3>3, <3>4 DEF addPageToDirtyPageSet, AllListed
  <2>7. Owned'
    <3>1. UNCHANGED born /\ \A l \in Pages : Private(l)' => Private(l) BY <1>3, <2>1, <2>2 DEF addPageToDirtyPageSet, Private
    <3>2. \A d \in Clients : Maker(d) /\ d # c => Maker(d)' /\ key'[d] = key[d]
      BY <1>3 DEF addPageToDirtyPageSet, Maker, TypeOK
    <3>3. \A l \in Pages : Private(l)' => l # key[c] BY <1>3 DEF addPageToDirtyPageSet, Private
    <3> QED BY <3>1, <3>2, <3>3 DEF Owned
  <2> QED BY <2>3, <2>4, <2>5, <2>6, <2>7
<1>4. CASE evictEnd(c)
  <2>1. \A y : InBuffer(y)' = InBuffer(y) BY <1>4 DEF evictEnd, InBuffer
  <2>2. OneCreator' BY <1>4, <2>1 DEF evictEnd, OneCreator, Private, Asks, TypeOK
  <2>3. Unborn' BY <1>4, <2>1 DEF evictEnd, Unborn, Private, Asks, Allocating, TypeOK
  <2>4. Creators' BY <1>4, <2>1 DEF evictEnd, Creators, Maker, Creating, Private, Untouched, OnVictim, EvictPage, TypeOK
  <2>5. AllListed' BY <1>4, <2>1 DEF evictEnd, AllListed, Listed, Allocating, TypeOK
  <2>6. Owned'
    <3>1. UNCHANGED born /\ \A l \in Pages : Private(l)' => Private(l) BY <1>4, <2>1 DEF evictEnd, Private
    <3>2. \A d \in Clients : Maker(d) => Maker(d)' /\ key'[d] = key[d] BY <1>4, <2>1 DEF evictEnd, Maker, TypeOK
    <3> QED BY <3>1, <3>2, OwnedKept
  <2> QED BY <2>2, <2>3, <2>4, <2>5, <2>6
<1> QED BY <1>1, <1>2, <1>3, <1>4

\* A client evicts.
LEMMA FreshEvict ==
  ASSUME Shape, Fresh, Shape', NEW c \in Clients,
         (\E o \in Objs : evictNext(c, o))
         \/ evictClassify(c)
         \/ evictMark(c)
         \/ evictReclassify(c)
         \/ evictFree(c)
  PROVE  Fresh'
<1> USE Objects DEF Shape, Fresh, pageVars, cacheVars, setVars, clientVars, consumerVars, goto
<1>1. CASE (\E o \in Objs : evictNext(c, o))
  <2>0. PICK o \in Objs : evictNext(c, o) BY <1>1
  <2>1. PICK s, v : EvictNextBy(c, o, s, v) BY <2>0, evictNextDoes
  <2>2. s = "classify" => v \in Objs /\ Born(v) /\ cache[v[1]] = v /\ refCount[v] = 0
    BY <2>1 DEF EvictNextBy, CanEvict, TypeOK, SharedLocals
  <2>3. how[c] = nullptr
    BY <2>1 DEF EvictNextBy, ClientLocals, OnVictim, EvictPage
  <2>4. \A y : InBuffer(y)' = InBuffer(y) BY <2>1, <2>2, <2>3 DEF EvictNextBy, InBuffer
  <2>5. OneCreator' BY <2>1, <2>2, <2>3, <2>4 DEF EvictNextBy, OneCreator, Private, Asks, TypeOK
  <2>6. Unborn' BY <2>1, <2>2, <2>3, <2>4 DEF EvictNextBy, Unborn, Private, Asks, Allocating, EvictPage, TypeOK
  <2>7. Creators' BY <2>1, <2>2, <2>3, <2>4 DEF EvictNextBy, Creators, Maker, Creating, Private, Untouched, OnVictim, EvictPage, TypeOK, ClientLocals, SharedLocals
  <2>8. AllListed' BY <2>1, <2>2, <2>3, <2>4 DEF EvictNextBy, AllListed, Listed, Allocating, TypeOK
  <2>9. Owned'
    <3>1. UNCHANGED born /\ \A l \in Pages : Private(l)' => Private(l) BY <2>1, <2>2, <2>3, <2>4 DEF EvictNextBy, Private
    <3>2. \A d \in Clients : Maker(d) => Maker(d)' /\ key'[d] = key[d] BY <2>1, <2>2, <2>3, <2>4 DEF EvictNextBy, Maker, TypeOK
    <3> QED BY <3>1, <3>2, OwnedKept
  <2> QED BY <2>5, <2>6, <2>7, <2>8, <2>9
<1>2. CASE evictClassify(c)
  <2>1. \A y : InBuffer(y)' = InBuffer(y) BY <1>2 DEF evictClassify, InBuffer
  <2>2. OneCreator' BY <1>2, <2>1 DEF evictClassify, OneCreator, Private, Asks, TypeOK
  <2>3. Unborn' BY <1>2, <2>1 DEF evictClassify, Unborn, Private, Asks, Allocating, EvictPage, TypeOK
  <2>4. Creators' BY <1>2, <2>1 DEF evictClassify, Creators, Maker, Creating, Private, Untouched, OnVictim, EvictPage, TypeOK
  <2>5. AllListed' BY <1>2, <2>1 DEF evictClassify, AllListed, Listed, Allocating, EvictPage, TypeOK
  <2>6. Owned'
    <3>1. UNCHANGED born /\ \A l \in Pages : Private(l)' => Private(l) BY <1>2, <2>1 DEF evictClassify, Private
    <3>2. \A d \in Clients : Maker(d) => Maker(d)' /\ key'[d] = key[d] BY <1>2, <2>1 DEF evictClassify, Maker, TypeOK
    <3> QED BY <3>1, <3>2, OwnedKept
  <2> QED BY <2>2, <2>3, <2>4, <2>5, <2>6
<1>3. CASE evictMark(c)
  <2>1. victim[c] \in Objs /\ victim[c][1] \in Pages /\ Born(victim[c])
    BY <1>3 DEF evictMark, ClientLocals, OnVictim, EvictPage
  <2>2. \A y : InBuffer(y)' = InBuffer(y) BY <1>3, <2>1 DEF evictMark, InBuffer
  <2>3. OneCreator' BY <1>3, <2>1, <2>2 DEF evictMark, OneCreator, Private, Asks, TypeOK
  <2>4. Unborn' BY <1>3, <2>1, <2>2 DEF evictMark, Unborn, Private, Asks, Allocating, EvictPage, TypeOK
  <2>5. Creators' BY <1>3, <2>1, <2>2 DEF evictMark, Creators, Maker, Creating, Private, Untouched, OnVictim, EvictPage, TypeOK
  <2>6. AllListed' BY <1>3, <2>1, <2>2 DEF evictMark, AllListed, Listed, Allocating, EvictPage, TypeOK
  <2>7. Owned'
    <3>1. UNCHANGED born /\ \A l \in Pages : Private(l)' => Private(l) BY <1>3, <2>1, <2>2 DEF evictMark, Private
    <3>2. \A d \in Clients : Maker(d) => Maker(d)' /\ key'[d] = key[d] BY <1>3, <2>1, <2>2 DEF evictMark, Maker, TypeOK
    <3> QED BY <3>1, <3>2, OwnedKept
  <2> QED BY <2>3, <2>4, <2>5, <2>6, <2>7
<1>4. CASE evictReclassify(c) /\ evictPageReturn(c)
  <2>1. victim[c] \in Objs /\ victim[c][1] \in Pages /\ Born(victim[c])
    BY <1>4 DEF evictReclassify, ClientLocals, OnVictim, EvictPage
  <2>2. /\ pc[c] = "reclassify"
        /\ UNCHANGED <<refCount, dirty, inFlush, rawBytes, cacheVars, setVars, flushBuffer,
                       key, consumerVars>>
    BY <1>4, <2>1, evictReclassifyDoes DEF TypeOK
  <2>3. PICK s, r : ReturnBy(c, s, r)
    BY <1>4, evictPageReturnDoes
  <2>4. \A y : InBuffer(y)' = InBuffer(y) BY <2>1, <2>2, <2>3 DEF ReturnBy, InBuffer
  <2>5. OneCreator' BY <2>1, <2>2, <2>3, <2>4 DEF ReturnBy, OneCreator, Private, Asks, TypeOK
  <2>6. Unborn' BY <2>1, <2>2, <2>3, <2>4 DEF ReturnBy, Unborn, Private, Asks, Allocating, TypeOK
  <2>7. Creators' BY <2>1, <2>2, <2>3, <2>4 DEF ReturnBy, Creators, Maker, Creating, Private, Untouched, OnVictim, EvictPage, TypeOK
  <2>8. AllListed' BY <2>1, <2>2, <2>3, <2>4 DEF ReturnBy, AllListed, Listed, Allocating, EvictPage, TypeOK
  <2>9. Owned'
    <3>1. UNCHANGED born /\ \A l \in Pages : Private(l)' => Private(l) BY <2>1, <2>2, <2>3, <2>4 DEF ReturnBy, Private
    <3>2. \A d \in Clients : Maker(d) => Maker(d)' /\ key'[d] = key[d] BY <2>1, <2>2, <2>3, <2>4 DEF ReturnBy, Maker, TypeOK
    <3> QED BY <3>1, <3>2, OwnedKept
  <2> QED BY <2>5, <2>6, <2>7, <2>8, <2>9
<1>5. CASE evictReclassify(c) /\ ~evictPageReturn(c)
  <2>1. /\ pc[c] = "reclassify" /\ pc' = [pc EXCEPT ![c] = "evictFree"] /\ ~inFlush[victim[c]]
        /\ UNCHANGED <<pageVars, cacheVars, setVars, flushBuffer, key, ref, victim, how,
                       consumerVars>>
    BY <1>5, evictReclassifyDoes
  <2>2. \A y : InBuffer(y)' = InBuffer(y) BY <2>1 DEF InBuffer
  <2>3. OneCreator' BY <2>1, <2>2 DEF OneCreator, Private, Asks, TypeOK
  <2>4. Unborn' BY <2>1, <2>2 DEF Unborn, Private, Asks, Allocating, EvictPage, TypeOK
  <2>5. Creators' BY <2>1, <2>2 DEF Creators, Maker, Creating, Private, Untouched, OnVictim, EvictPage, TypeOK
  <2>6. AllListed' BY <2>1, <2>2 DEF AllListed, Listed, Allocating, EvictPage, TypeOK
  <2>7. Owned'
    <3>1. UNCHANGED born /\ \A l \in Pages : Private(l)' => Private(l) BY <2>1, <2>2 DEF Private
    <3>2. \A d \in Clients : Maker(d) => Maker(d)' /\ key'[d] = key[d] BY <2>1, <2>2 DEF Maker, TypeOK
    <3> QED BY <3>1, <3>2, OwnedKept
  <2> QED BY <2>3, <2>4, <2>5, <2>6, <2>7
<1>6. CASE evictFree(c)
  <2>1. victim[c] \in Objs /\ victim[c][1] \in Pages /\ Born(victim[c])
    BY <1>6 DEF evictFree, ClientLocals, OnVictim, EvictPage
  <2>2. /\ pc[c] = "evictFree"
        /\ rawBytes' = [rawBytes EXCEPT ![victim[c]] = FALSE]
        /\ cache' = [cache EXCEPT ![victim[c][1]] = nullptr]
        /\ UNCHANGED <<refCount, dirty, inFlush, inEviction, evictionMutex, evicting, evictable,
                       setVars, flushBuffer, key, consumerVars>>
    BY <1>6 DEF evictFree
  <2>3. PICK s, r : ReturnBy(c, s, r)
    BY <1>6, evictPageReturnDoes DEF evictFree
  <2>4. \A d \in Clients : Maker(d) => key[d] \in Pages /\ key[d] # victim[c][1]
    BY <1>6, MakerAlone DEF evictFree, OnVictim, EvictPage
  <2>5. \A y : InBuffer(y)' = InBuffer(y) BY <2>1, <2>2, <2>3, <2>4 DEF ReturnBy, InBuffer
  <2>6. OneCreator' BY <2>1, <2>2, <2>3, <2>4, <2>5 DEF ReturnBy, OneCreator, Private, Asks, TypeOK
  <2>7. Unborn' BY <2>1, <2>2, <2>3, <2>4, <2>5 DEF ReturnBy, Unborn, Private, Asks, Allocating, TypeOK
  <2>8. Creators' BY <2>1, <2>2, <2>3, <2>4, <2>5 DEF ReturnBy, Creators, Maker, Creating, Private, Untouched, TypeOK
  <2>9. AllListed' BY <2>1, <2>2, <2>3, <2>4, <2>5, SMTT(40) DEF ReturnBy, AllListed, Listed, Allocating, OnVictim, EvictPage, Born, TypeOK, ClientLocals, SharedLocals
  <2>10. Owned'
    <3>1. UNCHANGED born /\ \A l \in Pages : Private(l)' => Private(l) BY <2>1, <2>2, <2>3, <2>4, <2>5 DEF ReturnBy, Private
    <3>2. \A d \in Clients : Maker(d) => Maker(d)' /\ key'[d] = key[d] BY <2>1, <2>2, <2>3, <2>4, <2>5 DEF ReturnBy, Maker, TypeOK
    <3> QED BY <3>1, <3>2, OwnedKept
  <2> QED BY <2>6, <2>7, <2>8, <2>9, <2>10
<1> QED BY <1>1, <1>2, <1>3, <1>4, <1>5, <1>6

\* A client puts a page into the flush buffer.
LEMMA FreshEnqueue ==
  ASSUME Shape, Fresh, Shape', NEW c \in Clients,
         evictEnqueue(c)
         \/ flushEnqueue(c)
  PROVE  Fresh'
<1> USE Objects DEF Shape, Fresh, pageVars, cacheVars, setVars, clientVars, consumerVars, goto
<1>1. CASE evictEnqueue(c)
  <2>1. victim[c] \in Objs /\ victim[c][1] \in Pages /\ Born(victim[c])
    BY <1>1 DEF evictEnqueue, ClientLocals, OnVictim, EvictPage
  <2>2. /\ pc[c] = "enqueue" /\ Len(flushBuffer) < FlushCap
        /\ flushBuffer' = Append(flushBuffer, victim[c])
        /\ UNCHANGED <<pageVars, cacheVars, setVars, key, consumerVars>>
    BY <1>1 DEF evictEnqueue
  <2>3. \A o : InBuffer(o)' <=> InBuffer(o) \/ o = victim[c]
    BY <2>1, <2>2, EnqueueDoes DEF InBuffer
  <2>4. PICK s, r : ReturnBy(c, s, r)
    BY <1>1, evictPageReturnDoes DEF evictEnqueue
  <2>5. OneCreator' BY <2>1, <2>2, <2>3, <2>4 DEF ReturnBy, OneCreator, Private, Asks, TypeOK
  <2>6. Unborn' BY <2>1, <2>2, <2>3, <2>4 DEF ReturnBy, Unborn, Private, Asks, Allocating, TypeOK
  <2>7. Creators' BY <2>1, <2>2, <2>3, <2>4 DEF ReturnBy, Creators, Maker, Creating, Private, Untouched, OnVictim, EvictPage, TypeOK
  <2>8. AllListed' BY <2>1, <2>2, <2>3, <2>4 DEF ReturnBy, AllListed, Listed, Allocating, EvictPage, TypeOK
  <2>9. Owned'
    <3>1. UNCHANGED born /\ \A l \in Pages : Private(l)' => Private(l) BY <2>1, <2>2, <2>3, <2>4 DEF ReturnBy, Private
    <3>2. \A d \in Clients : Maker(d) => Maker(d)' /\ key'[d] = key[d] BY <2>1, <2>2, <2>3, <2>4 DEF ReturnBy, Maker, TypeOK
    <3> QED BY <3>1, <3>2, OwnedKept
  <2> QED BY <2>5, <2>6, <2>7, <2>8, <2>9
<1>2. CASE flushEnqueue(c)
  <2>1. victim[c] \in Objs /\ victim[c][1] \in Pages /\ Born(victim[c])
    BY <1>2 DEF flushEnqueue, ClientLocals, OnVictim, EvictPage
  <2>2. /\ pc[c] = "flushEnqueue" /\ Len(flushBuffer) < FlushCap
        /\ flushBuffer' = Append(flushBuffer, victim[c])
        /\ pc' = [pc EXCEPT ![c] = "idle"] /\ victim' = [victim EXCEPT ![c] = nullptr]
        /\ ref' = [ref EXCEPT ![c] = nullptr] /\ how' = [how EXCEPT ![c] = nullptr]
        /\ UNCHANGED <<pageVars, cacheVars, setVars, key, consumerVars>>
    BY <1>2 DEF flushEnqueue, done
  <2>3. \A o : InBuffer(o)' <=> InBuffer(o) \/ o = victim[c]
    BY <2>1, <2>2, EnqueueDoes DEF InBuffer
  <2>4. OneCreator' BY <2>1, <2>2, <2>3 DEF OneCreator, Private, Asks, TypeOK
  <2>5. Unborn' BY <2>1, <2>2, <2>3 DEF Unborn, Private, Asks, Allocating, TypeOK
  <2>6. Creators' BY <2>1, <2>2, <2>3 DEF Creators, Maker, Creating, Private, Untouched, OnVictim, EvictPage, TypeOK
  <2>7. AllListed' BY <2>1, <2>2, <2>3 DEF AllListed, Listed, Allocating, EvictPage, TypeOK
  <2>8. Owned'
    <3>1. UNCHANGED born /\ \A l \in Pages : Private(l)' => Private(l) BY <2>1, <2>2, <2>3 DEF Private
    <3>2. \A d \in Clients : Maker(d) => Maker(d)' /\ key'[d] = key[d] BY <2>1, <2>2, <2>3 DEF Maker, TypeOK
    <3> QED BY <3>1, <3>2, OwnedKept
  <2> QED BY <2>4, <2>5, <2>6, <2>7, <2>8
<1> QED BY <1>1, <1>2

\* A client gives its page up.
LEMMA FreshRelease ==
  ASSUME Shape, Fresh, Shape', NEW c \in Clients,
         (\E h \in ReleaseKinds : release(c, h))
         \/ unlockedUnpin(c)
         \/ exportEvict(c) \/ flushTest(c)
         \/ flushMark(c)
  PROVE  Fresh'
<1> USE Objects DEF Shape, Fresh, pageVars, cacheVars, setVars, clientVars, consumerVars, goto
<1>1. CASE (\E h \in ReleaseKinds : release(c, h))
  <2>1. \A y : InBuffer(y)' = InBuffer(y) BY <1>1 DEF release, InBuffer
  <2>2. OneCreator' BY <1>1, <2>1 DEF release, OneCreator, Private, Asks, TypeOK
  <2>3. Unborn' BY <1>1, <2>1 DEF release, Unborn, Private, Asks, Allocating, EvictPage, TypeOK
  <2>4. Creators' BY <1>1, <2>1 DEF release, Creators, Maker, Creating, Private, Untouched, OnVictim, EvictPage, TypeOK
  <2>5. AllListed' BY <1>1, <2>1 DEF release, AllListed, Listed, Allocating, TypeOK
  <2>6. Owned'
    <3>1. UNCHANGED born /\ \A l \in Pages : Private(l)' => Private(l) BY <1>1, <2>1 DEF release, Private
    <3>2. \A d \in Clients : Maker(d) => Maker(d)' /\ key'[d] = key[d] BY <1>1, <2>1 DEF release, Maker, TypeOK
    <3> QED BY <3>1, <3>2, OwnedKept
  <2> QED BY <2>2, <2>3, <2>4, <2>5, <2>6
<1>2. CASE unlockedUnpin(c)
  <2>1. /\ pc[c] = "decRef" /\ decPageRefCount(key[c]) /\ key[c] \in Pages
        /\ UNCHANGED <<dirty, inFlush, inEviction, rawBytes, cacheVars, setVars, flushBuffer,
                       key, victim, consumerVars>>
    BY <1>2, unlockedUnpinDoes DEF ClientLocals
  <2>2. /\ refCount' \in [Objs -> Nat]
        /\ \A o \in Objs : refCount'[o] = IF o = cache[key[c]] /\ refCount[o] > 0 THEN refCount[o] - 1
                                          ELSE refCount[o]
    BY <2>1, decPageRefCountDoes
  <2>3. PICK s, r, h : UnpinBy(c, s, r, h)
    BY <1>2, unlockedUnpinDoes
  <2>4. \A d \in Clients : Maker(d) =>
          key[d] \in Pages /\ key[d] # key[c] /\ First(key[d]) \in Objs /\ cache[key[c]] # First(key[d])
    <3>1. \A d \in Clients : Maker(d) => key[d] \in Pages /\ key[d] # key[c]
      BY <1>2, MakerAlone DEF unlockedUnpin, Maker
    <3>2. cache[key[c]] # nullptr => cache[key[c]][1] = key[c] BY <2>1 DEF SharedLocals
    <3> QED BY <3>1, <3>2
  <2>5. \A y : InBuffer(y)' = InBuffer(y) BY <2>1, <2>2, <2>3, <2>4 DEF UnpinBy, InBuffer
  <2>6. OneCreator' BY <2>1, <2>2, <2>3, <2>4, <2>5 DEF UnpinBy, OneCreator, Private, Asks, TypeOK
  <2>7. Unborn' BY <2>1, <2>2, <2>3, <2>4, <2>5 DEF UnpinBy, Unborn, Private, Asks, Allocating, EvictPage, TypeOK
  <2>8. Creators' BY <2>1, <2>2, <2>3, <2>4, <2>5 DEF UnpinBy, Creators, Maker, Creating, Private, Untouched, OnVictim, EvictPage, TypeOK
  <2>9. AllListed' BY <2>1, <2>2, <2>3, <2>4, <2>5, SMTT(40) DEF UnpinBy, AllListed, Listed, Allocating, EvictPage, TypeOK
  <2>10. Owned'
    <3>1. UNCHANGED born /\ \A l \in Pages : Private(l)' => Private(l) BY <2>1, <2>2, <2>3, <2>4, <2>5 DEF UnpinBy, Private
    <3>2. \A d \in Clients : Maker(d) => Maker(d)' /\ key'[d] = key[d] BY <2>1, <2>2, <2>3, <2>4, <2>5 DEF UnpinBy, Maker, TypeOK
    <3> QED BY <3>1, <3>2, OwnedKept
  <2> QED BY <2>6, <2>7, <2>8, <2>9, <2>10
<1>3. CASE exportEvict(c) \/ flushTest(c)
  <2>1. PICK s, r, h, v : PickBy(c, s, r, h, v)
    BY <1>3, PickDoes
  <2>2. key[c] \in Pages /\ (s \in OnVictim => v \in Objs /\ Born(v) /\ v[1] = key[c]) /\ (s = "classify" => how[c] # nullptr)
    <3>1. key[c] \in Pages BY <2>1 DEF PickBy, ClientLocals
    <3>2. s = "classify" => how[c] = "export" BY <2>1 DEF PickBy, ClientLocals
    <3>3. s \in OnVictim => v \in Objs /\ Born(v) /\ v[1] = key[c]
      BY <2>1, <3>1 DEF PickBy, TypeOK, SharedLocals, OnVictim, EvictPage
    <3> QED BY <3>1, <3>2, <3>3 DEF ReleaseKinds
  <2>3. \A y : InBuffer(y)' = InBuffer(y) BY <2>1, <2>2 DEF PickBy, InBuffer
  <2>4. OneCreator' BY <2>1, <2>2, <2>3 DEF PickBy, OneCreator, Private, Asks, TypeOK
  <2>5. Unborn' BY <2>1, <2>2, <2>3 DEF PickBy, Unborn, Private, Asks, Allocating, EvictPage, TypeOK
  <2>6. Creators' BY <2>1, <2>2, <2>3 DEF PickBy, Maker, TypeOK, ClientLocals, SharedLocals, Private, Asks, Allocating, OnVictim, EvictPage, Creators, Creating, Untouched, OneCreator
  <2>7. AllListed' BY <2>1, <2>2, <2>3 DEF PickBy, AllListed, Listed, Allocating, EvictPage, TypeOK
  <2>8. Owned'
    <3>1. UNCHANGED born /\ \A l \in Pages : Private(l)' => Private(l) BY <2>1, <2>2, <2>3 DEF PickBy, Private
    <3>2. \A d \in Clients : Maker(d) => Maker(d)' /\ key'[d] = key[d] BY <2>1, <2>2, <2>3 DEF PickBy, Maker, TypeOK
    <3> QED BY <3>1, <3>2, OwnedKept
  <2> QED BY <2>4, <2>5, <2>6, <2>7, <2>8
<1>4. CASE flushMark(c)
  <2>1. \A y : InBuffer(y)' = InBuffer(y) BY <1>4 DEF flushMark, InBuffer
  <2>2. OneCreator' BY <1>4, <2>1 DEF flushMark, OneCreator, Private, Asks, TypeOK
  <2>3. Unborn' BY <1>4, <2>1 DEF flushMark, Unborn, Private, Asks, Allocating, EvictPage, TypeOK
  <2>4. Creators' BY <1>4, <2>1 DEF flushMark, Creators, Maker, Creating, Private, Untouched, OnVictim, EvictPage, TypeOK
  <2>5. AllListed' BY <1>4, <2>1 DEF flushMark, AllListed, Listed, Allocating, EvictPage, TypeOK
  <2>6. Owned'
    <3>1. UNCHANGED born /\ \A l \in Pages : Private(l)' => Private(l) BY <1>4, <2>1 DEF flushMark, Private
    <3>2. \A d \in Clients : Maker(d) => Maker(d)' /\ key'[d] = key[d] BY <1>4, <2>1 DEF flushMark, Maker, TypeOK
    <3> QED BY <3>1, <3>2, OwnedKept
  <2> QED BY <2>2, <2>3, <2>4, <2>5, <2>6
<1> QED BY <1>1, <1>2, <1>3, <1>4

\* A flush thread runs.
LEMMA FreshFlush ==
  ASSUME Shape, Fresh, Shape', NEW q \in Consumers,
         appendPage(q)
         \/ removePageFromDirtyPageSet(q)
         \/ freePage(q)
         \/ removePage(q)
         \/ clearInFlush(q)
         \/ clearDirty(q)
  PROVE  Fresh'
<1> USE Objects DEF Shape, Fresh, pageVars, cacheVars, setVars, clientVars, consumerVars, goto
<1>1. CASE appendPage(q)
  <2>1. PICK s, n : AppendBy(q, s, n)
    BY <1>1, appendPageDoes
  <2>2. cur[q] \in Objs /\ cur[q][1] \in Pages /\ born[cur[q][1]] > 0
    <3>1. cur[q] \in Objs /\ cur[q][1] \in Pages /\ Born(cur[q])
      BY <1>1, appendPageDoes DEF appendPage, SharedLocals
    <3> QED BY <3>1 DEF Born, TypeOK
  <2>3. \A d \in Clients : Maker(d) => key[d] \in Pages /\ key[d] # cur[q][1]
    BY <1>1, MakerAlone DEF appendPage
  <2>4. \A y : InBuffer(y)' = InBuffer(y) BY <2>1, <2>2, <2>3 DEF AppendBy, InBuffer
  <2>5. OneCreator' BY <2>1, <2>2, <2>3, <2>4 DEF AppendBy, OneCreator, Private, Asks, TypeOK
  <2>6. Unborn' BY <2>1, <2>2, <2>3, <2>4 DEF AppendBy, Unborn, Private, Asks, Allocating, TypeOK
  <2>7. Creators' BY <2>1, <2>2, <2>3, <2>4 DEF AppendBy, Creators, Maker, Creating, Private, Untouched, TypeOK
  <2>8. AllListed' BY <2>1, <2>2, <2>3, <2>4 DEF AppendBy, AllListed, Listed, Allocating, TypeOK
  <2>9. Owned'
    <3>1. UNCHANGED born /\ \A l \in Pages : Private(l)' => Private(l) BY <2>1, <2>2, <2>3, <2>4 DEF AppendBy, Private, TypeOK
    <3>2. \A d \in Clients : Maker(d) => Maker(d)' /\ key'[d] = key[d] BY <2>1, <2>2, <2>3, <2>4 DEF AppendBy, Maker, TypeOK
    <3> QED BY <3>1, <3>2, OwnedKept
  <2> QED BY <2>5, <2>6, <2>7, <2>8, <2>9
<1>2. CASE removePageFromDirtyPageSet(q)
  <2>1. \A y : InBuffer(y)' = InBuffer(y) BY <1>2 DEF removePageFromDirtyPageSet, InBuffer
  <2>2. OneCreator' BY <1>2, <2>1 DEF removePageFromDirtyPageSet, Maker, TypeOK, ClientLocals, SharedLocals, Private, Asks, Allocating, OnVictim, EvictPage, OneCreator, Unborn
  <2>3. Unborn' BY <1>2, <2>1 DEF removePageFromDirtyPageSet, Unborn, Private, Asks, Allocating, TypeOK
  <2>4. Creators' BY <1>2, <2>1 DEF removePageFromDirtyPageSet, Creators, Maker, Creating, Private, Untouched, TypeOK
  <2>5. AllListed' BY <1>2, <2>1 DEF removePageFromDirtyPageSet, AllListed, Listed, Allocating, TypeOK
  <2>6. Owned'
    <3>1. UNCHANGED born /\ \A l \in Pages : Private(l)' => Private(l) BY <1>2, <2>1 DEF removePageFromDirtyPageSet, Private, SharedLocals, TypeOK
    <3>2. \A d \in Clients : Maker(d) => Maker(d)' /\ key'[d] = key[d] BY <1>2, <2>1 DEF removePageFromDirtyPageSet, Maker, TypeOK
    <3> QED BY <3>1, <3>2, OwnedKept
  <2> QED BY <2>2, <2>3, <2>4, <2>5, <2>6
<1>3. CASE freePage(q)
  <2>1. \A y : InBuffer(y)' = InBuffer(y) BY <1>3 DEF freePage, InBuffer
  <2>2. OneCreator' BY <1>3, <2>1 DEF freePage, OneCreator, Private, Asks, TypeOK
  <2>3. Unborn' BY <1>3, <2>1 DEF freePage, Unborn, Private, Asks, Allocating, TypeOK
  <2>4. Creators' BY <1>3, <2>1 DEF freePage, Creators, Maker, Creating, Private, Untouched, TypeOK
  <2>5. AllListed' BY <1>3, <2>1 DEF freePage, AllListed, Listed, Allocating, TypeOK
  <2>6. Owned'
    <3>1. UNCHANGED born /\ \A l \in Pages : Private(l)' => Private(l) BY <1>3, <2>1 DEF freePage, Private
    <3>2. \A d \in Clients : Maker(d) => Maker(d)' /\ key'[d] = key[d] BY <1>3, <2>1 DEF freePage, Maker, TypeOK
    <3> QED BY <3>1, <3>2, OwnedKept
  <2> QED BY <2>2, <2>3, <2>4, <2>5, <2>6
<1>4. CASE removePage(q)
  <2>1. \A d \in Clients : Maker(d) => key[d] \in Pages /\ key[d] # cur[q][1]
    BY <1>4, MakerAlone DEF removePage
  <2>2. \A y : InBuffer(y)' = InBuffer(y) BY <1>4, <2>1 DEF removePage, InBuffer
  <2>3. OneCreator' BY <1>4, <2>1, <2>2 DEF removePage, OneCreator, Private, Asks, TypeOK
  <2>4. Unborn' BY <1>4, <2>1, <2>2 DEF removePage, Unborn, Private, Asks, Allocating, TypeOK
  <2>5. Creators' BY <1>4, <2>1, <2>2 DEF removePage, Creators, Maker, Creating, Private, Untouched, TypeOK
  <2>6. AllListed' BY <1>4, <2>1, <2>2, SMTT(40) DEF removePage, AllListed, Listed, Allocating, OnVictim, EvictPage, Born, TypeOK, ClientLocals, SharedLocals
  <2>7. Owned'
    <3>1. UNCHANGED born /\ \A l \in Pages : Private(l)' => Private(l) BY <1>4, <2>1, <2>2 DEF removePage, Private
    <3>2. \A d \in Clients : Maker(d) => Maker(d)' /\ key'[d] = key[d] BY <1>4, <2>1, <2>2 DEF removePage, Maker, TypeOK
    <3> QED BY <3>1, <3>2, OwnedKept
  <2> QED BY <2>3, <2>4, <2>5, <2>6, <2>7
<1>5. CASE clearInFlush(q)
  <2>1. \A y : InBuffer(y)' = InBuffer(y) BY <1>5 DEF clearInFlush, InBuffer
  <2>2. OneCreator' BY <1>5, <2>1 DEF clearInFlush, OneCreator, Private, Asks, TypeOK
  <2>3. Unborn' BY <1>5, <2>1 DEF clearInFlush, Unborn, Private, Asks, Allocating, TypeOK
  <2>4. Creators' BY <1>5, <2>1 DEF clearInFlush, Creators, Maker, Creating, Private, Untouched, TypeOK
  <2>5. AllListed' BY <1>5, <2>1 DEF clearInFlush, AllListed, Listed, Allocating, TypeOK
  <2>6. Owned'
    <3>1. UNCHANGED born /\ \A l \in Pages : Private(l)' => Private(l) BY <1>5, <2>1 DEF clearInFlush, Private
    <3>2. \A d \in Clients : Maker(d) => Maker(d)' /\ key'[d] = key[d] BY <1>5, <2>1 DEF clearInFlush, Maker, TypeOK
    <3> QED BY <3>1, <3>2, OwnedKept
  <2> QED BY <2>2, <2>3, <2>4, <2>5, <2>6
<1>6. CASE clearDirty(q)
  <2>1. \A y : InBuffer(y)' = InBuffer(y) BY <1>6 DEF clearDirty, InBuffer
  <2>2. OneCreator' BY <1>6, <2>1 DEF clearDirty, OneCreator, Private, Asks, TypeOK
  <2>3. Unborn' BY <1>6, <2>1 DEF clearDirty, Unborn, Private, Asks, Allocating, TypeOK
  <2>4. Creators' BY <1>6, <2>1 DEF clearDirty, Creators, Maker, Creating, Private, Untouched, TypeOK
  <2>5. AllListed' BY <1>6, <2>1 DEF clearDirty, AllListed, Listed, Allocating, TypeOK
  <2>6. Owned'
    <3>1. UNCHANGED born /\ \A l \in Pages : Private(l)' => Private(l) BY <1>6, <2>1 DEF clearDirty, Private
    <3>2. \A d \in Clients : Maker(d) => Maker(d)' /\ key'[d] = key[d] BY <1>6, <2>1 DEF clearDirty, Maker, TypeOK
    <3> QED BY <3>1, <3>2, OwnedKept
  <2> QED BY <2>2, <2>3, <2>4, <2>5, <2>6
<1> QED BY <1>1, <1>2, <1>3, <1>4, <1>5, <1>6

\* A flush thread takes the next page out of the flush buffer.
LEMMA FreshPop ==
  ASSUME Shape, Fresh, Shape', NEW q \in Consumers,
         popPageFromHead(q)
  PROVE  Fresh'
<1> USE Objects DEF Shape, Fresh, pageVars, cacheVars, setVars, clientVars, consumerVars, goto
<1>1. CASE popPageFromHead(q)
  <2>1. /\ flushBuffer[1] \in Objs /\ Born(flushBuffer[1]) /\ cur' = [cur EXCEPT ![q] = flushBuffer[1]]
        /\ qpc[q] = "pop" /\ qpc' = [qpc EXCEPT ![q] = "append"]
        /\ UNCHANGED <<pageVars, cacheVars, setVars, clientVars>>
    BY <1>1, PopDoes
  <2>2. InBuffer(flushBuffer[1]) /\ \A o : InBuffer(o)' => InBuffer(o)
    BY <1>1, PopDoes DEF InBuffer
  <2>3. OneCreator' BY <2>1, <2>2 DEF OneCreator, Private, Asks, TypeOK
  <2>4. Unborn' BY <2>1, <2>2 DEF Unborn, Private, Asks, Allocating, TypeOK
  <2>5. Creators' BY <2>1, <2>2 DEF Creators, Maker, Creating, Private, Untouched, TypeOK
  <2>6. AllListed' BY <2>1, <2>2 DEF AllListed, Listed, Allocating, TypeOK
  <2>7. Owned'
    <3>1. UNCHANGED born /\ \A l \in Pages : Private(l)' => Private(l) BY <2>1, <2>2 DEF Private
    <3>2. \A d \in Clients : Maker(d) => Maker(d)' /\ key'[d] = key[d] BY <2>1, <2>2 DEF Maker, TypeOK
    <3> QED BY <3>1, <3>2, OwnedKept
  <2> QED BY <2>3, <2>4, <2>5, <2>6, <2>7
<1> QED BY <1>1

\* At the start there is no page.
LEMMA FreshInit == Init => Fresh
<1> SUFFICES ASSUME Init PROVE Fresh OBVIOUS
<1>1. \A o : ~InBuffer(o) BY DEF Init, InBuffer
<1> QED BY <1>1, Objects DEF Init, Fresh, OneCreator, Unborn, Creators, AllListed, Owned, Private,
                             Asks, Maker

\* Every step keeps what is known of a page that is not in the file.
LEMMA FreshNext == Shape /\ Fresh /\ Shape' /\ [Next]_vars => Fresh'
<1> SUFFICES ASSUME Shape, Fresh, Shape', [Next]_vars PROVE Fresh' OBVIOUS
<1>1. CASE UNCHANGED vars
  BY <1>1 DEF vars, pageVars, cacheVars, setVars, clientVars, consumerVars, Fresh, OneCreator,
              Unborn, Creators, AllListed, Owned, Private, Asks, Maker, Creating, Listed,
              Allocating, Untouched, InBuffer
<1>2. ASSUME NEW c \in Clients, NewRequest(c) PROVE Fresh'
  BY <1>2, FreshRequests DEF NewRequest
<1>3. ASSUME NEW c \in Clients, UsePage(c) PROVE Fresh' BY <1>3, FreshRelease DEF UsePage
<1>4. ASSUME NEW c \in Clients, evictionMutexLock(c) \/ insertLoadedPage(c) \/ WriteLocked(c)
      PROVE  Fresh'
  BY <1>4, FreshLocked DEF WriteLocked
<1>5. ASSUME NEW c \in Clients, Unlocked(c) PROVE Fresh'
  <2>1. CASE allocateRetry(c) BY <1>1, <2>1 DEF allocateRetry
  <2>2. CASE allocate(c) \/ allocateFails(c) \/ addPageToDirtyPageSet(c) \/ evictEnd(c)
    BY <2>2, FreshAllocate
  <2>3. CASE \/ (\E o \in Objs : evictNext(c, o)) \/ evictClassify(c) \/ evictMark(c)
             \/ evictReclassify(c) \/ evictFree(c)
    BY <2>3, FreshEvict
  <2>4. CASE evictEnqueue(c) \/ flushEnqueue(c) BY <2>4, FreshEnqueue
  <2>5. CASE unlockedUnpin(c) \/ exportEvict(c) \/ flushTest(c) \/ flushMark(c)
    BY <2>5, FreshRelease
  <2> QED BY <1>5, <2>1, <2>2, <2>3, <2>4, <2>5 DEF Unlocked
<1>6. ASSUME NEW q \in Consumers, Flush(q) PROVE Fresh' BY <1>6, FreshFlush, FreshPop DEF Flush
<1> QED BY <1>1, <1>2, <1>3, <1>4, <1>5, <1>6 DEF Next

\* The types of the page cache hold in every behaviour.
THEOREM CacheTypeCorrect == Spec => []TypeOK
<1>1. Spec => []Shape BY ShapeInit, ShapeNext, PTL DEF Spec
<1>2. Shape => TypeOK BY DEF Shape
<1> QED BY <1>1, <1>2, PTL

\* The invariant holds in every behaviour.
LEMMA FreshHolds == Spec => [](Shape /\ Fresh)
BY ShapeInit, ShapeNext, FreshInit, FreshNext, PTL DEF Spec

\* SetCachePageIterator::next finds a dirty page with its bytes behind every entry of
\* dirtyPagesInPageCache, however clients give their pages up (all four ways, with and
\* without locks) and however many of them load the same page at once.
THEOREM IteratorFindsDirtyPages == Spec => []DirtySetIsDirty
<1>1. Shape /\ Fresh => DirtySetIsDirty
  <2> SUFFICES ASSUME Shape, Fresh, NEW k \in dirtySet
               PROVE  cache[k] # nullptr /\ dirty[cache[k]] /\ rawBytes[cache[k]]
    BY DEF DirtySetIsDirty
  <2>1. k \in Pages /\ Listed(k) BY DEF Shape, TypeOK, Fresh, AllListed
  <2> QED BY <2>1, Objects DEF Listed
<1> QED BY <1>1, FreshHolds, PTL

\* No frame of a page that is not in its file is given back: neither by evictPage nor
\* by a flush thread, in any order of their unlocked tests of the page's flags.
THEOREM NoPageIsLost == Spec => []NoPageLost
<1>1. Shape /\ Fresh => NoPageLost
  <2> SUFFICES ASSUME Shape, Fresh, NEW k \in Pages, born[k] > 0, appended[k] = 0
               PROVE  \E o \in Objs : o[1] = k /\ rawBytes[o]
    BY DEF NoPageLost, Shape, TypeOK
  <2>1. rawBytes[First(k)]
    <3>1. CASE k \in dirtySet BY <3>1 DEF Fresh, AllListed, Listed
    <3>2. CASE k \notin dirtySet BY <3>2 DEF Fresh, Owned, Private, Creators, Creating
    <3> QED BY <3>1, <3>2
  <2> QED BY <2>1, Objects
<1> QED BY <1>1, FreshHolds, PTL
=============================================================================
