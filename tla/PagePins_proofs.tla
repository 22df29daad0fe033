---------------------------- MODULE PagePins_proofs ----------------------------
(***************************************************************************)
(* Proofs about pinned pages: a page stays while it is pinned, its count   *)
(* is the number of its holders, it is written once and its frame is not   *)
(* lost.  They rest on what is assumed of the clients (Regime, Locking):   *)
(* without it each of the four fails in a behaviour of PageCache.          *)
(*                                                                         *)
(* The invariant follows an object on its way to the file, from the flag   *)
(* that evictPage sets over the flush buffer to the last step of a flush   *)
(* thread.  An object is on that way at most once, is dirty all along and  *)
(* is in the cache with its bytes until the flush thread drops it.         *)
(***************************************************************************)
EXTENDS PageCache_proofs

\* What is assumed of the clients: nobody flushes or exports a page it has just given up
\* and one client at a time loads a page, as PageCache::getPage asks of its callers.
Regime == Releases \subseteq {"unpin", "decRef"} /\ OneLoader

\* Clients neither flush nor export, and evict one at a time.
Calm ==
  /\ \A c \in Clients : pc[c] \notin {"exportEvict", "flushTest", "flushMark", "flushEnqueue"}
  /\ \A c \in Clients : how[c] \in Releases \cup {nullptr}
  /\ \A c \in Clients : pc[c] = "decRef" => how[c] = "decRef"
  /\ \A c \in Clients : pc[c] \in EvictPage => how[c] = nullptr
  /\ \A c \in Clients :
       pc[c] \in {"lookup", "cache", "dec", "scan", "evictLoop"} \cup EvictPage => evictionMutex = c

\* A page has one client that asks for it, and it is not cached once that client missed it.
Seeking(c) == pc[c] \in {"pin", "lookup", "insertLoaded"} \/ Allocating(c)
Missed(c) == pc[c] = "insertLoaded" \/ Allocating(c)

Loaders ==
  /\ \A c, d \in Clients : Seeking(c) /\ Seeking(d) /\ key[c] = key[d] => c = d
  /\ \A c \in Clients : Missed(c) => cache[key[c]] = nullptr
  /\ \A c \in Clients : pc[c] = "insertLoaded" => rawBytes[ref[c]]

\* The object is on its way to the file: enqueued, in the flush buffer or with a thread.
Enqueued(c, o) == pc[c] = "enqueue" /\ victim[c] = o
With(q, o) == qpc[q] # "pop" /\ cur[q] = o
Busy(o) ==
  \/ InBuffer(o)
  \/ \E q \in Consumers : With(q, o)
  \/ \E c \in Clients : Enqueued(c, o)

\* ... and it is there once.
Once ==
  /\ \A i, j \in 1 .. Len(flushBuffer) : flushBuffer[i] = flushBuffer[j] => i = j
  /\ \A q, r \in Consumers : qpc[q] # "pop" /\ With(r, cur[q]) => q = r
  /\ \A q \in Consumers : qpc[q] # "pop" => ~InBuffer(cur[q])
  /\ \A c \in Clients : pc[c] = "enqueue" =>
       ~InBuffer(victim[c]) /\ \A q \in Consumers : ~With(q, victim[c])

\* A page to be appended has its bytes, is cached and is not in the file.
Ready(o) == appended[o[1]] = 0 /\ rawBytes[o] /\ cache[o[1]] = o

\* What holds where the object is on its way: from its flag to the end of the flush.
Stages ==
  /\ \A o \in Objs : InBuffer(o) => inFlush[o] /\ Ready(o)
  /\ \A c \in Clients : pc[c] = "enqueue" => inFlush[victim[c]] /\ Ready(victim[c])
  /\ \A q \in Consumers : qpc[q] = "append" => Ready(cur[q])
  /\ \A q \in Consumers : qpc[q] \in {"unlist", "free"} => rawBytes[cur[q]] /\ cache[cur[q][1]] = cur[q]
  /\ \A q \in Consumers : qpc[q] = "remove" =>
       cache[cur[q][1]] = cur[q] /\ (rawBytes[cur[q]] \/ Droppable(cur[q]))
  /\ \A q \in Consumers : qpc[q] \notin {"pop", "clearDirty"} => inFlush[cur[q]]
  /\ \A q \in Consumers : qpc[q] = "clearDirty" => ~inFlush[cur[q]]

\* Only pages on their way to the file are in flush; only the first object of a page is
\* ever dirty, and it is in the file only while a flush thread still works on it.
Dirt ==
  /\ \A o \in Objs : Busy(o) => dirty[o] /\ inEviction[o]
  /\ \A o \in Objs : inFlush[o] => Busy(o)
  /\ \A o \in Objs : dirty[o] => o[2] = 0
  /\ \A o \in Objs : dirty[o] => appended[o[1]] = 0 \/ \E q \in Consumers : With(q, o)
  /\ AppendedOnce

\* A cached page has its bytes unless a flush thread is about to remove it.
Filled ==
  \A k \in Pages : cache[k] # nullptr =>
     rawBytes[cache[k]] \/ \E q \in Consumers : qpc[q] = "remove" /\ cur[q] = cache[k]

\* evictPage has a victim that is not on its way to the file, which nobody can pin
\* any more unless it is dirty (only the iterator pins without evictionMutex).
Choosing(c) == pc[c] \in {"classify", "mark", "reclassify", "evictFree"}

Victims ==
  /\ \A c \in Clients : Choosing(c) =>
       /\ cache[victim[c][1]] = victim[c] /\ ~Busy(victim[c]) /\ victim[c] \notin evictable
       /\ dirty[victim[c]] \/ refCount[victim[c]] = 0
  /\ \A c \in Clients : pc[c] = "mark" => dirty[victim[c]]
  /\ \A c \in Clients : pc[c] \in {"reclassify", "evictFree"} => ~dirty[victim[c]]
  /\ \A o \in evictable : ~Busy(o) /\ cache[o[1]] \in {o, nullptr}
  /\ evictable # {} =>
       evictionMutex # nullptr /\ pc[evictionMutex] \in {"evictLoop"} \cup EvictPage

Flow == Once /\ Stages /\ Dirt
Flushing == Flow /\ Filled /\ Victims
\* The references of clients.
HoldsOne == \A c \in Clients : Holding(c) => ref[c] # nullptr
Holders == HoldsOne /\ PinnedPageStays /\ RefCountIsHolders
Pins == Calm /\ Loaders /\ Flushing /\ Holders

-----------------------------------------------------------------------------
(* What steps keep *)

\* A step that leaves the objects on their way to the file alone.
LEMMA FlowKept ==
  ASSUME Shape, Flow, UNCHANGED <<flushBuffer, qpc, cur, inFlush, inEviction, appended>>,
         \A c \in Clients : pc'[c] = "enqueue" <=> pc[c] = "enqueue",
         \A c \in Clients : pc[c] = "enqueue" => victim'[c] = victim[c],
         \A o \in Objs : Busy(o) => /\ rawBytes'[o] = rawBytes[o] /\ dirty'[o] = dirty[o]
                                    /\ cache[o[1]] = o => cache'[o[1]] = o,
         \A o \in Objs : dirty'[o] => dirty[o] \/ (o[2] = 0 /\ appended[o[1]] = 0),
         \A q \in Consumers : qpc[q] = "remove" /\ refCount[cur[q]] = 0 => refCount'[cur[q]] = 0
  PROVE  Flow' /\ \A o : Busy(o)' <=> Busy(o)
<1> USE DEF Flow, Shape
<1>1. \A o : InBuffer(o)' <=> InBuffer(o) BY DEF InBuffer
<1>2. \A q, o : With(q, o)' <=> With(q, o) BY DEF With
<1>3. \A o : \A c \in Clients : Enqueued(c, o)' <=> Enqueued(c, o) BY DEF Enqueued
<1>4. \A o : Busy(o)' <=> Busy(o) BY <1>1, <1>2, <1>3 DEF Busy
<1>5. Once' BY <1>1, <1>2 DEF Once
<1>6. \A q \in Consumers : qpc[q] # "pop" => cur[q] \in Objs /\ Busy(cur[q])
  BY DEF SharedLocals, Busy, With
<1>7. \A c \in Clients : pc[c] = "enqueue" => victim[c] \in Objs /\ Busy(victim[c])
  BY DEF ClientLocals, OnVictim, EvictPage, Busy, Enqueued
<1>8. \A o \in Objs : InBuffer(o) => Busy(o) BY DEF Busy
<1>9. Stages'
  <2>1. \A o \in Objs : Busy(o) /\ Ready(o) => Ready(o)' BY DEF Ready
  <2>2. \A o \in Objs : InBuffer(o)' => inFlush'[o] /\ Ready(o)' BY <1>1, <1>8, <2>1 DEF Stages
  <2>3. \A c \in Clients : pc'[c] = "enqueue" => inFlush[victim[c]] /\ Ready(victim[c])' /\ victim'[c] = victim[c]
    BY <1>7, <2>1 DEF Stages
  <2>4. \A q \in Consumers : qpc[q] = "append" => Ready(cur[q])' BY <1>6, <2>1 DEF Stages
  <2>5. \A q \in Consumers : qpc[q] \in {"unlist", "free"} =>
           rawBytes'[cur[q]] /\ cache'[cur[q][1]] = cur[q]
    BY <1>6 DEF Stages
  <2>6. \A q \in Consumers : qpc[q] = "remove" =>
           cache'[cur[q][1]] = cur[q] /\ (rawBytes'[cur[q]] \/ Droppable(cur[q])')
    BY <1>6 DEF Stages, Droppable
  <2>7. \A q \in Consumers : qpc[q] \notin {"pop", "clearDirty"} => inFlush'[cur[q]] BY DEF Stages
  <2> QED BY <2>2, <2>3, <2>4, <2>5, <2>6, <2>7 DEF Stages, Ready
<1>10. Dirt'
  <2>1. AppendedOnce' BY DEF Dirt, AppendedOnce
  <2> QED BY <1>2, <1>4, <2>1 DEF Dirt
<1> QED BY <1>4, <1>5, <1>9, <1>10

HoldersOf(o) == {c \in Clients : Holding(c) /\ ref[c] = o}

\* Nobody begins or ends to hold a page.
LEMMA CountSame ==
  ASSUME Holders, UNCHANGED refCount,
         \A c \in Clients : Holding(c)' <=> Holding(c),
         \A c \in Clients : Holding(c) =>
            /\ ref'[c] = ref[c] /\ key'[c] = key[c]
            /\ (rawBytes[ref[c]] => rawBytes'[ref[c]]) /\ cache'[key[c]] = cache[key[c]]
  PROVE  Holders'
<1>1. PinnedPageStays' /\ HoldsOne' BY Objects DEF Holders, PinnedPageStays, HoldsOne
<1>2. \A o \in Objs : HoldersOf(o)' = HoldersOf(o) BY DEF HoldersOf
<1>3. RefCountIsHolders' BY <1>2 DEF Holders, RefCountIsHolders, HoldersOf
<1> QED BY <1>1, <1>3 DEF Holders

\* The holders of an object are finitely many.
LEMMA CountFinite == \A o : IsFiniteSet(HoldersOf(o)) /\ Cardinality(HoldersOf(o)) \in Nat
<1>1. \A o : HoldersOf(o) \subseteq Clients BY DEF HoldersOf
<1> QED BY <1>1, CacheAssumption, FS_Subset, FS_CardinalityType

\* A client takes a reference.
LEMMA CountUp ==
  ASSUME Shape, Holders, NEW c \in Clients, NEW o \in Objs,
         ~Holding(c), Holding(c)', ref'[c] = o, cache'[key'[c]] = o, rawBytes'[o],
         refCount' = [refCount EXCEPT ![o] = @ + 1],
         \A d \in Clients \ {c} : /\ Holding(d)' <=> Holding(d)
                                  /\ ref'[d] = ref[d] /\ key'[d] = key[d],
         \A d \in Clients : Holding(d) =>
            (rawBytes[ref[d]] => rawBytes'[ref[d]]) /\ cache'[key[d]] = cache[key[d]]
  PROVE  Holders'
<1>1. PinnedPageStays' /\ HoldsOne' BY Objects DEF Holders, PinnedPageStays, HoldsOne
<1>2. HoldersOf(o)' = HoldersOf(o) \cup {c} /\ c \notin HoldersOf(o) BY DEF HoldersOf
<1>3. \A x \in Objs \ {o} : HoldersOf(x)' = HoldersOf(x) BY DEF HoldersOf
<1>4. Cardinality(HoldersOf(o)') = Cardinality(HoldersOf(o)) + 1
  BY <1>2, CountFinite, FS_AddElement, ZenonT(60)
<1>5. RefCountIsHolders'
  <2>1. \A x \in Objs : refCount[x] = Cardinality(HoldersOf(x))
    BY DEF Holders, RefCountIsHolders, HoldersOf
  <2>2. \A x \in Objs : refCount'[x] = Cardinality(HoldersOf(x)')
    BY <1>3, <1>4, <2>1 DEF Shape, TypeOK
  <2> QED BY <2>2 DEF RefCountIsHolders, HoldersOf
<1> QED BY <1>1, <1>5 DEF Holders

\* A client gives its reference up.
LEMMA CountDown ==
  ASSUME Shape, Holders, NEW c \in Clients, Holding(c), ~Holding(c)', key[c] \in Pages,
         decPageRefCount(key[c]), UNCHANGED <<rawBytes, cache, key>>,
         \A d \in Clients \ {c} : (Holding(d)' <=> Holding(d)) /\ ref'[d] = ref[d]
  PROVE  Holders' /\ \A o \in Objs : refCount[o] = 0 => refCount'[o] = 0
<1>1. PinnedPageStays' /\ HoldsOne' BY Objects DEF Holders, PinnedPageStays, HoldsOne
<1>2. PICK o : o = ref[c] OBVIOUS
<1>3. cache[key[c]] = o BY <1>2 DEF Holders, PinnedPageStays
<1>4. \A x \in Objs : refCount[x] = Cardinality(HoldersOf(x))
  BY DEF Holders, RefCountIsHolders, HoldersOf
<1>5. /\ refCount' \in [Objs -> Nat]
      /\ \A x \in Objs : refCount'[x] = IF x = o /\ refCount[x] > 0 THEN refCount[x] - 1
                                        ELSE refCount[x]
  BY <1>3, decPageRefCountDoes
<1>6. c \in HoldersOf(o) /\ HoldersOf(o)' = HoldersOf(o) \ {c} BY <1>2 DEF HoldersOf
<1>7. \A x \in Objs \ {o} : HoldersOf(x)' = HoldersOf(x) BY <1>2 DEF HoldersOf
<1>8. Cardinality(HoldersOf(o)') = Cardinality(HoldersOf(o)) - 1
  BY <1>6, CountFinite, FS_RemoveElement
<1>9. Cardinality(HoldersOf(o)) > 0 BY <1>6, CountFinite, FS_EmptySet
<1>10. RefCountIsHolders'
  <2>1. \A x \in Objs : refCount'[x] = Cardinality(HoldersOf(x)')
    BY <1>4, <1>5, <1>7, <1>8, <1>9
  <2> QED BY <2>1 DEF RefCountIsHolders, HoldersOf
<1>11. \A x \in Objs : refCount[x] = 0 => refCount'[x] = 0 BY <1>5
<1> QED BY <1>1, <1>10, <1>11 DEF Holders
-----------------------------------------------------------------------------
(* Steps of a client that change no page *)

\* The step changes the variables of client c alone.
OnlyAt(c) ==
  \A d \in Clients \ {c} :
     /\ pc'[d] = pc[d] /\ key'[d] = key[d] /\ ref'[d] = ref[d]
     /\ victim'[d] = victim[d] /\ how'[d] = how[d]

\* A client that neither enqueues a page nor begins or ends to hold one.
LEMMA QuietStep ==
  ASSUME Shape, Pins, NEW c \in Clients, OnlyAt(c),
         UNCHANGED <<pageVars, cache, appended, flushBuffer, consumerVars>>,
         pc[c] # "enqueue", pc'[c] # "enqueue",
         Holding(c)' <=> Holding(c), Holding(c) => ref'[c] = ref[c] /\ key'[c] = key[c]
  PROVE  Flow' /\ Filled' /\ Holders' /\ \A o : Busy(o)' <=> Busy(o)
<1> USE DEF Pins, Flushing, Flow, pageVars, consumerVars
<1>1. Flow' /\ \A o : Busy(o)' <=> Busy(o)
  <2>1. /\ \A d \in Clients : pc'[d] = "enqueue" <=> pc[d] = "enqueue"
        /\ \A d \in Clients : pc[d] = "enqueue" => victim'[d] = victim[d]
    BY DEF OnlyAt
  <2> QED BY <2>1, FlowKept
<1>2. Filled' BY DEF Filled
<1>3. Holders'
  <2>1. \A d \in Clients : Holding(d)' <=> Holding(d) BY DEF OnlyAt, Holding
  <2>2. \A d \in Clients : Holding(d) => ref'[d] = ref[d] /\ key'[d] = key[d] BY DEF OnlyAt
  <2> QED BY <2>1, <2>2, CountSame
<1> QED BY <1>1, <1>2, <1>3

\* The client that holds evictionMutex is the only one inside evict().
LEMMA MutexHolder ==
  ASSUME Shape, Pins
  PROVE  /\ \A d \in Clients : Choosing(d) \/ pc[d] = "enqueue" => evictionMutex = d
         /\ evictable # {} => \E d \in Clients :
              evictionMutex = d /\ pc[d] \in {"evictLoop"} \cup EvictPage
BY Objects DEF Pins, Calm, Flushing, Victims, Choosing, EvictPage, Shape, TypeOK

\* A request begins.
LEMMA PinsRequests ==
  ASSUME Shape, Fresh, Pins, Regime, NEW c \in Clients, NEW k \in Pages,
         getNewPage(c, k) \/ getPage(c, k)
  PROVE  Pins'
<1> USE Objects DEF Shape, Pins, Flushing, Flow, pageVars, cacheVars, setVars, consumerVars, goto
<1>1. /\ pc[c] = "idle" /\ pc' = [pc EXCEPT ![c] = pc'[c]] /\ pc'[c] \in {"alloc", "pin"}
      /\ key' = [key EXCEPT ![c] = k]
      /\ UNCHANGED <<pageVars, cacheVars, setVars, flushBuffer, ref, victim, how, consumerVars>>
  BY DEF getNewPage, getPage, TypeOK
<1>2. OnlyAt(c) BY <1>1 DEF OnlyAt, TypeOK
<1>3. Flow' /\ Filled' /\ Holders' /\ \A o : Busy(o)' <=> Busy(o)
  BY <1>1, <1>2, QuietStep DEF Holding
<1>4. Calm' BY <1>1, <1>2 DEF Calm, EvictPage, TypeOK
<1>5. Loaders'
  <2>0. getNewPage(c, k) => \A o \in Objs : o[1] = k => ~Born(o)
    BY DEF getNewPage, Born
  <2>1. /\ \A d \in Clients \ {c} : Seeking(d)' <=> Seeking(d)
        /\ \A d \in Clients \ {c} : Missed(d)' <=> Missed(d)
    BY <1>1, <1>2 DEF OnlyAt, Seeking, Missed, Allocating
  <2>2. \A d \in Clients \ {c} : key[d] = k => ~Seeking(d)
    <3>1. CASE getNewPage(c, k)
      <4>1. \A d \in Clients : key[d] = k => d \notin Asking(k) BY <3>1 DEF getNewPage
      <4>2. \A d \in Clients : key[d] = k => pc[d] # "insertLoaded"
        BY <2>0, <3>1 DEF ClientLocals
      <4> QED BY <4>1, <4>2 DEF Asking, Seeking, Allocating
    <3>2. CASE getPage(c, k)
      <4>1. \A d \in Clients : key[d] = k => pc[d] # "insertLoaded" /\ d \notin Asking(k)
        BY <3>2 DEF getPage, Regime
      <4> QED BY <4>1 DEF Asking, Seeking, Allocating
    <3> QED BY <3>1, <3>2
  <2>3. pc'[c] = "alloc" => cache[k] = nullptr
    <3>1. pc'[c] = "alloc" => getNewPage(c, k) BY DEF getPage, TypeOK
    <3> QED BY <2>0, <3>1 DEF SharedLocals, TypeOK
  <2>4. key'[c] = k /\ pc'[c] # "insertLoaded" /\ (Missed(c)' => pc'[c] = "alloc")
    BY <1>1 DEF Missed, Allocating, EvictPage, TypeOK
  <2>5. \A d, e \in Clients : Seeking(d)' /\ Seeking(e)' /\ key'[d] = key'[e] => d = e
    BY <1>2, <2>1, <2>2, <2>4 DEF OnlyAt, Loaders
  <2>6. \A d \in Clients : Missed(d)' => cache'[key'[d]] = nullptr
    BY <1>1, <1>2, <2>1, <2>3, <2>4 DEF OnlyAt, Loaders
  <2>7. \A d \in Clients : pc'[d] = "insertLoaded" => rawBytes'[ref'[d]]
    BY <1>1, <1>2, <2>4 DEF OnlyAt, Loaders
  <2> QED BY <2>5, <2>6, <2>7 DEF Loaders
<1>6. Victims' BY <1>1, <1>2, <1>3 DEF Victims, Choosing, EvictPage, OnlyAt, TypeOK
<1> QED BY <1>3, <1>4, <1>5, <1>6

\* A step of one client keeps the loaders apart.
LEMMA LoadersKept ==
  ASSUME Loaders, NEW c \in Clients, OnlyAt(c),
         Seeking(c)' => Seeking(c) /\ key'[c] = key[c],
         Missed(c)' => cache'[key'[c]] = nullptr,
         pc'[c] = "insertLoaded" => rawBytes'[ref'[c]],
         \A d \in Clients \ {c} : Missed(d) => cache'[key[d]] = nullptr,
         \A d \in Clients \ {c} : pc[d] = "insertLoaded" => rawBytes'[ref[d]]
  PROVE  Loaders'
<1>1. /\ \A d \in Clients \ {c} : Seeking(d)' <=> Seeking(d)
      /\ \A d \in Clients \ {c} : Missed(d)' <=> Missed(d)
  BY DEF OnlyAt, Seeking, Missed, Allocating
<1>2. \A d, e \in Clients : Seeking(d)' /\ Seeking(e)' /\ key'[d] = key'[e] => d = e
  BY <1>1 DEF OnlyAt, Loaders
<1>3. \A d \in Clients : Missed(d)' => cache'[key'[d]] = nullptr BY <1>1 DEF OnlyAt
<1>4. \A d \in Clients : pc'[d] = "insertLoaded" => rawBytes'[ref'[d]] BY DEF OnlyAt
<1> QED BY <1>2, <1>3, <1>4 DEF Loaders

\* The usual case: no page changes and the client goes on with its own.
LEMMA LoadersQuiet ==
  ASSUME Shape, Loaders, NEW c \in Clients, OnlyAt(c), UNCHANGED <<cache, rawBytes>>, key'[c] = key[c],
         Seeking(c)' => Seeking(c), Missed(c)' => Missed(c) \/ cache[key[c]] = nullptr,
         pc'[c] # "insertLoaded"
  PROVE  Loaders'
BY LoadersKept DEF Loaders

\* evict() has no page in hand.
LEMMA NoVictims ==
  ASSUME evictable' = {}, \A d \in Clients : ~Choosing(d)'
  PROVE  Victims'
BY DEF Victims, Choosing

\* A client takes evictionMutex, or lets it go after a miss.
LEMMA PinsLock ==
  ASSUME Shape, Pins, NEW c \in Clients, evictionMutexLock(c) \/ getPageMiss(c)
  PROVE  Pins'
<1> USE Objects DEF Shape, Pins, Flushing, Flow, pageVars, cacheVars, setVars, consumerVars, goto
<1>1. PICK s : /\ pc' = [pc EXCEPT ![c] = s]
               /\ \/ LockMove(pc[c], s) /\ evictionMutex = nullptr /\ evictionMutex' = c
                  \/ /\ pc[c] = "lookup" /\ s = "alloc" /\ cache[key[c]] = nullptr
                     /\ evictionMutex = c /\ evictionMutex' = nullptr
  <2>1. CASE evictionMutexLock(c) BY <2>1, LockDoes
  <2>2. CASE getPageMiss(c) BY <2>2 DEF getPageMiss, UnderBothLocks
  <2> QED BY <2>1, <2>2
<1>2. UNCHANGED <<pageVars, cache, evictable, setVars, flushBuffer, key, ref, victim, how, consumerVars>>
  <2>1. CASE evictionMutexLock(c) BY <2>1, LockDoes
  <2>2. CASE getPageMiss(c) BY <2>2 DEF getPageMiss
  <2> QED BY <2>1, <2>2
<1>3. OnlyAt(c) BY <1>1, <1>2 DEF OnlyAt, TypeOK
<1>4. Flow' /\ Filled' /\ Holders' /\ \A o : Busy(o)' <=> Busy(o)
  BY <1>1, <1>2, <1>3, QuietStep, ZenonT(60) DEF Holding, LockMove, TypeOK
<1>5. evictable = {} /\ \A d \in Clients : ~Choosing(d)
  BY <1>1, MutexHolder DEF EvictPage, Choosing, LockMove
<1>6. Calm'
  <2>1. \A d \in Clients \ {c} : pc[d] \notin {"lookup", "cache", "dec", "scan", "evictLoop"} \cup EvictPage
    BY <1>1 DEF Calm, TypeOK
  <2> QED BY <1>1, <1>2, <1>3, <2>1 DEF OnlyAt, Calm, LockMove, EvictPage, TypeOK
<1>7. Loaders'
  BY <1>1, <1>2, <1>3, LoadersQuiet, ZenonT(60) DEF Seeking, Missed, Allocating, EvictPage, LockMove, TypeOK
<1>8. Victims'
  BY <1>1, <1>2, <1>3, <1>5, NoVictims DEF Choosing, LockMove, OnlyAt, TypeOK
<1> QED BY <1>4, <1>6, <1>7, <1>8

\* A client fails to allocate, lists its new page, or decides to give its page up.
LEMMA PinsHolds ==
  ASSUME Shape, Pins, Regime, NEW c \in Clients,
         \/ allocateFails(c) \/ addPageToDirtyPageSet(c)
         \/ \E h \in ReleaseKinds : release(c, h)
  PROVE  Pins'
<1> USE Objects DEF Shape, Pins, Flushing, Flow, pageVars, cacheVars, setVars, consumerVars, goto
<1>1. /\ pc' = [pc EXCEPT ![c] = pc'[c]]
      /\ \/ pc[c] = "alloc" /\ pc'[c] = "evict"
         \/ pc[c] = "addDirty" /\ pc'[c] = "holdNew"
         \/ pc[c] \in {"hold", "holdNew"} /\ pc'[c] = "unpin"
         \/ pc[c] \in {"hold", "holdNew"} /\ pc'[c] = "decRef"
      /\ UNCHANGED <<pageVars, cacheVars, appended, born, flushBuffer, key, ref, victim, consumerVars>>
  BY DEF allocateFails, addPageToDirtyPageSet, release, TypeOK
<1>2. /\ how' = [how EXCEPT ![c] = how'[c]] /\ how'[c] \in Releases \cup {nullptr}
      /\ pc'[c] = "decRef" => how'[c] = "decRef"
  BY DEF allocateFails, addPageToDirtyPageSet, release, Regime, TypeOK, Calm, ReleaseKinds
<1>3. OnlyAt(c) BY <1>1, <1>2 DEF OnlyAt, TypeOK
<1>4. Flow' /\ Filled' /\ Holders' /\ \A o : Busy(o)' <=> Busy(o)
  BY <1>1, <1>3, QuietStep DEF Holding
<1>5. Calm'
  <2>1. pc'[c] \in {"evict", "holdNew", "unpin", "decRef"} /\ UNCHANGED evictionMutex BY <1>1
  <2> QED BY <1>2, <1>3, <2>1 DEF OnlyAt, Calm, EvictPage
<1>6. Loaders'
  BY <1>1, <1>3, LoadersQuiet DEF Seeking, Missed, Allocating, EvictPage
<1>7. Victims' BY <1>1, <1>2, <1>3, <1>4 DEF Victims, Choosing, EvictPage, OnlyAt, TypeOK
<1> QED BY <1>4, <1>5, <1>6, <1>7

\* evict() makes its queue while no flush thread is inside flushLock(): a page that is
\* on its way to the file is dirty and in flush then, and is not taken.
LEMMA PinsScan ==
  ASSUME Shape, Pins, NEW c \in Clients, evictScan(c)
  PROVE  Pins'
<1> USE Objects DEF Shape, Pins, Flushing, Flow, pageVars, cacheVars, setVars, consumerVars, goto
<1>1. /\ pc[c] = "scan" /\ pc' = [pc EXCEPT ![c] = "evictLoop"] /\ evictionMutex = c /\ Readers = {}
      /\ evictable' = {o \in Objs : cache[o[1]] = o /\ EvictableAtScan(o)}
      /\ UNCHANGED <<pageVars, cache, evictionMutex, evicting, setVars, flushBuffer,
                     key, ref, victim, how, consumerVars>>
  BY DEF evictScan, UnderBothLocks
<1>2. OnlyAt(c) /\ pc'[c] = "evictLoop" BY <1>1 DEF OnlyAt, TypeOK
<1>3. Flow' /\ Filled' /\ Holders' /\ \A o : Busy(o)' <=> Busy(o)
  BY <1>1, <1>2, QuietStep DEF Holding
<1>4. Calm' BY <1>1, <1>2 DEF OnlyAt, Calm, EvictPage, TypeOK
<1>5. Loaders'
  BY <1>1, <1>2, LoadersQuiet DEF Seeking, Missed, Allocating, EvictPage, TypeOK
<1>6. \A o \in evictable' : ~Busy(o) /\ cache[o[1]] = o
  <2> SUFFICES ASSUME NEW o \in Objs, Busy(o), cache[o[1]] = o, EvictableAtScan(o) PROVE FALSE
    BY <1>1
  <2>1. dirty[o] /\ ~inFlush[o] BY DEF Dirt, EvictableAtScan
  <2>2. ~InBuffer(o) BY <2>1 DEF Stages
  <2>3. \A d \in Clients : ~Enqueued(d, o) BY <2>1 DEF Stages, Enqueued
  <2>4. \A q \in Consumers : ~With(q, o)
    <3>1. \A q \in Consumers : With(q, o) => qpc[q] = "clearDirty" BY <2>1 DEF Stages, With
    <3> QED BY <1>1, <3>1 DEF Readers
  <2> QED BY <2>2, <2>3, <2>4 DEF Busy
<1>7. Victims'
  <2>1. \A d \in Clients : ~Choosing(d)'
    BY <1>1, <1>2, MutexHolder DEF OnlyAt, Choosing, TypeOK
  <2>2. evictionMutex' # nullptr /\ pc'[evictionMutex'] = "evictLoop" BY <1>1 DEF TypeOK
  <2> QED BY <1>1, <1>3, <1>6, <2>1, <2>2 DEF Victims, Choosing
<1> QED BY <1>3, <1>4, <1>5, <1>7

\* evictPage(key) finds the page of the queue in the cache, or nothing at all.
LEMMA PinsNext ==
  ASSUME Shape, Pins, NEW c \in Clients, NEW o \in Objs, evictNext(c, o)
  PROVE  Pins'
<1> USE Objects DEF Shape, Pins, Flushing, Flow, pageVars, cacheVars, setVars, consumerVars, goto
<1>1. PICK s, v : EvictNextBy(c, o, s, v) BY evictNextDoes
<1>2. /\ pc[c] = "evictLoop" /\ s \in {"evictLoop", "classify"} /\ pc'[c] = s /\ victim'[c] = v
      /\ o \in evictable /\ evictable' = evictable \ {o} /\ evictionMutex = c
      /\ UNCHANGED <<pageVars, cache, evictionMutex, evicting, setVars, flushBuffer,
                     key, ref, how, consumerVars>>
  BY <1>1 DEF EvictNextBy, TypeOK, Calm
<1>3. OnlyAt(c) BY <1>1 DEF OnlyAt, EvictNextBy, TypeOK
<1>4. Flow' /\ Filled' /\ Holders' /\ \A x : Busy(x)' <=> Busy(x)
  BY <1>2, <1>3, QuietStep DEF Holding
<1>5. how[c] = nullptr BY <1>2 DEF ClientLocals, OnVictim, EvictPage
<1>6. Calm' BY <1>2, <1>3, <1>5 DEF OnlyAt, Calm, EvictPage
<1>7. Loaders'
  BY <1>2, <1>3, <1>5, LoadersQuiet DEF Seeking, Missed, Allocating, EvictPage
<1>8. \A d \in Clients \ {c} : ~Choosing(d)' /\ pc'[d] \notin {"mark", "reclassify", "evictFree"}
  BY <1>2, <1>3, MutexHolder DEF OnlyAt, Choosing
<1>9. s = "classify" => v = o /\ cache[v[1]] = v /\ ~Busy(v) /\ refCount[v] = 0
  BY <1>1, <1>2 DEF EvictNextBy, CanEvict, Victims
<1>10. Victims'
  BY <1>2, <1>4, <1>8, <1>9 DEF Victims, Choosing, EvictPage, TypeOK
<1> QED BY <1>4, <1>6, <1>7, <1>10

\* evictPage decides what to do with its victim, which is not on its way to the file:
\* the two tests of isInFlush() agree.
LEMMA PinsClassify ==
  ASSUME Shape, Pins, NEW c \in Clients, evictClassify(c) \/ evictReclassify(c)
  PROVE  Pins'
<1> USE Objects DEF Shape, Pins, Flushing, Flow, pageVars, cacheVars, setVars, consumerVars, goto
<1>1. pc[c] \in {"classify", "reclassify"} BY DEF evictClassify, evictReclassify
<1>2. /\ Choosing(c) /\ victim[c] \in Objs /\ ~Busy(victim[c]) /\ ~inFlush[victim[c]]
      /\ evictionMutex = c /\ how[c] = nullptr
  BY <1>1, MutexHolder DEF Choosing, ClientLocals, OnVictim, EvictPage, Victims, Dirt, Calm
<1>3. PICK s : /\ pc' = [pc EXCEPT ![c] = s]
               /\ \/ pc[c] = "classify" /\ s = "mark" /\ dirty[victim[c]]
                  \/ pc[c] = "classify" /\ s = "reclassify" /\ ~dirty[victim[c]]
                  \/ pc[c] = "reclassify" /\ s = "evictFree"
  <2>1. CASE evictClassify(c) BY <1>2, <2>1 DEF evictClassify
  <2>2. CASE evictReclassify(c) BY <1>2, <2>2, evictReclassifyDoes
  <2> QED BY <2>1, <2>2
<1>4. UNCHANGED <<pageVars, cacheVars, setVars, flushBuffer, key, ref, victim, how, consumerVars>>
  <2>1. CASE evictClassify(c) BY <2>1 DEF evictClassify
  <2>2. CASE evictReclassify(c) BY <1>2, <2>2, evictReclassifyDoes
  <2> QED BY <2>1, <2>2
<1>5. OnlyAt(c) BY <1>3, <1>4 DEF OnlyAt, TypeOK
<1>6. pc'[c] = s BY <1>3 DEF TypeOK
<1>7. Flow' /\ Filled' /\ Holders' /\ \A x : Busy(x)' <=> Busy(x)
  BY <1>3, <1>4, <1>5, <1>6, QuietStep DEF Holding
<1>8. Calm' BY <1>2, <1>3, <1>4, <1>5, <1>6 DEF OnlyAt, Calm, EvictPage
<1>9. Loaders'
  BY <1>2, <1>3, <1>4, <1>5, <1>6, LoadersQuiet DEF Seeking, Missed, Allocating, EvictPage
<1>10. \A d \in Clients \ {c} : ~Choosing(d)' /\ pc'[d] \notin {"mark", "reclassify", "evictFree"}
  BY <1>2, <1>5, MutexHolder DEF OnlyAt, Choosing
<1>11. Victims'
  <2>1. /\ cache[victim[c][1]] = victim[c] /\ victim[c] \notin evictable
        /\ dirty[victim[c]] \/ refCount[victim[c]] = 0
        /\ pc[c] = "reclassify" => ~dirty[victim[c]]
    BY <1>2 DEF Victims
  <2> QED BY <1>2, <1>3, <1>4, <1>6, <1>7, <1>10, <2>1 DEF Victims, Choosing, EvictPage
<1> QED BY <1>7, <1>8, <1>9, <1>11

\* evict() returns.
LEMMA PinsEnd ==
  ASSUME Shape, Pins, NEW c \in Clients, evictEnd(c)
  PROVE  Pins'
<1> USE Objects DEF Shape, Pins, Flushing, Flow, pageVars, cacheVars, setVars, consumerVars, goto
<1>1. /\ pc[c] = "evictLoop" /\ pc' = [pc EXCEPT ![c] = "alloc"]
      /\ evictable' = {} /\ evictionMutex' = nullptr
      /\ UNCHANGED <<pageVars, cache, setVars, flushBuffer, key, ref, victim, how, consumerVars>>
  BY DEF evictEnd
<1>2. evictionMutex = c BY <1>1 DEF Calm
<1>3. OnlyAt(c) /\ pc'[c] = "alloc" BY <1>1 DEF OnlyAt, TypeOK
<1>4. Flow' /\ Filled' /\ Holders' /\ \A x : Busy(x)' <=> Busy(x)
  BY <1>1, <1>3, QuietStep DEF Holding
<1>5. Calm' BY <1>1, <1>2, <1>3 DEF OnlyAt, Calm, EvictPage
<1>6. Loaders' BY <1>1, <1>3, LoadersQuiet DEF Seeking, Missed, Allocating, EvictPage
<1>7. Victims' BY <1>1, <1>2, <1>3, MutexHolder, NoVictims DEF OnlyAt, Choosing
<1> QED BY <1>4, <1>5, <1>6, <1>7

-----------------------------------------------------------------------------
(* Steps that pin a page or give it up *)

\* A client pins a cached page: it found it under both locks, or the iterator found it in
\* the list of dirty pages.  No flush thread is inside flushLock() meanwhile.
LEMMA PinsHit ==
  ASSUME Shape, Fresh, Pins, NEW c \in Clients,
         getPageHit(c) \/ \E k \in Pages : iteratorNext(c, k)
  PROVE  Pins'
<1> USE Objects DEF Shape, Pins, Flushing, Flow, pageVars, cacheVars, setVars, consumerVars, goto
<1>1. PICK k \in Pages :
        /\ cache[k] # nullptr /\ pinObject(c, cache[k]) /\ key' = [key EXCEPT ![c] = k]
        /\ Readers = {} /\ pc' = [pc EXCEPT ![c] = "hold"]
        /\ UNCHANGED <<dirty, inFlush, inEviction, rawBytes, cache, evictable, setVars,
                       flushBuffer, victim, how, consumerVars>>
        /\ \/ pc[c] = "lookup" /\ evictionMutex = c /\ evictionMutex' = nullptr
           \/ pc[c] = "idle" /\ k \in dirtySet /\ evictionMutex' = evictionMutex
  <2>1. CASE getPageHit(c)
    <3>1. key[c] \in Pages /\ [key EXCEPT ![c] = key[c]] = key
      BY <2>1 DEF getPageHit, ClientLocals, TypeOK
    <3> QED BY <2>1, <3>1 DEF getPageHit, UnderBothLocks
  <2>2. CASE \E k \in Pages : iteratorNext(c, k) BY <2>2 DEF iteratorNext
  <2> QED BY <2>1, <2>2
<1>2. PICK o \in Objs : o = cache[k] BY <1>1 DEF TypeOK
<1>3. /\ refCount' = [refCount EXCEPT ![o] = @ + 1] /\ ref'[c] = o /\ key'[c] = k /\ pc'[c] = "hold"
      /\ OnlyAt(c)
  BY <1>1, <1>2 DEF pinObject, OnlyAt, TypeOK
<1>4. Flow' /\ \A x : Busy(x)' <=> Busy(x)
  <2>1. /\ \A d \in Clients : pc'[d] = "enqueue" <=> pc[d] = "enqueue"
        /\ \A d \in Clients : pc[d] = "enqueue" => victim'[d] = victim[d]
    BY <1>1, <1>3 DEF OnlyAt
  <2>2. \A q \in Consumers : qpc[q] # "remove" BY <1>1 DEF Readers
  <2> QED BY <1>1, <2>1, <2>2, FlowKept
<1>5. Filled' BY <1>1 DEF Filled
<1>6. rawBytes[o] BY <1>1, <1>2 DEF Filled, Readers
<1>7. Holders'
  <2>1. ~Holding(c) /\ Holding(c)' BY <1>1, <1>3 DEF Holding
  <2>2. \A d \in Clients \ {c} : /\ Holding(d)' <=> Holding(d)
                                 /\ ref'[d] = ref[d] /\ key'[d] = key[d]
    BY <1>3 DEF OnlyAt, Holding
  <2> QED BY <1>1, <1>2, <1>3, <1>6, <2>1, <2>2, CountUp
<1>8. Calm'
  <2>1. how'[c] \in Releases \cup {nullptr} BY <1>1 DEF Calm
  <2>2. \A d \in Clients \ {c} :
          pc[d] \in {"lookup", "cache", "dec", "scan", "evictLoop"} \cup EvictPage => evictionMutex' = d
    BY <1>1 DEF Calm
  <2> QED BY <1>3, <2>1, <2>2 DEF OnlyAt, Calm, EvictPage
<1>9. Loaders'
  <2>1. ~Seeking(c)' /\ ~Missed(c)' /\ pc'[c] # "insertLoaded"
    BY <1>3 DEF Seeking, Missed, Allocating, EvictPage
  <2> QED BY <1>1, <1>3, <2>1, LoadersKept DEF Loaders
<1>10. Victims'
  <2>1. CASE pc[c] = "lookup"
    <3>1. evictable = {} /\ \A d \in Clients : ~Choosing(d)
      BY <1>1, <2>1, MutexHolder DEF EvictPage, Choosing
    <3> QED BY <1>1, <1>3, <3>1, NoVictims DEF OnlyAt, Choosing
  <2>2. CASE pc[c] = "idle"
    <3>1. dirty[o] BY <1>1, <1>2, <2>2, ListedOnce DEF Fresh, AllListed, Listed
    <3>2. \A x \in Objs : refCount'[x] = refCount[x] \/ dirty[x] BY <1>3, <3>1 DEF TypeOK
    <3>3. \A d \in Clients : (Choosing(d)' <=> Choosing(d)) /\ (Choosing(d) => victim[d] \in Objs)
      BY <1>3, <2>2 DEF OnlyAt, Choosing, ClientLocals, OnVictim, EvictPage
    <3>4. UNCHANGED <<evictionMutex, victim, dirty, cache, evictable>> BY <1>1, <2>2
    <3>5. evictable' # {} => evictionMutex' # nullptr /\ pc'[evictionMutex'] \in {"evictLoop"} \cup EvictPage
      BY <1>3, <2>2, <3>4 DEF Victims, OnlyAt, EvictPage, TypeOK
    <3>6. \A d \in Clients : pc'[d] \in {"mark", "reclassify", "evictFree"} => pc'[d] = pc[d]
      BY <1>3 DEF OnlyAt
    <3> QED BY <1>4, <3>2, <3>3, <3>4, <3>5, <3>6 DEF Victims
  <2> QED BY <1>1, <2>1, <2>2
<1> QED BY <1>4, <1>5, <1>7, <1>8, <1>9, <1>10

\* A client caches the page it has made or loaded, which is not there yet.
LEMMA PinsInsert ==
  ASSUME Shape, Fresh, Pins, NEW c \in Clients, insertNewPage(c) \/ insertLoadedPage(c)
  PROVE  Pins'
<1> USE Objects DEF Shape, Pins, Flushing, Flow, pageVars, cacheVars, setVars, consumerVars, goto
<1>1. PICK s :
        /\ cachePage(ref[c]) /\ refCount' = [refCount EXCEPT ![ref[c]] = @ + 1]
        /\ pc' = [pc EXCEPT ![c] = s] /\ evictionMutex' = nullptr
        /\ UNCHANGED <<dirty, inFlush, inEviction, rawBytes, evictable, setVars, flushBuffer,
                       key, ref, victim, how, consumerVars>>
        /\ \/ pc[c] = "cache" /\ evictionMutex = c /\ Readers = {} /\ s = "addDirty"
           \/ pc[c] = "insertLoaded" /\ evictionMutex = nullptr /\ s = "hold"
  <2>1. CASE insertNewPage(c) BY <2>1 DEF insertNewPage, UnderBothLocks
  <2>2. CASE insertLoadedPage(c) BY <2>2 DEF insertLoadedPage
  <2> QED BY <2>1, <2>2
<1>2. PICK o \in Objs : o = ref[c] BY <1>1 DEF ClientLocals
<1>3. o[1] = key[c] /\ key[c] \in Pages BY <1>1, <1>2 DEF ClientLocals
<1>4. cache[key[c]] = nullptr /\ rawBytes[o]
  <2>1. CASE pc[c] = "cache"
    BY <1>2, <2>1 DEF Fresh, Creators, Creating, Maker, ClientLocals
  <2>2. CASE pc[c] = "insertLoaded" BY <1>2, <2>2 DEF Loaders, Missed
  <2> QED BY <1>1, <2>1, <2>2
<1>5. cache' = [cache EXCEPT ![key[c]] = o] BY <1>1, <1>2, <1>3, <1>4 DEF cachePage
<1>6. OnlyAt(c) /\ pc'[c] = s /\ pc[c] # s BY <1>1 DEF OnlyAt, TypeOK
<1>7. Flow' /\ \A x : Busy(x)' <=> Busy(x)
  <2>1. /\ \A d \in Clients : pc'[d] = "enqueue" <=> pc[d] = "enqueue"
        /\ \A d \in Clients : pc[d] = "enqueue" => victim'[d] = victim[d]
    BY <1>1, <1>6 DEF OnlyAt
  <2>2. \A x \in Objs : cache[x[1]] = x => cache'[x[1]] = x BY <1>3, <1>4, <1>5 DEF TypeOK
  <2>3. \A q \in Consumers : qpc[q] = "remove" /\ refCount[cur[q]] = 0 => refCount'[cur[q]] = 0
    <3>1. \A q \in Consumers : qpc[q] = "remove" => cur[q] \in Objs \ {o}
      BY <1>3, <1>4 DEF Stages, SharedLocals
    <3> QED BY <1>1, <1>2, <3>1 DEF TypeOK
  <2> QED BY <1>1, <2>1, <2>2, <2>3, FlowKept
<1>8. Filled' BY <1>1, <1>4, <1>5 DEF Filled, TypeOK
<1>9. Holders'
  <2>1. ~Holding(c) /\ Holding(c)' BY <1>1, <1>6 DEF Holding
  <2>2. \A d \in Clients \ {c} : /\ Holding(d)' <=> Holding(d)
                                 /\ ref'[d] = ref[d] /\ key'[d] = key[d]
    BY <1>6 DEF OnlyAt, Holding
  <2>3. \A d \in Clients : Holding(d) => cache'[key[d]] = cache[key[d]]
    <3>1. \A d \in Clients : Holding(d) => key[d] \in Pages /\ cache[key[d]] = ref[d] /\ key[d] # key[c]
      BY <1>4 DEF Holders, HoldsOne, PinnedPageStays, Holding, ClientLocals
    <3> QED BY <1>5, <3>1 DEF TypeOK
  <2>4. cache'[key'[c]] = o BY <1>1, <1>3, <1>5 DEF TypeOK
  <2> QED BY <1>1, <1>2, <1>4, <2>1, <2>2, <2>3, <2>4, CountUp
<1>10. Calm'
  <2>1. \A d \in Clients \ {c} :
          pc[d] \notin {"lookup", "cache", "dec", "scan", "evictLoop"} \cup EvictPage
    BY <1>1 DEF Calm
  <2>2. how' = how BY <1>1
  <2> QED BY <1>1, <1>6, <2>1, <2>2 DEF OnlyAt, Calm, EvictPage
<1>11. Loaders'
  <2>1. ~Seeking(c)' /\ ~Missed(c)' /\ pc'[c] # "insertLoaded"
    BY <1>1, <1>6 DEF Seeking, Missed, Allocating, EvictPage
  <2>2. \A d \in Clients \ {c} : Missed(d) => key[d] # key[c]
    <3>1. CASE pc[c] = "cache"
      BY <3>1, MakerAlone DEF Maker, Missed, Allocating, EvictPage
    <3>2. CASE pc[c] = "insertLoaded" BY <3>2 DEF Loaders, Missed, Seeking
    <3> QED BY <1>1, <3>1, <3>2
  <2>3. \A d \in Clients \ {c} : Missed(d) => cache'[key[d]] = nullptr
    <3>1. \A d \in Clients : Missed(d) => key[d] \in Pages
      BY DEF Missed, Allocating, EvictPage, ClientLocals
    <3> QED BY <1>5, <2>2, <3>1 DEF Loaders, TypeOK
  <2>4. \A d \in Clients \ {c} : pc[d] = "insertLoaded" => rawBytes'[ref[d]] BY <1>1 DEF Loaders
  <2> QED BY <1>6, <2>1, <2>3, <2>4, LoadersKept
<1>12. Victims'
  <2>1. evictable = {} /\ \A d \in Clients : ~Choosing(d)
    BY <1>1, MutexHolder DEF EvictPage, Choosing
  <2> QED BY <1>1, <1>6, <2>1, NoVictims DEF OnlyAt, Choosing
<1> QED BY <1>7, <1>8, <1>9, <1>10, <1>11, <1>12

\* A client gives its page up, with the locks or without.
LEMMA PinsUnpin ==
  ASSUME Shape, Pins, NEW c \in Clients, unpinPage(c) \/ unlockedUnpin(c)
  PROVE  Pins'
<1> USE Objects DEF Shape, Pins, Flushing, Flow, pageVars, cacheVars, setVars, consumerVars, goto
<1>1. /\ pc' = [pc EXCEPT ![c] = "idle"] /\ ref' = [ref EXCEPT ![c] = nullptr]
      /\ how' = [how EXCEPT ![c] = nullptr] /\ decPageRefCount(key[c])
      /\ UNCHANGED <<dirty, inFlush, inEviction, rawBytes, cache, evictable, setVars,
                     flushBuffer, key, victim, consumerVars>>
      /\ \/ pc[c] = "dec" /\ evictionMutex = c /\ evictionMutex' = nullptr
         \/ pc[c] = "decRef" /\ evictionMutex' = evictionMutex
  <2>1. CASE unpinPage(c) BY <2>1 DEF unpinPage, done, UnderBothLocks
  <2>2. CASE unlockedUnpin(c)
    <3>1. pc[c] = "decRef" /\ how[c] = "decRef" BY <2>2 DEF unlockedUnpin, Calm
    <3> QED BY <2>2, <3>1 DEF unlockedUnpin, done
  <2> QED BY <2>1, <2>2
<1>2. OnlyAt(c) /\ pc'[c] = "idle" /\ how'[c] = nullptr BY <1>1 DEF OnlyAt, TypeOK
<1>3. Holders' /\ \A o \in Objs : refCount[o] = 0 => refCount'[o] = 0
  <2>1. Holding(c) /\ ~Holding(c)' /\ key[c] \in Pages BY <1>1, <1>2 DEF Holding, ClientLocals
  <2>2. \A d \in Clients \ {c} : (Holding(d)' <=> Holding(d)) /\ ref'[d] = ref[d]
    BY <1>2 DEF OnlyAt, Holding
  <2> QED BY <1>1, <2>1, <2>2, CountDown
<1>4. Flow' /\ \A x : Busy(x)' <=> Busy(x)
  <2>1. /\ \A d \in Clients : pc'[d] = "enqueue" <=> pc[d] = "enqueue"
        /\ \A d \in Clients : pc[d] = "enqueue" => victim'[d] = victim[d]
    BY <1>1, <1>2 DEF OnlyAt
  <2>2. \A q \in Consumers : qpc[q] = "remove" /\ refCount[cur[q]] = 0 => refCount'[cur[q]] = 0
    BY <1>3 DEF SharedLocals
  <2> QED BY <1>1, <2>1, <2>2, FlowKept
<1>5. Filled' BY <1>1 DEF Filled
<1>6. Calm'
  <2>1. \A d \in Clients \ {c} :
          pc[d] \in {"lookup", "cache", "dec", "scan", "evictLoop"} \cup EvictPage => evictionMutex' = d
    BY <1>1 DEF Calm
  <2> QED BY <1>2, <2>1 DEF OnlyAt, Calm, EvictPage
<1>7. Loaders'
  <2>1. ~Seeking(c)' /\ ~Missed(c)' /\ pc'[c] # "insertLoaded"
    BY <1>2 DEF Seeking, Missed, Allocating, EvictPage
  <2> QED BY <1>1, <1>2, <2>1, LoadersKept DEF Loaders
<1>8. Victims'
  <2>1. \A d \in Clients : (Choosing(d)' <=> Choosing(d)) /\ (Choosing(d) => victim[d] \in Objs)
    BY <1>1, <1>2 DEF OnlyAt, Choosing, ClientLocals, OnVictim, EvictPage
  <2>2. UNCHANGED <<victim, dirty, cache, evictable>> BY <1>1
  <2>3. evictable' # {} => evictionMutex' # nullptr /\ pc'[evictionMutex'] \in {"evictLoop"} \cup EvictPage
    BY <1>1, <1>2, MutexHolder DEF OnlyAt, EvictPage
  <2>4. \A d \in Clients : pc'[d] \in {"mark", "reclassify", "evictFree"} => pc'[d] = pc[d]
    BY <1>2 DEF OnlyAt
  <2> QED BY <1>3, <1>4, <2>1, <2>2, <2>3, <2>4 DEF Victims
<1> QED BY <1>3, <1>4, <1>5, <1>6, <1>7, <1>8

\* A new object, which nobody else knows, gets a frame.
LEMMA PinsAllocate ==
  ASSUME Shape, Fresh, Pins, NEW c \in Clients, allocate(c)
  PROVE  Pins'
<1> USE Objects DEF Shape, Pins, Flushing, Flow, pageVars, cacheVars, setVars, consumerVars, goto
<1>1. PICK o \in Objs, s \in {"insert", "insertLoaded"} : AllocateBy(c, o, s) BY allocateDoes
<1>2. OnlyAt(c) /\ pc[c] = "alloc" /\ pc'[c] = s /\ ref'[c] = o /\ key'[c] = key[c] /\ how'[c] = how[c]
  BY <1>1 DEF AllocateBy, OnlyAt, TypeOK
<1>3. ~Born(o) BY <1>1 DEF AllocateBy, Born, TypeOK
<1>4. ~Busy(o)
  <2>1. ~InBuffer(o) BY <1>3 DEF InBuffer, SharedLocals
  <2>2. \A q \in Consumers : ~With(q, o) BY <1>3 DEF With, SharedLocals
  <2>3. \A d \in Clients : ~Enqueued(d, o)
    BY <1>3 DEF Enqueued, ClientLocals, OnVictim, EvictPage
  <2> QED BY <2>1, <2>2, <2>3 DEF Busy
<1>5. /\ \A x \in Objs : rawBytes[x] => rawBytes'[x]
      /\ \A x \in Objs \ {o} : rawBytes'[x] = rawBytes[x] /\ dirty'[x] = dirty[x]
      /\ rawBytes'[o]
      /\ UNCHANGED <<refCount, inFlush, inEviction, cacheVars, dirtySet, appended, flushBuffer,
                     key, victim, how, consumerVars>>
  BY <1>1 DEF AllocateBy, TypeOK
<1>6. dirty'[o] => o[2] = 0 /\ appended[o[1]] = 0
  <2>1. dirty'[o] => o[2] = 0 /\ key[c] \in Pages /\ born[key[c]] = 0 /\ o[1] = key[c]
    BY <1>1, ZenonT(60) DEF AllocateBy, TypeOK
  <2> QED BY <2>1 DEF Fresh, Unborn, Private
<1>7. Flow' /\ \A x : Busy(x)' <=> Busy(x)
  <2>1. /\ \A d \in Clients : pc'[d] = "enqueue" <=> pc[d] = "enqueue"
        /\ \A d \in Clients : pc[d] = "enqueue" => victim'[d] = victim[d]
    BY <1>2, <1>5 DEF OnlyAt
  <2>2. \A x \in Objs : Busy(x) => rawBytes'[x] = rawBytes[x] /\ dirty'[x] = dirty[x]
    BY <1>4, <1>5
  <2>3. \A x \in Objs : dirty'[x] => dirty[x] \/ (x[2] = 0 /\ appended[x[1]] = 0)
    BY <1>5, <1>6
  <2> QED BY <1>5, <2>1, <2>2, <2>3, FlowKept
<1>8. Filled' BY <1>5 DEF Filled, TypeOK
<1>9. Holders'
  <2>1. \A d \in Clients : Holding(d)' <=> Holding(d) BY <1>2 DEF OnlyAt, Holding
  <2>2. \A d \in Clients : Holding(d) => ref'[d] = ref[d] /\ d # c /\ ref[d] \in Objs
    BY <1>2 DEF OnlyAt, Holding, Holders, HoldsOne, TypeOK
  <2> QED BY <1>5, <2>1, <2>2, CountSame
<1>10. Calm' BY <1>2, <1>5 DEF OnlyAt, Calm, EvictPage
<1>11. Loaders'
  <2>1. Seeking(c) /\ Missed(c) BY <1>2 DEF Seeking, Missed, Allocating
  <2>2. cache[key[c]] = nullptr BY <2>1 DEF Loaders
  <2>3. \A d \in Clients : pc[d] = "insertLoaded" => ref[d] \in Objs /\ rawBytes[ref[d]]
    BY DEF Loaders, ClientLocals
  <2> QED BY <1>2, <1>5, <2>1, <2>2, <2>3, LoadersKept DEF Loaders
<1>12. Victims'
  <2>1. \A d \in Clients : /\ Choosing(d)' <=> Choosing(d)
                           /\ Choosing(d) => victim[d] \in Objs \ {o}
    BY <1>2, <1>3 DEF OnlyAt, Choosing, ClientLocals, OnVictim, EvictPage
  <2>2. \A d \in Clients : pc'[d] \in {"mark", "reclassify", "evictFree"} => pc'[d] = pc[d] /\ Choosing(d)
    BY <1>2 DEF OnlyAt, Choosing
  <2>3. evictable' # {} => evictionMutex' # nullptr /\ pc'[evictionMutex'] \in {"evictLoop"} \cup EvictPage
    BY <1>2, <1>5, MutexHolder DEF OnlyAt, EvictPage
  <2> QED BY <1>5, <1>7, <2>1, <2>2, <2>3 DEF Victims
<1> QED BY <1>7, <1>8, <1>9, <1>10, <1>11, <1>12

-----------------------------------------------------------------------------
(* evictPage on its victim *)

\* A dirty victim is marked: it has its bytes and is not in the file.
LEMMA PinsMark ==
  ASSUME Shape, Pins, NEW c \in Clients, evictMark(c)
  PROVE  Pins'
<1> USE Objects DEF Shape, Pins, Flushing, Flow, pageVars, cacheVars, setVars, consumerVars, goto
<1>1. /\ pc[c] = "mark" /\ pc' = [pc EXCEPT ![c] = "enqueue"]
      /\ inFlush' = [inFlush EXCEPT ![victim[c]] = TRUE]
      /\ inEviction' = [inEviction EXCEPT ![victim[c]] = TRUE]
      /\ UNCHANGED <<refCount, dirty, rawBytes, cacheVars, setVars, flushBuffer,
                     key, ref, victim, how, consumerVars>>
  BY DEF evictMark
<1>2. Choosing(c) /\ evictionMutex = c /\ how[c] = nullptr
  BY <1>1, MutexHolder DEF Choosing, Calm, EvictPage
<1>3. PICK v \in Objs : v = victim[c] BY <1>1 DEF ClientLocals, OnVictim, EvictPage
<1>4. dirty[v] /\ cache[v[1]] = v /\ ~Busy(v) BY <1>1, <1>2, <1>3 DEF Victims
<1>5. Ready(v)
  <2>1. appended[v[1]] = 0 BY <1>4 DEF Dirt, Busy
  <2>2. rawBytes[v] BY <1>4 DEF Filled, Busy, With
  <2> QED BY <1>4, <2>1, <2>2 DEF Ready
<1>6. OnlyAt(c) /\ pc'[c] = "enqueue" BY <1>1 DEF OnlyAt, TypeOK
<1>7. \A d \in Clients \ {c} : pc[d] # "enqueue" /\ ~Choosing(d) BY <1>2, MutexHolder
<1>8. /\ \A x \in Objs : inFlush'[x] <=> inFlush[x] \/ x = v
      /\ \A x \in Objs : inEviction'[x] <=> inEviction[x] \/ x = v
  BY <1>1, <1>3 DEF TypeOK
<1>9. /\ \A x : InBuffer(x)' <=> InBuffer(x)
      /\ \A x, q : With(q, x)' <=> With(q, x)
      /\ \A x : (\E d \in Clients : Enqueued(d, x)') <=> x = v
      /\ \A x : \A d \in Clients : ~Enqueued(d, x)
  <2>1. \A x : InBuffer(x)' <=> InBuffer(x) BY <1>1 DEF InBuffer
  <2>2. \A x, q : With(q, x)' <=> With(q, x) BY <1>1 DEF With
  <2>3. \A x : \A d \in Clients : ~Enqueued(d, x) BY <1>1, <1>7 DEF Enqueued
  <2>4. \A x : (\E d \in Clients : Enqueued(d, x)') <=> x = v
    BY <1>1, <1>3, <1>6, <1>7 DEF OnlyAt, Enqueued
  <2> QED BY <2>1, <2>2, <2>3, <2>4
<1>10. \A x : Busy(x)' <=> Busy(x) \/ x = v BY <1>9 DEF Busy
<1>11. ~InBuffer(v) /\ \A q \in Consumers : ~With(q, v) BY <1>4 DEF Busy
<1>12. \A d \in Clients : pc'[d] = "enqueue" => d = c /\ victim'[d] = v
  BY <1>1, <1>3, <1>6, <1>7 DEF OnlyAt
<1>13. Once'
  <2>1. \A d \in Clients : pc'[d] = "enqueue" =>
          ~InBuffer(victim[d])' /\ \A q \in Consumers : ~With(q, victim[d])'
    BY <1>1, <1>9, <1>11, <1>12
  <2>2. UNCHANGED <<flushBuffer, qpc, cur>> BY <1>1
  <2> QED BY <1>9, <2>1, <2>2 DEF Once
<1>14. Stages'
  <2>1. \A x \in Objs : Ready(x)' <=> Ready(x) BY <1>1 DEF Ready
  <2>2. \A x \in Objs : InBuffer(x)' => inFlush'[x] /\ Ready(x)' BY <1>8, <1>9, <2>1 DEF Stages
  <2>3. \A d \in Clients : pc'[d] = "enqueue" => inFlush'[victim'[d]] /\ Ready(victim[d])'
    BY <1>5, <1>8, <1>12, <1>1 DEF Ready
  <2>4. \A q \in Consumers : qpc[q] # "pop" => cur[q] \in Objs /\ cur[q] # v
    BY <1>11 DEF With, SharedLocals
  <2>5. \A q \in Consumers : qpc[q] = "append" => Ready(cur[q])' BY <1>1 DEF Stages, Ready
  <2>6. \A q \in Consumers : qpc[q] = "remove" => Droppable(cur[q])' = Droppable(cur[q])
    BY <1>1, <1>8, <2>4 DEF Droppable, TypeOK
  <2>7. \A q \in Consumers : qpc[q] # "pop" => (inFlush'[cur[q]] <=> inFlush[cur[q]])
    BY <1>8, <2>4
  <2>8. UNCHANGED <<qpc, cur, rawBytes, cache>> BY <1>1
  <2> QED BY <2>2, <2>3, <2>5, <2>6, <2>7, <2>8 DEF Stages
<1>15. Dirt'
  <2>1. AppendedOnce' BY <1>1 DEF Dirt, AppendedOnce
  <2>2. \A x \in Objs : Busy(x)' => dirty'[x] /\ inEviction'[x] BY <1>1, <1>4, <1>8, <1>10 DEF Dirt
  <2>3. \A x \in Objs : inFlush'[x] => Busy(x)' BY <1>8, <1>10 DEF Dirt
  <2>4. UNCHANGED <<dirty, appended>> BY <1>1
  <2> QED BY <1>9, <2>1, <2>2, <2>3, <2>4 DEF Dirt
<1>16. Filled' BY <1>1 DEF Filled
<1>17. Holders'
  <2>1. \A d \in Clients : Holding(d)' <=> Holding(d) BY <1>1, <1>6 DEF OnlyAt, Holding
  <2> QED BY <1>1, <2>1, CountSame
<1>18. Calm' BY <1>1, <1>2, <1>6 DEF OnlyAt, Calm, EvictPage
<1>19. Loaders'
  BY <1>1, <1>2, <1>6, LoadersQuiet DEF Seeking, Missed, Allocating, EvictPage
<1>20. Victims'
  <2>1. \A d \in Clients : ~Choosing(d)' /\ pc'[d] \notin {"mark", "reclassify", "evictFree"}
    BY <1>6, <1>7 DEF OnlyAt, Choosing
  <2>2. v \notin evictable BY <1>2, <1>3 DEF Victims
  <2>3. UNCHANGED <<evictable, cache, evictionMutex>> BY <1>1
  <2> QED BY <1>2, <1>6, <1>10, <2>1, <2>2, <2>3 DEF Victims, EvictPage
<1> QED BY <1>13, <1>14, <1>15, <1>16, <1>17, <1>18, <1>19, <1>20

\* The victim goes into the flush buffer.
LEMMA PinsEnqueue ==
  ASSUME Shape, Pins, NEW c \in Clients, evictEnqueue(c)
  PROVE  Pins'
<1> USE Objects DEF Shape, Pins, Flushing, Flow, pageVars, cacheVars, setVars, consumerVars, goto
<1>1. /\ pc[c] = "enqueue" /\ Len(flushBuffer) < FlushCap
      /\ flushBuffer' = Append(flushBuffer, victim[c])
      /\ UNCHANGED <<pageVars, cacheVars, setVars, key, consumerVars>>
  BY DEF evictEnqueue
<1>2. evictionMutex = c /\ how[c] = nullptr BY <1>1, MutexHolder DEF Calm, EvictPage
<1>3. PICK v \in Objs : v = victim[c] BY <1>1 DEF ClientLocals, OnVictim, EvictPage
<1>4. /\ OnlyAt(c) /\ pc'[c] = "evictLoop" /\ ref'[c] = ref[c] /\ how'[c] = nullptr
  <2>1. PICK s, r : ReturnBy(c, s, r) BY evictPageReturnDoes DEF evictEnqueue
  <2> QED BY <1>1, <1>2, <2>1 DEF ReturnBy, OnlyAt, TypeOK
<1>5. PICK n \in Nat : n = Len(flushBuffer) BY DEF TypeOK
<1>6. /\ Len(flushBuffer') = n + 1 /\ flushBuffer'[n + 1] = v
      /\ \A i \in 1 .. n : flushBuffer'[i] = flushBuffer[i]
  BY <1>1, <1>3, <1>5, EnqueueDoes
<1>7. \A d \in Clients \ {c} : pc[d] # "enqueue" /\ ~Choosing(d) BY <1>2, MutexHolder
<1>8. ~InBuffer(v) /\ \A q \in Consumers : ~With(q, v) BY <1>1, <1>3 DEF Once
<1>9. \A x : InBuffer(x)' <=> InBuffer(x) \/ x = v BY <1>5, <1>6 DEF InBuffer
<1>10. \A x, q : With(q, x)' <=> With(q, x) BY <1>1 DEF With
<1>11. /\ \A x : \A d \in Clients : ~Enqueued(d, x)'
       /\ \A x : (\E d \in Clients : Enqueued(d, x)) <=> x = v
       /\ \A d \in Clients : pc'[d] # "enqueue"
  BY <1>1, <1>3, <1>4, <1>7 DEF OnlyAt, Enqueued
<1>12. \A x : Busy(x)' <=> Busy(x) BY <1>9, <1>10, <1>11 DEF Busy
<1>13. Once'
  <2>1. \A i, j \in 1 .. Len(flushBuffer') : flushBuffer'[i] = flushBuffer'[j] => i = j
    <3>1. \A i \in 1 .. Len(flushBuffer') : i = n + 1 \/ i \in 1 .. n BY <1>6
    <3>2. \A i \in 1 .. n : flushBuffer'[i] # v BY <1>5, <1>6, <1>8 DEF InBuffer
    <3>3. \A i, j \in 1 .. n : flushBuffer'[i] = flushBuffer'[j] => i = j BY <1>5, <1>6 DEF Once
    <3> QED BY <1>6, <3>1, <3>2, <3>3
  <2>2. \A q \in Consumers : qpc[q] # "pop" => ~InBuffer(cur[q])'
    <3>1. \A q \in Consumers : qpc[q] # "pop" => cur[q] # v BY <1>8 DEF With
    <3>2. \A q \in Consumers : qpc[q] # "pop" => ~InBuffer(cur[q]) BY DEF Once
    <3> QED BY <1>1, <1>9, <3>1, <3>2
  <2>3. UNCHANGED <<qpc, cur>> BY <1>1
  <2> QED BY <1>10, <1>11, <2>1, <2>2, <2>3 DEF Once
<1>14. Stages'
  <2>1. \A x \in Objs : Ready(x)' <=> Ready(x) BY <1>1 DEF Ready
  <2>2. inFlush[v] /\ Ready(v) BY <1>1, <1>3 DEF Stages
  <2>3. \A x \in Objs : InBuffer(x)' => inFlush'[x] /\ Ready(x)' BY <1>1, <1>9, <2>1, <2>2 DEF Stages
  <2>4. \A q \in Consumers : qpc[q] = "append" => Ready(cur[q])' BY <1>1 DEF Stages, Ready
  <2>5. \A q \in Consumers : qpc[q] = "remove" => Droppable(cur[q])' = Droppable(cur[q])
    BY <1>1 DEF Droppable
  <2>6. UNCHANGED <<qpc, cur, rawBytes, cache, inFlush>> BY <1>1
  <2> QED BY <1>11, <2>3, <2>4, <2>5, <2>6 DEF Stages
<1>15. Dirt'
  <2>1. AppendedOnce' BY <1>1 DEF Dirt, AppendedOnce
  <2>2. UNCHANGED <<dirty, appended, inFlush, inEviction>> BY <1>1
  <2> QED BY <1>10, <1>12, <2>1, <2>2 DEF Dirt
<1>16. Filled' BY <1>1 DEF Filled
<1>17. Holders'
  <2>1. \A d \in Clients : Holding(d)' <=> Holding(d) BY <1>1, <1>4 DEF OnlyAt, Holding
  <2>2. \A d \in Clients : ref'[d] = ref[d] BY <1>4 DEF OnlyAt
  <2> QED BY <1>1, <2>1, <2>2, CountSame
<1>18. Calm' BY <1>1, <1>2, <1>4 DEF OnlyAt, Calm, EvictPage
<1>19. Loaders'
  BY <1>1, <1>2, <1>4, LoadersQuiet DEF Seeking, Missed, Allocating, EvictPage
<1>20. Victims'
  <2>1. \A d \in Clients : ~Choosing(d)' /\ pc'[d] \notin {"mark", "reclassify", "evictFree"}
    BY <1>4, <1>7 DEF OnlyAt, Choosing
  <2>2. UNCHANGED <<evictable, cache, evictionMutex>> BY <1>1
  <2> QED BY <1>2, <1>4, <1>12, <2>1, <2>2 DEF Victims, EvictPage
<1> QED BY <1>13, <1>14, <1>15, <1>16, <1>17, <1>18, <1>19, <1>20

\* A reference count of 0: nobody holds the object.
LEMMA Unheld ==
  ASSUME Holders, NEW o \in Objs, refCount[o] = 0, NEW d \in Clients, Holding(d)
  PROVE  ref[d] # o
<1>1. Cardinality(HoldersOf(o)) = 0 BY DEF Holders, RefCountIsHolders, HoldersOf
<1>2. HoldersOf(o) = {} BY <1>1, CountFinite, FS_EmptySet
<1> QED BY <1>2 DEF HoldersOf

\* A clean victim is freed: nobody pinned it since evictPage looked at its count.
LEMMA PinsEvictFree ==
  ASSUME Shape, Pins, NEW c \in Clients, evictFree(c)
  PROVE  Pins'
<1> USE Objects DEF Shape, Pins, Flushing, Flow, pageVars, cacheVars, setVars, consumerVars, goto
<1>1. pc[c] = "evictFree" BY DEF evictFree
<1>2. Choosing(c) /\ evictionMutex = c /\ how[c] = nullptr
  BY <1>1, MutexHolder DEF Choosing, Calm, EvictPage
<1>3. PICK v \in Objs : v = victim[c] BY <1>1 DEF ClientLocals, OnVictim, EvictPage
<1>4. refCount[v] = 0 /\ cache[v[1]] = v /\ ~Busy(v) /\ v \notin evictable
  BY <1>1, <1>2, <1>3 DEF Victims
<1>5. /\ rawBytes' = [rawBytes EXCEPT ![v] = FALSE] /\ cache' = [cache EXCEPT ![v[1]] = nullptr]
      /\ UNCHANGED <<refCount, dirty, inFlush, inEviction, evictionMutex, evicting, evictable,
                     setVars, flushBuffer, key, consumerVars>>
  BY <1>3 DEF evictFree
<1>6. /\ OnlyAt(c) /\ pc'[c] = "evictLoop" /\ ref'[c] = ref[c] /\ how'[c] = nullptr
  <2>1. PICK s, r : ReturnBy(c, s, r) BY evictPageReturnDoes DEF evictFree
  <2> QED BY <1>2, <1>5, <2>1 DEF ReturnBy, OnlyAt, TypeOK
<1>7. \A d \in Clients \ {c} : pc[d] # "enqueue" /\ ~Choosing(d) BY <1>2, MutexHolder
<1>8. /\ \A x \in Objs \ {v} : rawBytes'[x] = rawBytes[x]
      /\ \A x \in Objs \ {v} : cache[x[1]] = x => cache'[x[1]] = x
      /\ \A k \in Pages : cache[k] # v => cache'[k] = cache[k]
      /\ \A k \in Pages : cache'[k] \in {cache[k], nullptr}
  BY <1>4, <1>5 DEF TypeOK
<1>9. Flow' /\ \A x : Busy(x)' <=> Busy(x)
  <2>1. /\ \A d \in Clients : pc'[d] = "enqueue" <=> pc[d] = "enqueue"
        /\ \A d \in Clients : pc[d] = "enqueue" => victim'[d] = victim[d]
    BY <1>1, <1>6 DEF OnlyAt
  <2>2. \A x \in Objs : Busy(x) => /\ rawBytes'[x] = rawBytes[x] /\ dirty'[x] = dirty[x]
                                   /\ cache[x[1]] = x => cache'[x[1]] = x
    BY <1>4, <1>5, <1>8
  <2> QED BY <1>5, <2>1, <2>2, FlowKept
<1>10. Filled'
  <2>1. \A k \in Pages : cache'[k] # nullptr => cache'[k] = cache[k] /\ cache[k] \in Objs \ {v}
    BY <1>4, <1>5 DEF SharedLocals, TypeOK
  <2> QED BY <1>5, <1>8, <2>1 DEF Filled
<1>11. Holders'
  <2>1. \A d \in Clients : Holding(d)' <=> Holding(d) BY <1>1, <1>6 DEF OnlyAt, Holding
  <2>2. \A d \in Clients : ref'[d] = ref[d] BY <1>6 DEF OnlyAt
  <2>3. \A d \in Clients : Holding(d) =>
          ref[d] \in Objs \ {v} /\ key[d] \in Pages /\ cache[key[d]] = ref[d]
    BY <1>4, Unheld DEF Holders, HoldsOne, PinnedPageStays, Holding, ClientLocals, TypeOK
  <2> QED BY <1>5, <1>8, <2>1, <2>2, <2>3, CountSame
<1>12. Calm' BY <1>2, <1>5, <1>6 DEF OnlyAt, Calm, EvictPage
<1>13. Loaders'
  <2>1. Missed(c) /\ Seeking(c) /\ key[c] \in Pages
    BY <1>1, <1>2 DEF Missed, Seeking, Allocating, EvictPage, ClientLocals
  <2>2. \A d \in Clients : Missed(d) => key[d] \in Pages
    BY DEF Missed, Allocating, EvictPage, ClientLocals
  <2>3. \A d \in Clients : Missed(d) => cache'[key[d]] = nullptr BY <1>8, <2>2 DEF Loaders
  <2>4. \A d \in Clients : pc[d] = "insertLoaded" => ref[d] \in Objs \ {v}
    BY <1>4 DEF Loaders, Missed, ClientLocals
  <2> QED BY <1>5, <1>6, <1>8, <2>1, <2>3, <2>4, LoadersKept DEF Loaders
<1>14. Victims'
  <2>1. \A d \in Clients : ~Choosing(d)' /\ pc'[d] \notin {"mark", "reclassify", "evictFree"}
    BY <1>6, <1>7 DEF OnlyAt, Choosing
  <2>2. \A x \in evictable : x \in Objs /\ cache'[x[1]] \in {x, nullptr}
    BY <1>8 DEF Victims, TypeOK
  <2> QED BY <1>2, <1>5, <1>6, <1>9, <2>1, <2>2 DEF Victims, EvictPage
<1> QED BY <1>9, <1>10, <1>11, <1>12, <1>13, <1>14

-----------------------------------------------------------------------------
(* Steps of a flush thread *)

\* A flush thread leaves the clients alone.
LEMMA FlushStep ==
  ASSUME Shape, Pins, Flow', Filled', UNCHANGED <<refCount, clientVars, evictionMutex, evictable>>,
         \A o : Busy(o)' => Busy(o),
         \A o \in Objs : ~Busy(o) => dirty'[o] = dirty[o],
         \A k \in Pages : cache'[k] \in {cache[k], nullptr},
         \A o \in Objs : ~Busy(o) \/ refCount[o] # 0 =>
            /\ rawBytes[o] => rawBytes'[o]
            /\ cache[o[1]] = o => cache'[o[1]] = o
  PROVE  Pins'
<1> USE Objects DEF Shape, Pins, Flushing, Flow, clientVars
<1>1. Calm' BY DEF Calm
<1>2. Loaders'
  <2>1. \A d \in Clients : (Missed(d)' <=> Missed(d)) /\ (Seeking(d)' <=> Seeking(d))
    BY DEF Missed, Seeking, Allocating
  <2>2. \A d \in Clients : Missed(d) => key[d] \in Pages
    BY DEF Missed, Allocating, EvictPage, ClientLocals
  <2>3. \A d \in Clients : Missed(d) => cache'[key[d]] = nullptr BY <2>2 DEF Loaders
  <2>4. \A d \in Clients : pc[d] = "insertLoaded" => ref[d] \in Objs /\ ~Busy(ref[d])
    BY DEF Dirt, ClientLocals
  <2>5. \A d \in Clients : pc[d] = "insertLoaded" => rawBytes'[ref[d]] BY <2>4 DEF Loaders
  <2> QED BY <2>1, <2>3, <2>5 DEF Loaders
<1>3. Holders'
  <2>1. \A d \in Clients : Holding(d)' <=> Holding(d) BY DEF Holding
  <2>2. \A d \in Clients : Holding(d) =>
          ref[d] \in Objs /\ key[d] \in Pages /\ cache[key[d]] = ref[d] /\ refCount[ref[d]] # 0
    BY Unheld DEF Holders, HoldsOne, PinnedPageStays, Holding, ClientLocals, TypeOK
  <2>3. \A d \in Clients : Holding(d) => ref[d][1] = key[d] BY <2>2 DEF SharedLocals
  <2> QED BY <2>1, <2>2, <2>3, CountSame
<1>4. Victims'
  <2>1. \A d \in Clients : /\ Choosing(d)' <=> Choosing(d)
                           /\ Choosing(d) => victim[d] \in Objs
    BY DEF Choosing, ClientLocals, OnVictim, EvictPage
  <2>2. \A d \in Clients : pc[d] \in {"mark", "reclassify", "evictFree"} => Choosing(d) BY DEF Choosing
  <2>3. \A x \in evictable : x \in Objs /\ cache'[x[1]] \in {x, nullptr} BY DEF Victims, TypeOK
  <2> QED BY <2>1, <2>2, <2>3 DEF Victims
<1> QED BY <1>1, <1>2, <1>3, <1>4

\* A flush thread takes the next page out of the flush buffer.
LEMMA PinsPop ==
  ASSUME Shape, Pins, NEW q \in Consumers, popPageFromHead(q)
  PROVE  Pins'
<1> USE Objects DEF Shape, Pins, Flushing, Flow, pageVars, cacheVars, setVars, clientVars
<1>1. PICK o \in Objs : o = flushBuffer[1] BY PopDoes
<1>2. /\ qpc[q] = "pop" /\ qpc' = [qpc EXCEPT ![q] = "append"] /\ cur' = [cur EXCEPT ![q] = o]
      /\ UNCHANGED <<pageVars, cacheVars, setVars, clientVars>>
  BY <1>1, PopDoes
<1>3. PICK n \in Nat \ {0} : n = Len(flushBuffer) BY PopDoes
<1>4. /\ Len(flushBuffer') = n - 1
      /\ \A i \in 1 .. n - 1 : i + 1 \in 1 .. n /\ flushBuffer'[i] = flushBuffer[i + 1]
  BY <1>3, PopDoes
<1>5. InBuffer(o) BY <1>1, <1>3 DEF InBuffer
<1>6. \A x : InBuffer(x)' <=> InBuffer(x) /\ x # o
  <2>1. \A i \in 2 .. n : i - 1 \in 1 .. n - 1 /\ flushBuffer'[i - 1] = flushBuffer[i] BY <1>3, <1>4
  <2>2. \A i \in 2 .. n : flushBuffer[i] # o BY <1>1, <1>3 DEF Once
  <2>3. \A x : InBuffer(x)' => InBuffer(x) /\ x # o BY <1>3, <1>4, <2>2 DEF InBuffer
  <2>4. \A x : InBuffer(x) /\ x # o => InBuffer(x)'
    <3> SUFFICES ASSUME NEW x, InBuffer(x), x # o PROVE InBuffer(x)' OBVIOUS
    <3>1. PICK i \in 1 .. n : flushBuffer[i] = x BY <1>3 DEF InBuffer
    <3>2. i \in 2 .. n BY <1>1, <3>1
    <3> QED BY <1>4, <2>1, <3>1, <3>2 DEF InBuffer
  <2> QED BY <2>3, <2>4
<1>7. /\ qpc'[q] = "append" /\ cur'[q] = o
      /\ \A r \in Consumers \ {q} : qpc'[r] = qpc[r] /\ cur'[r] = cur[r]
  BY <1>2 DEF TypeOK
<1>8. \A r \in Consumers, x \in Objs : With(r, x)' <=> With(r, x) \/ (r = q /\ x = o)
  BY <1>2, <1>7 DEF With
<1>9. \A x : \A d \in Clients : Enqueued(d, x)' <=> Enqueued(d, x) BY <1>2 DEF Enqueued
<1>10. \A x \in Objs : Busy(x)' <=> Busy(x) BY <1>5, <1>6, <1>8, <1>9 DEF Busy
<1>11. (\A r \in Consumers : ~With(r, o)) /\ \A d \in Clients : ~Enqueued(d, o)
  BY <1>5 DEF Once, With, Enqueued
<1>12. Once'
  <2>1. \A i, j \in 1 .. Len(flushBuffer') : flushBuffer'[i] = flushBuffer'[j] => i = j
    BY <1>3, <1>4 DEF Once
  <2>2. \A r, s \in Consumers : qpc'[r] # "pop" /\ With(s, cur[r])' => r = s
    <3>1. \A r \in Consumers : qpc'[r] # "pop" => cur'[r] \in Objs BY <1>7 DEF SharedLocals
    <3>2. \A r \in Consumers \ {q} : qpc[r] # "pop" => cur[r] # o BY <1>11 DEF With
    <3> QED BY <1>2, <1>7, <3>1, <3>2 DEF Once, With
  <2>3. \A r \in Consumers : qpc'[r] # "pop" => ~InBuffer(cur[r])' BY <1>6, <1>7 DEF Once
  <2>4. \A d \in Clients : pc'[d] = "enqueue" =>
          ~InBuffer(victim[d])' /\ \A r \in Consumers : ~With(r, victim[d])'
    <3>1. \A d \in Clients : pc[d] = "enqueue" => victim[d] # o /\ victim[d] \in Objs
      BY <1>11 DEF Enqueued, ClientLocals, OnVictim, EvictPage
    <3> QED BY <1>2, <1>6, <1>7, <3>1 DEF Once, With
  <2> QED BY <2>1, <2>2, <2>3, <2>4 DEF Once
<1>13. Stages'
  <2>1. \A x : Ready(x)' <=> Ready(x) BY <1>2 DEF Ready
  <2>2. inFlush[o] /\ Ready(o) BY <1>5 DEF Stages
  <2>3. \A x \in Objs : InBuffer(x)' => inFlush'[x] /\ Ready(x)' BY <1>2, <1>6, <2>1 DEF Stages
  <2>4. \A d \in Clients : pc'[d] = "enqueue" => inFlush'[victim'[d]] /\ Ready(victim[d])'
    BY <1>2 DEF Stages, Ready
  <2>5. \A r \in Consumers : qpc'[r] = "append" => Ready(cur[r])'
    BY <1>2, <1>7, <2>2 DEF Stages, Ready
  <2>6. UNCHANGED <<rawBytes, cache, inFlush, refCount, inEviction>> BY <1>2
  <2>7. \A r \in Consumers : qpc'[r] \in {"unlist", "free"} => rawBytes'[cur'[r]] /\ cache'[cur'[r][1]] = cur'[r]
    BY <1>7, <2>6 DEF Stages
  <2>8. \A r \in Consumers : qpc'[r] = "remove" =>
          cache'[cur'[r][1]] = cur'[r] /\ (rawBytes'[cur'[r]] \/ Droppable(cur[r])')
    BY <1>7, <2>6 DEF Stages, Droppable
  <2>9. /\ \A r \in Consumers : qpc'[r] \notin {"pop", "clearDirty"} => inFlush'[cur'[r]]
        /\ \A r \in Consumers : qpc'[r] = "clearDirty" => ~inFlush'[cur'[r]]
    BY <1>7, <2>2, <2>6 DEF Stages
  <2> QED BY <2>3, <2>4, <2>5, <2>7, <2>8, <2>9 DEF Stages
<1>14. Dirt'
  <2>1. AppendedOnce' BY <1>2 DEF Dirt, AppendedOnce
  <2>2. UNCHANGED <<dirty, appended, inFlush, inEviction>> BY <1>2
  <2> QED BY <1>8, <1>10, <2>1, <2>2 DEF Dirt
<1>15. Filled' BY <1>2, <1>7 DEF Filled
<1>16. \A x : Busy(x)' => Busy(x)
  BY <1>2, <1>5, <1>6, <1>7, <1>9 DEF Busy, With
<1> QED BY <1>2, <1>12, <1>13, <1>14, <1>15, <1>16, FlushStep

\* A flush thread goes on with its page.  Nobody else has that page on its way to the file.
LEMMA FlushMove ==
  ASSUME Shape, Pins, NEW q \in Consumers, NEW s, qpc[q] # "pop", s # "pop",
         qpc' = [qpc EXCEPT ![q] = s], UNCHANGED <<flushBuffer, cur, clientVars>>
  PROVE  /\ Once' /\ cur[q] \in Objs /\ Busy(cur[q]) /\ qpc'[q] = s
         /\ \A o : InBuffer(o)' <=> InBuffer(o)
         /\ \A r \in Consumers : \A o : With(r, o)' <=> With(r, o)
         /\ \A o : Busy(o)' <=> Busy(o)
         /\ \A r \in Consumers \ {q} : qpc'[r] = qpc[r] /\ (qpc[r] # "pop" => cur[r] # cur[q])
         /\ ~InBuffer(cur[q])
         /\ \A d \in Clients : pc[d] = "enqueue" => victim[d] # cur[q]
<1> USE DEF Shape, Pins, Flushing, Flow, clientVars
<1>1. qpc'[q] = s /\ \A r \in Consumers \ {q} : qpc'[r] = qpc[r] BY DEF TypeOK
<1>2. \A o : InBuffer(o)' <=> InBuffer(o) BY DEF InBuffer
<1>3. \A r \in Consumers : \A o : With(r, o)' <=> With(r, o) BY <1>1 DEF With
<1>4. \A o : \A d \in Clients : Enqueued(d, o)' <=> Enqueued(d, o) BY DEF Enqueued
<1>5. \A o : Busy(o)' <=> Busy(o) BY <1>2, <1>3, <1>4 DEF Busy
<1>6. \A r \in Consumers : qpc'[r] # "pop" <=> qpc[r] # "pop" BY <1>1
<1>7. Once' BY <1>2, <1>3, <1>6 DEF Once
<1>8. cur[q] \in Objs /\ Busy(cur[q]) BY DEF SharedLocals, Busy, With
<1>9. \A r \in Consumers \ {q} : qpc[r] # "pop" => cur[r] # cur[q] BY DEF Once, With
<1>10. ~InBuffer(cur[q]) /\ \A d \in Clients : pc[d] = "enqueue" => victim[d] # cur[q]
  BY DEF Once, With
<1> QED BY <1>1, <1>2, <1>3, <1>5, <1>7, <1>8, <1>9, <1>10

\* The page is appended: it has its bytes and is not in the file.
LEMMA PinsAppend ==
  ASSUME Shape, Pins, NEW q \in Consumers, appendPage(q)
  PROVE  Pins'
<1> USE Objects DEF Shape, Pins, Flushing, Flow, pageVars, cacheVars, setVars, clientVars
<1>1. qpc[q] = "append" BY DEF appendPage
<1>2. Ready(cur[q]) BY <1>1 DEF Stages
<1>3. PICK o \in Objs : o = cur[q] BY <1>1 DEF SharedLocals
<1>4. /\ appended' = [appended EXCEPT ![o[1]] = 1] /\ qpc' = [qpc EXCEPT ![q] = "unlist"]
      /\ UNCHANGED <<pageVars, cacheVars, dirtySet, born, flushBuffer, clientVars, cur>>
  BY <1>2, <1>3 DEF appendPage, Ready, TypeOK
<1>5. /\ Once' /\ Busy(o) /\ qpc'[q] = "unlist" /\ ~InBuffer(o)
      /\ \A x : InBuffer(x)' <=> InBuffer(x)
      /\ \A r \in Consumers : \A x : With(r, x)' <=> With(r, x)
      /\ \A x : Busy(x)' <=> Busy(x)
      /\ \A r \in Consumers \ {q} : qpc'[r] = qpc[r] /\ (qpc[r] # "pop" => cur[r] # o)
      /\ \A d \in Clients : pc[d] = "enqueue" => victim[d] # o
  BY <1>1, <1>3, <1>4, FlushMove
<1>6. \A x \in Objs : Ready(x) /\ x # o => Ready(x)'
  <2>1. cache[o[1]] = o BY <1>2, <1>3 DEF Ready
  <2> QED BY <1>4, <2>1 DEF Ready, TypeOK
<1>7. Stages'
  <2>1. \A x \in Objs : InBuffer(x)' => inFlush'[x] /\ Ready(x)' BY <1>4, <1>5, <1>6 DEF Stages
  <2>2. \A d \in Clients : pc'[d] = "enqueue" => inFlush'[victim'[d]] /\ Ready(victim[d])'
    <3>1. \A d \in Clients : pc[d] = "enqueue" => victim[d] \in Objs
      BY DEF ClientLocals, OnVictim, EvictPage
    <3> QED BY <1>4, <1>5, <1>6, <3>1 DEF Stages
  <2>3. \A r \in Consumers : qpc'[r] = "append" => Ready(cur[r])'
    <3>1. \A r \in Consumers : qpc'[r] = "append" => qpc[r] = "append" /\ cur[r] \in Objs \ {o}
      BY <1>5 DEF SharedLocals
    <3> QED BY <1>4, <1>6, <3>1 DEF Stages
  <2>4. UNCHANGED <<rawBytes, cache, inFlush, refCount, inEviction, cur>> BY <1>4
  <2>5. rawBytes[cur[q]] /\ cache[cur[q][1]] = cur[q] /\ inFlush[cur[q]]
    BY <1>1, <1>2 DEF Ready, Stages
  <2>6. \A r \in Consumers : qpc'[r] \in {"unlist", "free"} => rawBytes'[cur'[r]] /\ cache'[cur'[r][1]] = cur'[r]
    BY <1>5, <2>4, <2>5 DEF Stages
  <2>7. \A r \in Consumers : qpc'[r] = "remove" =>
          cache'[cur'[r][1]] = cur'[r] /\ (rawBytes'[cur'[r]] \/ Droppable(cur[r])')
    BY <1>5, <2>4 DEF Stages, Droppable
  <2>8. /\ \A r \in Consumers : qpc'[r] \notin {"pop", "clearDirty"} => inFlush'[cur'[r]]
        /\ \A r \in Consumers : qpc'[r] = "clearDirty" => ~inFlush'[cur'[r]]
    BY <1>5, <2>4, <2>5 DEF Stages
  <2> QED BY <2>1, <2>2, <2>3, <2>6, <2>7, <2>8 DEF Stages
<1>8. Dirt'
  <2>1. AppendedOnce' BY <1>4 DEF Dirt, AppendedOnce, TypeOK
  <2>2. UNCHANGED <<dirty, inFlush, inEviction>> BY <1>4
  <2>3. \A x \in Objs : dirty[x] => appended'[x[1]] = 0 \/ \E r \in Consumers : With(r, x)'
    <3> SUFFICES ASSUME NEW x \in Objs, dirty[x], \A r \in Consumers : ~With(r, x)'
                 PROVE  appended'[x[1]] = 0
      OBVIOUS
    <3>1. appended[x[1]] = 0 /\ x[2] = 0 BY <1>5 DEF Dirt
    <3>2. dirty[o] /\ o[2] = 0 BY <1>5 DEF Dirt
    <3>3. x # o BY <1>1, <1>3, <1>5 DEF With
    <3>4. x[1] # o[1] BY <3>1, <3>2, <3>3
    <3> QED BY <1>4, <3>1, <3>4 DEF TypeOK
  <2> QED BY <1>5, <2>1, <2>2, <2>3 DEF Dirt
<1>9. Filled' BY <1>1, <1>4, <1>5 DEF Filled
<1> QED BY <1>4, <1>5, <1>7, <1>8, <1>9, FlushStep

\* The page is unlisted, freed, removed, and no longer in flush.
LEMMA PinsFlushRest ==
  ASSUME Shape, Pins, NEW q \in Consumers,
         removePageFromDirtyPageSet(q) \/ freePage(q) \/ removePage(q) \/ clearInFlush(q)
  PROVE  Pins'
<1> USE Objects DEF Shape, Pins, Flushing, Flow, pageVars, cacheVars, setVars, clientVars
<1>1. PICK o \in Objs : o = cur[q]
  BY DEF SharedLocals, removePageFromDirtyPageSet, freePage, removePage, clearInFlush
<1>2. PICK s : /\ qpc' = [qpc EXCEPT ![q] = s]
               /\ UNCHANGED <<refCount, dirty, inEviction, evictionMutex, evicting, evictable,
                              appended, born, flushBuffer, clientVars, cur>>
               /\ \/ /\ qpc[q] = "unlist" /\ s = "free" /\ UNCHANGED <<rawBytes, cache, inFlush>>
                  \/ /\ qpc[q] = "free" /\ s = "remove" /\ UNCHANGED <<cache, inFlush>>
                     /\ rawBytes' = [rawBytes EXCEPT ![o] = @ /\ ~Droppable(o)]
                  \/ /\ qpc[q] = "remove" /\ s = "clearFlush" /\ UNCHANGED <<rawBytes, inFlush>>
                     /\ cache' = IF Droppable(o) THEN [cache EXCEPT ![o[1]] = nullptr] ELSE cache
                  \/ /\ qpc[q] = "clearFlush" /\ s = "clearDirty" /\ UNCHANGED <<rawBytes, cache>>
                     /\ inFlush' = [inFlush EXCEPT ![o] = FALSE]
  BY <1>1 DEF removePageFromDirtyPageSet, freePage, removePage, clearInFlush
<1>3. /\ Once' /\ Busy(o) /\ qpc'[q] = s /\ ~InBuffer(o)
      /\ \A x : InBuffer(x)' <=> InBuffer(x)
      /\ \A r \in Consumers : \A x : With(r, x)' <=> With(r, x)
      /\ \A x : Busy(x)' <=> Busy(x)
      /\ \A r \in Consumers \ {q} : qpc'[r] = qpc[r] /\ (qpc[r] # "pop" => cur[r] # o)
      /\ \A d \in Clients : pc[d] = "enqueue" => victim[d] # o
  BY <1>1, <1>2, FlushMove, ZenonT(60)
<1>4. qpc[q] = "remove" => cache[o[1]] = o /\ (rawBytes[o] \/ Droppable(o)) BY <1>1 DEF Stages
<1>5. /\ \A x \in Objs \ {o} : rawBytes'[x] = rawBytes[x] /\ inFlush'[x] = inFlush[x]
      /\ \A x \in Objs \ {o} : cache[x[1]] = x => cache'[x[1]] = x
      /\ \A k \in Pages : cache'[k] \in {cache[k], nullptr}
      /\ ~Droppable(o) => rawBytes'[o] = rawBytes[o] /\ cache' = cache
  BY <1>2, <1>4 DEF TypeOK
<1>6. \A x \in Objs \ {o} : Ready(x) => Ready(x)' BY <1>2, <1>5 DEF Ready
<1>7. Stages'
  <2>1. \A x \in Objs : InBuffer(x)' => inFlush'[x] /\ Ready(x)' BY <1>3, <1>5, <1>6 DEF Stages
  <2>2. \A d \in Clients : pc'[d] = "enqueue" => inFlush'[victim'[d]] /\ Ready(victim[d])'
    <3>1. \A d \in Clients : pc[d] = "enqueue" => victim[d] \in Objs \ {o}
      BY <1>3 DEF ClientLocals, OnVictim, EvictPage
    <3> QED BY <1>2, <1>5, <1>6, <3>1 DEF Stages
  <2>3. \A r \in Consumers \ {q} : qpc[r] # "pop" => cur[r] \in Objs \ {o} BY <1>3 DEF SharedLocals
  <2>4. \A r \in Consumers : qpc'[r] = "append" => Ready(cur[r])'
    BY <1>2, <1>3, <1>6, <2>3 DEF Stages
  <2>5. \A r \in Consumers : qpc'[r] \in {"unlist", "free"} => rawBytes'[cur'[r]] /\ cache'[cur'[r][1]] = cur'[r]
    <3>1. qpc'[q] \in {"unlist", "free"} => rawBytes'[cur'[q]] /\ cache'[cur'[q][1]] = cur'[q]
      BY <1>2, <1>3 DEF Stages
    <3>2. ASSUME NEW r \in Consumers \ {q}, qpc'[r] \in {"unlist", "free"}
          PROVE  rawBytes'[cur'[r]] /\ cache'[cur'[r][1]] = cur'[r]
      BY <1>2, <1>3, <1>5, <2>3, <3>2 DEF Stages
    <3> QED BY <3>1, <3>2
  <2>6. \A r \in Consumers : qpc'[r] = "remove" =>
          cache'[cur'[r][1]] = cur'[r] /\ (rawBytes'[cur'[r]] \/ Droppable(cur[r])')
    <3>1. \A r \in Consumers : Droppable(cur[r])' <=> Droppable(cur[r]) BY <1>2 DEF Droppable
    <3>2. qpc'[q] = "remove" => cache'[cur'[q][1]] = cur'[q] /\ (rawBytes'[cur'[q]] \/ Droppable(cur[q])')
      BY <1>1, <1>2, <1>3, <1>5, <3>1 DEF Stages
    <3>3. ASSUME NEW r \in Consumers \ {q}, qpc'[r] = "remove"
          PROVE  cache'[cur'[r][1]] = cur'[r] /\ (rawBytes'[cur'[r]] \/ Droppable(cur[r])')
      BY <1>2, <1>3, <1>5, <2>3, <3>1, <3>3 DEF Stages
    <3> QED BY <3>2, <3>3
  <2>7. \A r \in Consumers : qpc'[r] \notin {"pop", "clearDirty"} => inFlush'[cur'[r]]
    BY <1>1, <1>2, <1>3, <1>5, <2>3 DEF Stages
  <2>8. \A r \in Consumers : qpc'[r] = "clearDirty" => ~inFlush'[cur'[r]]
    BY <1>1, <1>2, <1>3, <1>5, <2>3 DEF Stages, TypeOK
  <2> QED BY <2>1, <2>2, <2>4, <2>5, <2>6, <2>7, <2>8 DEF Stages
<1>8. Dirt'
  <2>1. AppendedOnce' BY <1>2 DEF Dirt, AppendedOnce
  <2>2. UNCHANGED <<dirty, appended, inEviction>> BY <1>2
  <2>3. \A x \in Objs : inFlush'[x] => inFlush[x] BY <1>2, ZenonT(60) DEF TypeOK
  <2> QED BY <1>3, <2>1, <2>2, <2>3 DEF Dirt
<1>9. Filled'
  <2> SUFFICES ASSUME NEW k \in Pages, cache'[k] # nullptr
               PROVE  rawBytes'[cache'[k]] \/ \E r \in Consumers : qpc'[r] = "remove" /\ cur'[r] = cache'[k]
    BY DEF Filled
  <2>1. cache'[k] = cache[k] /\ cache[k] \in Objs BY <1>5 DEF TypeOK
  <2>2. CASE cache[k] # o
    <3>1. rawBytes[cache[k]] \/ \E r \in Consumers \ {q} : qpc[r] = "remove" /\ cur[r] = cache[k]
      BY <1>1, <2>1, <2>2 DEF Filled
    <3> QED BY <1>2, <1>3, <1>5, <2>1, <2>2, <3>1
  <2>3. CASE cache[k] = o
    <3>1. qpc[q] = "remove" => rawBytes[o] BY <1>2, <1>4, <2>1, <2>3 DEF SharedLocals, TypeOK
    <3>2. s # "remove" => rawBytes[o] BY <1>2, <1>3, <1>1, <2>1, <2>3, <3>1 DEF Filled
    <3> QED BY <1>1, <1>2, <1>3, <2>1, <2>3, <3>2
  <2> QED BY <2>2, <2>3
<1>10. \A x \in Objs : ~Busy(x) \/ refCount[x] # 0 =>
         /\ rawBytes[x] => rawBytes'[x]
         /\ cache[x[1]] = x => cache'[x[1]] = x
  BY <1>3, <1>5 DEF Droppable
<1>11. UNCHANGED <<refCount, clientVars, evictionMutex, evictable, dirty>> BY <1>2
<1> QED BY <1>3, <1>5, <1>7, <1>8, <1>9, <1>10, <1>11, FlushStep

\* The page is clean again, and no longer on its way to the file.
LEMMA PinsClearDirty ==
  ASSUME Shape, Pins, NEW q \in Consumers, clearDirty(q)
  PROVE  Pins'
<1> USE Objects DEF Shape, Pins, Flushing, Flow, pageVars, cacheVars, setVars, clientVars
<1>1. qpc[q] = "clearDirty" BY DEF clearDirty
<1>2. PICK o \in Objs : o = cur[q] BY <1>1 DEF SharedLocals
<1>3. /\ dirty' = [dirty EXCEPT ![o] = FALSE]
      /\ cur' = [cur EXCEPT ![q] = nullptr] /\ qpc' = [qpc EXCEPT ![q] = "pop"]
      /\ UNCHANGED <<refCount, inFlush, inEviction, rawBytes, cacheVars, setVars, flushBuffer,
                     clientVars>>
  BY <1>2 DEF clearDirty
<1>4. qpc'[q] = "pop" /\ \A r \in Consumers \ {q} : qpc'[r] = qpc[r] /\ cur'[r] = cur[r]
  BY <1>3 DEF TypeOK
<1>5. \A x \in Objs \ {o} : dirty'[x] = dirty[x] BY <1>3 DEF TypeOK
<1>6. /\ ~InBuffer(o) /\ ~inFlush[o]
      /\ \A r \in Consumers \ {q} : ~With(r, o)
      /\ \A d \in Clients : ~Enqueued(d, o)
  BY <1>1, <1>2 DEF Once, Stages, With, Enqueued
<1>7. \A x : InBuffer(x)' <=> InBuffer(x) BY <1>3 DEF InBuffer
<1>8. \A x : \A r \in Consumers : With(r, x)' <=> With(r, x) /\ r # q BY <1>4 DEF With
<1>9. \A x : \A d \in Clients : Enqueued(d, x)' <=> Enqueued(d, x) BY <1>3 DEF Enqueued
<1>10. \A x : Busy(x)' <=> Busy(x) /\ x # o
  BY <1>1, <1>2, <1>6, <1>7, <1>8, <1>9 DEF Busy, With
<1>11. Once'
  <2>1. \A r, s \in Consumers : qpc'[r] # "pop" /\ With(s, cur[r])' => r = s
    BY <1>4 DEF Once, With
  <2>2. \A r \in Consumers : qpc'[r] # "pop" => ~InBuffer(cur[r])' BY <1>4, <1>7 DEF Once
  <2>3. \A d \in Clients : pc'[d] = "enqueue" =>
          ~InBuffer(victim[d])' /\ \A r \in Consumers : ~With(r, victim[d])'
    BY <1>3, <1>4, <1>7 DEF Once, With
  <2> QED BY <1>3, <2>1, <2>2, <2>3 DEF Once
<1>12. Stages'
  <2>1. \A x : Ready(x)' <=> Ready(x) BY <1>3 DEF Ready
  <2>2. \A x \in Objs : InBuffer(x)' => inFlush'[x] /\ Ready(x)' BY <1>3, <1>7, <2>1 DEF Stages
  <2>3. \A d \in Clients : pc'[d] = "enqueue" => inFlush'[victim'[d]] /\ Ready(victim[d])'
    BY <1>3 DEF Stages, Ready
  <2>4. \A r \in Consumers : qpc'[r] = "append" => Ready(cur[r])' BY <1>3, <1>4 DEF Stages, Ready
  <2>5. UNCHANGED <<rawBytes, cache, inFlush, refCount, inEviction>> BY <1>3
  <2>6. \A r \in Consumers : qpc'[r] \in {"unlist", "free"} => rawBytes'[cur'[r]] /\ cache'[cur'[r][1]] = cur'[r]
    BY <1>4, <2>5 DEF Stages
  <2>7. \A r \in Consumers : qpc'[r] = "remove" =>
          cache'[cur'[r][1]] = cur'[r] /\ (rawBytes'[cur'[r]] \/ Droppable(cur[r])')
    BY <1>4, <2>5 DEF Stages, Droppable
  <2>8. /\ \A r \in Consumers : qpc'[r] \notin {"pop", "clearDirty"} => inFlush'[cur'[r]]
        /\ \A r \in Consumers : qpc'[r] = "clearDirty" => ~inFlush'[cur'[r]]
    BY <1>4, <2>5 DEF Stages
  <2> QED BY <2>2, <2>3, <2>4, <2>6, <2>7, <2>8 DEF Stages
<1>13. Dirt'
  <2>1. AppendedOnce' BY <1>3 DEF Dirt, AppendedOnce
  <2>2. UNCHANGED <<appended, inFlush, inEviction>> BY <1>3
  <2>3. ~dirty'[o] BY <1>3 DEF TypeOK
  <2>4. \A x \in Objs : Busy(x)' => dirty'[x] /\ inEviction'[x] BY <1>5, <1>10, <2>2 DEF Dirt
  <2>5. \A x \in Objs : inFlush'[x] => Busy(x)' BY <1>6, <1>10, <2>2 DEF Dirt
  <2>6. \A x \in Objs : dirty'[x] =>
          dirty[x] /\ (appended[x[1]] = 0 \/ \E r \in Consumers : With(r, x)')
    <3>1. \A x \in Objs : dirty'[x] => dirty[x] /\ x # o BY <1>5, <2>3
    <3>2. \A x \in Objs \ {o} : \A r \in Consumers : With(r, x) => With(r, x)'
      BY <1>2, <1>8 DEF With
    <3> QED BY <3>1, <3>2 DEF Dirt
  <2> QED BY <2>1, <2>2, <2>4, <2>5, <2>6 DEF Dirt
<1>14. Filled' BY <1>1, <1>3, <1>4 DEF Filled
<1>15. \A x \in Objs : ~Busy(x) => dirty'[x] = dirty[x]
  BY <1>1, <1>2, <1>5 DEF Busy, With
<1>16. UNCHANGED <<refCount, clientVars, evictionMutex, evictable, cache, rawBytes>> BY <1>3
<1> QED BY <1>10, <1>11, <1>12, <1>13, <1>14, <1>15, <1>16, FlushStep

-----------------------------------------------------------------------------
(* Pins is inductive *)

\* At the start nothing is on its way to the file.
LEMMA PinsInit == Init => Pins
<1> SUFFICES ASSUME Init PROVE Pins OBVIOUS
<1> USE Objects DEF Init
<1>1. \A o : ~InBuffer(o) BY DEF InBuffer
<1>2. \A q \in Consumers : \A o : ~With(q, o) BY DEF With
<1>3. \A o : ~Busy(o) BY <1>1, <1>2 DEF Busy, Enqueued
<1>4. Calm BY DEF Calm, EvictPage
<1>5. Loaders BY DEF Loaders, Seeking, Missed, Allocating, EvictPage
<1>6. Once BY <1>1 DEF Once
<1>7. Stages BY <1>1 DEF Stages
<1>8. Dirt BY <1>3 DEF Dirt, AppendedOnce
<1>9. Filled BY DEF Filled
<1>10. Victims BY DEF Victims, Choosing
<1>11. Holders
  <2>1. \A o \in Objs : {c \in Clients : Holding(c) /\ ref[c] = o} = {} BY DEF Holding
  <2> QED BY <2>1, FS_EmptySet DEF Holders, HoldsOne, PinnedPageStays, RefCountIsHolders, Holding
<1> QED BY <1>4, <1>5, <1>6, <1>7, <1>8, <1>9, <1>10, <1>11 DEF Pins, Flushing, Flow

\* Stuttering.
LEMMA PinsSame == Pins /\ UNCHANGED vars => Pins'
<1> SUFFICES ASSUME Pins, UNCHANGED vars PROVE Pins' OBVIOUS
<1> USE DEF vars, pageVars, cacheVars, setVars, clientVars, consumerVars, Pins, Flushing, Flow
<1>1. /\ \A o : InBuffer(o)' <=> InBuffer(o)
      /\ \A q \in Consumers : \A o : With(q, o)' <=> With(q, o)
      /\ \A o : Busy(o)' <=> Busy(o)
  BY DEF InBuffer, With, Busy, Enqueued
<1>2. Calm' BY DEF Calm
<1>3. Loaders' BY DEF Loaders, Seeking, Missed, Allocating
<1>4. Once' BY <1>1 DEF Once
<1>5. Stages' BY <1>1 DEF Stages, Ready, Droppable
<1>6. Dirt' BY <1>1 DEF Dirt, AppendedOnce
<1>7. Filled' /\ Victims' BY <1>1 DEF Filled, Victims, Choosing
<1>8. Holders' BY CountSame DEF Holding
<1> QED BY <1>2, <1>3, <1>4, <1>5, <1>6, <1>7, <1>8

\* No client flushes or exports.
LEMMA NoFlushNorExport ==
  ASSUME Pins, NEW c \in Clients
  PROVE  ~exportEvict(c) /\ ~flushTest(c) /\ ~flushMark(c) /\ ~flushEnqueue(c)
BY DEF Pins, Calm, exportEvict, flushTest, flushMark, flushEnqueue

\* Every step of the cache.
LEMMA PinsNextStep ==
  ASSUME Shape, Fresh, Pins, Regime, [Next]_vars PROVE Pins'
<1>1. CASE UNCHANGED vars BY <1>1, PinsSame
<1>2. ASSUME NEW c \in Clients, NewRequest(c) PROVE Pins'
  BY <1>2, PinsRequests, PinsHit DEF NewRequest
<1>3. ASSUME NEW c \in Clients, UsePage(c) PROVE Pins' BY <1>3, PinsHolds DEF UsePage
<1>4. ASSUME NEW c \in Clients, evictionMutexLock(c) \/ insertLoadedPage(c) \/ WriteLocked(c)
      PROVE  Pins'
  BY <1>4, PinsLock, PinsInsert, PinsHit, PinsUnpin, PinsScan DEF WriteLocked
<1>5. ASSUME NEW c \in Clients, Unlocked(c) PROVE Pins'
  <2>1. CASE allocateRetry(c) BY <1>1, <2>1 DEF allocateRetry
  <2>2. CASE allocate(c) \/ allocateFails(c) \/ addPageToDirtyPageSet(c) \/ evictEnd(c)
    BY <2>2, PinsAllocate, PinsHolds, PinsEnd
  <2>3. CASE \/ (\E o \in Objs : evictNext(c, o)) \/ evictClassify(c) \/ evictMark(c)
             \/ evictEnqueue(c) \/ evictReclassify(c) \/ evictFree(c)
    BY <2>3, PinsNext, PinsClassify, PinsMark, PinsEnqueue, PinsEvictFree
  <2>4. CASE unlockedUnpin(c) \/ exportEvict(c) \/ flushTest(c) \/ flushMark(c) \/ flushEnqueue(c)
    BY <2>4, PinsUnpin, NoFlushNorExport
  <2> QED BY <1>5, <2>1, <2>2, <2>3, <2>4 DEF Unlocked
<1>6. ASSUME NEW q \in Consumers, Flush(q) PROVE Pins'
  BY <1>6, PinsPop, PinsAppend, PinsFlushRest, PinsClearDirty DEF Flush
<1> QED BY <1>1, <1>2, <1>3, <1>4, <1>5, <1>6 DEF Next

\* The invariant holds in every behaviour.
LEMMA PinsHold == ASSUME Regime PROVE Spec => [](Shape /\ Fresh /\ Pins)
<1>1. Shape /\ Fresh /\ Pins /\ [Next]_vars => Pins' BY PinsNextStep
<1> QED BY <1>1, PinsInit, ShapeInit, ShapeNext, FreshInit, FreshNext, PTL DEF Spec

\* A client that pinned a page keeps its frame and its place in the cache until it gives
\* it up, although decPageRefCount takes no lock and evict() and the flush threads test
\* the count and the flags of the page in separate steps.  Assumed: one client at a time
\* loads a page (what getPage says of its callers), and nobody flushes or exports a page
\* it has just given up (CacheThrough sets, exportToFile).
THEOREM PinnedPagesStay == ASSUME Regime PROVE Spec => []PinnedPageStays
<1>1. Pins => PinnedPageStays BY DEF Pins, Holders
<1> QED BY <1>1, PinsHold, PTL

\* Under the same assumptions the reference count of a page is the number of clients
\* that hold it: decPageRefCount meets the object that was pinned and a count above 0.
THEOREM CountsAreHolders == ASSUME Regime PROVE Spec => []RefCountIsHolders
<1>1. Pins => RefCountIsHolders BY DEF Pins, Holders
<1> QED BY <1>1, PinsHold, PTL

\* Under the same assumptions no page is written to its file twice.
THEOREM PagesAppendedOnce == ASSUME Regime PROVE Spec => []AppendedOnce
<1>1. Pins => AppendedOnce BY DEF Pins, Flushing, Flow, Dirt
<1> QED BY <1>1, PinsHold, PTL

-----------------------------------------------------------------------------
(* Clients that give pages up under both locks *)

\* The only way left to give a page up is the StorageUnpinPage handler.
Locking == Releases \subseteq {"unpin"} /\ OneLoader

\* The two tests of a flush thread, before the free and before the removal, agree.
TestsAgree == \A q \in Consumers : qpc[q] = "remove" /\ Droppable(cur[q]) => ~rawBytes[cur[q]]

\* The client has an object that it has not cached yet.
Inserting(c) == pc[c] \in {"insert", "cache", "insertLoaded"}

Frame == TestsAgree /\ NoFrameLeaked

\* A step that leaves the pages between the two tests alone.
LEMMA TestsKept ==
  ASSUME TestsAgree, UNCHANGED <<qpc, cur>>,
         \A q \in Consumers : qpc[q] = "remove" =>
            /\ refCount'[cur[q]] = refCount[cur[q]] /\ inEviction'[cur[q]] = inEviction[cur[q]]
            /\ rawBytes'[cur[q]] => rawBytes[cur[q]]
  PROVE  TestsAgree'
BY DEF TestsAgree, Droppable

\* A step that gives no frame out and uncaches no page with a frame.
LEMMA FramesKept ==
  ASSUME NoFrameLeaked, \A o \in Objs : rawBytes'[o] => rawBytes[o],
         \A o \in Objs : cache[o[1]] = o /\ rawBytes'[o] => cache'[o[1]] = o,
         \A c \in Clients : Inserting(c) => Inserting(c)' /\ ref'[c] = ref[c]
  PROVE  NoFrameLeaked'
BY DEF NoFrameLeaked, Inserting

\* Steps that change neither a count nor a frame.
LEMMA FrameQuiet ==
  ASSUME Shape, Pins, Frame, NEW c \in Clients, OnlyAt(c),
         UNCHANGED <<refCount, rawBytes, cache, consumerVars>>,
         Inserting(c) => Inserting(c)' /\ ref'[c] = ref[c],
         \A o \in Objs : Busy(o) => inEviction'[o] = inEviction[o]
  PROVE  Frame'
<1> USE DEF consumerVars, Frame
<1>1. TestsAgree'
  <2>1. \A q \in Consumers : qpc[q] = "remove" => inEviction'[cur[q]] = inEviction[cur[q]]
    BY DEF Shape, SharedLocals, Busy, With
  <2> QED BY <2>1, TestsKept
<1>2. NoFrameLeaked'
  <2>1. \A d \in Clients : Inserting(d) => Inserting(d)' /\ ref'[d] = ref[d] BY DEF OnlyAt, Inserting
  <2> QED BY <2>1, FramesKept
<1> QED BY <1>1, <1>2

\* Steps of a client that change no count, frame or cache entry.
LEMMA FrameClient ==
  ASSUME Shape, Pins, Frame, NEW c \in Clients,
         \/ \E k \in Pages : getNewPage(c, k) \/ getPage(c, k)
         \/ \E h \in ReleaseKinds : release(c, h)
         \/ evictionMutexLock(c) \/ getPageMiss(c) \/ evictScan(c)
         \/ allocateFails(c) \/ addPageToDirtyPageSet(c) \/ evictEnd(c)
         \/ (\E o \in Objs : evictNext(c, o)) \/ evictClassify(c)
         \/ evictMark(c) \/ evictEnqueue(c) \/ evictReclassify(c)
  PROVE  Frame'
<1> USE Objects DEF Shape, Pins, Flushing, Flow, pageVars, cacheVars, setVars, consumerVars, goto
<1>1. CASE evictionMutexLock(c)
  <2>1. PICK s : pc' = [pc EXCEPT ![c] = s] /\ LockMove(pc[c], s) BY <1>1, LockDoes
  <2>2. UNCHANGED <<pageVars, cache, key, ref, victim, how, consumerVars>> BY <1>1, LockDoes
  <2>3. OnlyAt(c) BY <2>1, <2>2 DEF OnlyAt, TypeOK
  <2>4. Inserting(c) => Inserting(c)' BY <2>1 DEF Inserting, LockMove, TypeOK
  <2> QED BY <2>2, <2>3, <2>4, FrameQuiet
<1>2. CASE \E o \in Objs : evictNext(c, o)
  <2>0. PICK o \in Objs : evictNext(c, o) BY <1>2
  <2>1. PICK s, v : EvictNextBy(c, o, s, v) BY <2>0, evictNextDoes
  <2>2. OnlyAt(c) /\ ~Inserting(c) BY <2>1 DEF EvictNextBy, OnlyAt, Inserting, TypeOK
  <2> QED BY <2>1, <2>2, FrameQuiet DEF EvictNextBy
<1>3. CASE evictEnqueue(c) \/ evictReclassify(c)
  <2>1. pc[c] \in {"enqueue", "reclassify"} BY <1>3 DEF evictEnqueue, evictReclassify
  <2>2. UNCHANGED <<refCount, rawBytes, cache, consumerVars, key>>
    BY <1>3 DEF evictEnqueue, evictReclassify
  <2>3. evictReclassify(c) => UNCHANGED inEviction
    <3>1. evictReclassify(c) => victim[c] \in Objs /\ ~inFlush[victim[c]]
      BY DEF evictReclassify, Choosing, ClientLocals, OnVictim, EvictPage, Victims, Dirt
    <3> QED BY <3>1, evictReclassifyDoes
  <2>4. evictEnqueue(c) => UNCHANGED inEviction BY DEF evictEnqueue
  <2>5. OnlyAt(c)
    <3>1. CASE evictPageReturn(c)
      <4>1. PICK s, r : ReturnBy(c, s, r) BY <3>1, evictPageReturnDoes
      <4> QED BY <2>2, <4>1 DEF ReturnBy, OnlyAt, TypeOK
    <3>2. CASE ~evictPageReturn(c)
      <4>1. evictReclassify(c) BY <1>3, <3>2 DEF evictEnqueue
      <4> QED BY <2>2, <3>2, <4>1, evictReclassifyDoes DEF OnlyAt, TypeOK
    <3> QED BY <3>1, <3>2
  <2> QED BY <1>3, <2>1, <2>2, <2>3, <2>4, <2>5, FrameQuiet DEF Inserting
<1>4. CASE evictMark(c)
  <2>1. OnlyAt(c) /\ ~Inserting(c) BY <1>4 DEF evictMark, OnlyAt, Inserting, TypeOK
  <2>2. victim[c] \in Objs /\ ~Busy(victim[c])
    BY <1>4 DEF evictMark, Choosing, ClientLocals, OnVictim, EvictPage, Victims
  <2>3. \A o \in Objs : Busy(o) => inEviction'[o] = inEviction[o]
    BY <1>4, <2>2, ZenonT(60) DEF evictMark, TypeOK
  <2> QED BY <1>4, <2>1, <2>3, FrameQuiet DEF evictMark
<1>5. CASE \/ \E k \in Pages : getNewPage(c, k) \/ getPage(c, k)
           \/ \E h \in ReleaseKinds : release(c, h)
  <2>1. pc[c] \in {"idle", "hold", "holdNew"} BY <1>5 DEF getNewPage, getPage, release
  <2>2. OnlyAt(c) BY <1>5 DEF getNewPage, getPage, release, OnlyAt, TypeOK
  <2>3. UNCHANGED <<pageVars, cache, consumerVars>> BY <1>5 DEF getNewPage, getPage, release
  <2> QED BY <2>1, <2>2, <2>3, FrameQuiet DEF Inserting
<1>6. CASE \/ getPageMiss(c) \/ evictScan(c) \/ allocateFails(c)
           \/ addPageToDirtyPageSet(c) \/ evictEnd(c) \/ evictClassify(c)
  <2> USE <1>6 DEF getPageMiss, evictScan, allocateFails, addPageToDirtyPageSet, evictEnd, evictClassify
  <2>1. pc[c] \in {"lookup", "scan", "alloc", "addDirty", "evictLoop", "classify"} OBVIOUS
  <2>2. OnlyAt(c) BY DEF OnlyAt, TypeOK
  <2>3. UNCHANGED <<pageVars, cache, consumerVars>> OBVIOUS
  <2> QED BY <2>1, <2>2, <2>3, FrameQuiet DEF Inserting
<1> QED BY <1>1, <1>2, <1>3, <1>4, <1>5, <1>6

\* Pins and unpins wait until no flush thread is between its two tests.
LEMMA FramePin ==
  ASSUME Shape, Pins, Frame, Locking, NEW c \in Clients,
         \/ getPageHit(c) \/ unpinPage(c) \/ unlockedUnpin(c)
         \/ \E k \in Pages : iteratorNext(c, k)
  PROVE  Frame'
<1> USE Objects DEF Shape, Pins, Frame, cacheVars, setVars, consumerVars, goto
<1>1. ~unlockedUnpin(c) BY DEF unlockedUnpin, Calm, Locking, ReleaseKinds
<1>2. /\ Readers = {} /\ ~Inserting(c)
      /\ \A d \in Clients \ {c} : pc'[d] = pc[d] /\ ref'[d] = ref[d]
      /\ UNCHANGED <<rawBytes, cache, qpc, cur>>
  <2>1. CASE getPageHit(c) BY <2>1 DEF getPageHit, UnderBothLocks, pinObject, Inserting, TypeOK
  <2>2. CASE unpinPage(c) BY <2>2 DEF unpinPage, UnderBothLocks, done, Inserting, TypeOK
  <2>3. CASE \E k \in Pages : iteratorNext(c, k)
    BY <2>3 DEF iteratorNext, pinObject, Inserting, TypeOK
  <2> QED BY <1>1, <2>1, <2>2, <2>3
<1>3. TestsAgree' BY <1>2 DEF TestsAgree, Readers
<1>4. NoFrameLeaked' BY <1>2, FramesKept DEF Inserting
<1> QED BY <1>3, <1>4

\* A frame is given to an object and the object to the cache.
LEMMA FrameInsert ==
  ASSUME Shape, Fresh, Pins, Frame, NEW c \in Clients,
         allocate(c) \/ insertNewPage(c) \/ insertLoadedPage(c)
  PROVE  Frame'
<1> USE Objects DEF Shape, Pins, Frame, cacheVars, setVars, consumerVars, goto
<1>1. CASE allocate(c)
  <2>1. PICK o \in Objs, s \in {"insert", "insertLoaded"} : AllocateBy(c, o, s)
    BY <1>1, allocateDoes
  <2>2. ~Born(o) BY <2>1 DEF AllocateBy, Born, TypeOK
  <2>3. /\ \A x \in Objs \ {o} : rawBytes'[x] = rawBytes[x]
        /\ UNCHANGED <<refCount, inEviction, cache, qpc, cur>>
    BY <2>1 DEF AllocateBy, TypeOK
  <2>4. TestsAgree'
    <3>1. \A q \in Consumers : qpc[q] = "remove" => cur[q] \in Objs \ {o} BY <2>2 DEF SharedLocals
    <3> QED BY <2>3, <3>1, TestsKept
  <2>5. NoFrameLeaked'
    <3>1. Inserting(c)' /\ ref'[c] = o /\ ~Inserting(c) BY <2>1 DEF AllocateBy, Inserting, TypeOK
    <3>2. \A d \in Clients \ {c} : (Inserting(d)' <=> Inserting(d)) /\ ref'[d] = ref[d]
      BY <2>1 DEF AllocateBy, Inserting, TypeOK
    <3>3. \A x \in Objs : rawBytes[x] => cache[x[1]] = x \/ \E d \in Clients : ref[d] = x /\ Inserting(d)
      BY DEF NoFrameLeaked, Inserting
    <3>4. \A x \in Objs : rawBytes'[x] => cache'[x[1]] = x \/ \E d \in Clients : ref'[d] = x /\ Inserting(d)'
      BY <2>3, <3>1, <3>2, <3>3
    <3> QED BY <3>4 DEF NoFrameLeaked, Inserting
  <2> QED BY <2>4, <2>5
<1>2. CASE insertNewPage(c) \/ insertLoadedPage(c)
  <2>1. pc[c] \in {"cache", "insertLoaded"} BY <1>2 DEF insertNewPage, insertLoadedPage
  <2>2. PICK o \in Objs : o = ref[c] BY <2>1 DEF ClientLocals
  <2>3. o[1] = key[c] /\ key[c] \in Pages BY <2>1, <2>2 DEF ClientLocals
  <2>4. cache[key[c]] = nullptr
    <3>1. CASE pc[c] = "cache" BY <3>1 DEF Fresh, Creators, Creating, Maker
    <3>2. CASE pc[c] = "insertLoaded" BY <3>2 DEF Loaders, Missed
    <3> QED BY <2>1, <3>1, <3>2
  <2>5. /\ cache' = [cache EXCEPT ![key[c]] = o] /\ refCount' = [refCount EXCEPT ![o] = @ + 1]
        /\ UNCHANGED <<rawBytes, inEviction, ref, qpc, cur>>
        /\ \A d \in Clients \ {c} : pc'[d] = pc[d]
    BY <1>2, <2>2, <2>3, <2>4 DEF insertNewPage, insertLoadedPage, cachePage, TypeOK
  <2>6. TestsAgree'
    <3>1. \A q \in Consumers : qpc[q] = "remove" => cur[q] \in Objs \ {o}
      BY <2>3, <2>4 DEF Flushing, Flow, Stages, SharedLocals
    <3> QED BY <2>5, <3>1, TestsKept DEF TypeOK
  <2>7. NoFrameLeaked'
    <3>1. cache'[o[1]] = o /\ \A x \in Objs : cache[x[1]] = x => cache'[x[1]] = x
      BY <2>3, <2>4, <2>5 DEF TypeOK
    <3>2. \A d \in Clients : Inserting(d) => Inserting(d)' \/ ref[d] = o BY <2>2, <2>5 DEF Inserting
    <3>3. \A x \in Objs : rawBytes[x] => cache[x[1]] = x \/ \E d \in Clients : ref[d] = x /\ Inserting(d)
      BY DEF NoFrameLeaked, Inserting
    <3>4. \A x \in Objs : rawBytes'[x] => cache'[x[1]] = x \/ \E d \in Clients : ref'[d] = x /\ Inserting(d)'
      BY <2>5, <3>1, <3>2, <3>3
    <3> QED BY <3>4 DEF NoFrameLeaked, Inserting
  <2> QED BY <2>6, <2>7
<1> QED BY <1>1, <1>2

\* evictPage frees the page and removes it from the cache in one critical section.
LEMMA FrameFree ==
  ASSUME Shape, Pins, Frame, NEW c \in Clients, evictFree(c)
  PROVE  Frame'
<1> USE Objects DEF Shape, Pins, Frame, cacheVars, setVars, consumerVars, goto
<1>1. pc[c] = "evictFree" BY DEF evictFree
<1>2. PICK v \in Objs : v = victim[c] BY <1>1 DEF ClientLocals, OnVictim, EvictPage
<1>3. cache[v[1]] = v BY <1>1, <1>2 DEF Flushing, Victims, Choosing
<1>4. /\ rawBytes' = [rawBytes EXCEPT ![v] = FALSE] /\ cache' = [cache EXCEPT ![v[1]] = nullptr]
      /\ UNCHANGED <<refCount, inEviction, qpc, cur>>
  BY <1>2 DEF evictFree
<1>5. \A d \in Clients \ {c} : pc'[d] = pc[d] /\ ref'[d] = ref[d]
  <2>1. PICK s, r : ReturnBy(c, s, r) BY evictPageReturnDoes DEF evictFree
  <2> QED BY <2>1 DEF ReturnBy, TypeOK
<1>6. TestsAgree'
  <2>1. \A q \in Consumers : qpc[q] = "remove" => cur[q] \in Objs BY DEF SharedLocals
  <2> QED BY <1>4, <2>1, TestsKept DEF TypeOK
<1>7. NoFrameLeaked'
  <2>1. \A x \in Objs : rawBytes'[x] => rawBytes[x] /\ x # v BY <1>4 DEF TypeOK
  <2>2. \A x \in Objs : cache[x[1]] = x /\ x # v => cache'[x[1]] = x BY <1>3, <1>4 DEF TypeOK
  <2>3. \A d \in Clients : Inserting(d) => Inserting(d)' /\ ref'[d] = ref[d]
    BY <1>1, <1>5 DEF Inserting
  <2> QED BY <2>1, <2>2, <2>3, FramesKept
<1> QED BY <1>6, <1>7

\* A flush thread removes from the cache only a page whose frame it gave back.
LEMMA FrameFlush ==
  ASSUME Shape, Pins, Frame, NEW q \in Consumers, Flush(q)
  PROVE  Frame'
<1> USE Objects DEF Shape, Pins, Frame, pageVars, cacheVars, setVars, clientVars
<1>1. UNCHANGED <<refCount, inEviction, pc, ref>> BY DEF Flush, popPageFromHead, appendPage,
        removePageFromDirtyPageSet, freePage, removePage, clearInFlush, clearDirty
<1>2. \A d \in Clients : Inserting(d) => Inserting(d)' /\ ref'[d] = ref[d] BY <1>1 DEF Inserting
<1>3. CASE \/ popPageFromHead(q) \/ appendPage(q) \/ removePageFromDirtyPageSet(q)
           \/ clearInFlush(q) \/ clearDirty(q)
  <2>1. UNCHANGED <<rawBytes, cache>>
    BY <1>3 DEF popPageFromHead, appendPage, removePageFromDirtyPageSet, clearInFlush, clearDirty
  <2>2. \A r \in Consumers : qpc'[r] = "remove" => qpc[r] = "remove" /\ cur'[r] = cur[r]
    BY <1>3 DEF popPageFromHead, appendPage, removePageFromDirtyPageSet, clearInFlush, clearDirty, TypeOK
  <2>3. TestsAgree' BY <1>1, <2>1, <2>2 DEF TestsAgree, Droppable
  <2>4. NoFrameLeaked' BY <1>2, <2>1, FramesKept
  <2> QED BY <2>3, <2>4
<1>4. CASE freePage(q)
  <2>1. PICK o \in Objs : o = cur[q] BY <1>4 DEF SharedLocals, freePage
  <2>2. /\ rawBytes' = [rawBytes EXCEPT ![o] = @ /\ ~Droppable(o)]
        /\ UNCHANGED <<cache, cur>> /\ qpc' = [qpc EXCEPT ![q] = "remove"]
    BY <1>4, <2>1 DEF freePage
  <2>3. /\ \A x \in Objs : rawBytes'[x] => rawBytes[x]
        /\ Droppable(o) => ~rawBytes'[o]
    BY <2>2, ZenonT(60) DEF TypeOK
  <2>4. TestsAgree'
    <3>1. \A r \in Consumers \ {q} : qpc'[r] = qpc[r] /\ (qpc[r] = "remove" => cur[r] \in Objs)
      BY <2>2 DEF TypeOK, SharedLocals
    <3>2. \A r \in Consumers : Droppable(cur[r])' <=> Droppable(cur[r])
      BY <1>1, <2>2 DEF Droppable
    <3> QED BY <2>1, <2>2, <2>3, <3>1, <3>2 DEF TestsAgree
  <2>5. NoFrameLeaked' BY <1>2, <2>2, <2>3, FramesKept
  <2> QED BY <2>4, <2>5
<1>5. CASE removePage(q)
  <2>1. PICK o \in Objs : o = cur[q] BY <1>5 DEF SharedLocals, removePage
  <2>2. /\ cache' = IF Droppable(o) THEN [cache EXCEPT ![o[1]] = nullptr] ELSE cache
        /\ UNCHANGED <<rawBytes, cur>> /\ qpc[q] = "remove" /\ qpc' = [qpc EXCEPT ![q] = "clearFlush"]
    BY <1>5, <2>1 DEF removePage
  <2>3. cache[o[1]] = o /\ (Droppable(o) => ~rawBytes[o])
    BY <2>1, <2>2 DEF Flushing, Flow, Stages, TestsAgree
  <2>4. \A r \in Consumers : qpc'[r] = "remove" => qpc[r] = "remove" BY <2>2 DEF TypeOK
  <2>5. TestsAgree' BY <1>1, <2>2, <2>4 DEF TestsAgree, Droppable
  <2>6. \A x \in Objs : cache[x[1]] = x /\ rawBytes'[x] => cache'[x[1]] = x
    BY <2>2, <2>3 DEF TypeOK
  <2>7. NoFrameLeaked' BY <1>2, <2>2, <2>6, FramesKept
  <2> QED BY <2>5, <2>7
<1> QED BY <1>3, <1>4, <1>5 DEF Flush

\* Every step of the cache.
LEMMA FrameNext ==
  ASSUME Shape, Fresh, Pins, Frame, Locking, [Next]_vars PROVE Frame'
<1>1. CASE UNCHANGED vars
  BY <1>1 DEF vars, pageVars, cacheVars, clientVars, consumerVars, Frame, TestsAgree, NoFrameLeaked, Droppable
<1>2. ASSUME NEW c \in Clients, NewRequest(c) PROVE Frame'
  BY <1>2, FrameClient, FramePin DEF NewRequest
<1>3. ASSUME NEW c \in Clients, UsePage(c) PROVE Frame' BY <1>3, FrameClient DEF UsePage
<1>4. ASSUME NEW c \in Clients, evictionMutexLock(c) \/ insertLoadedPage(c) \/ WriteLocked(c)
      PROVE  Frame'
  BY <1>4, FrameClient, FrameInsert, FramePin DEF WriteLocked
<1>5. ASSUME NEW c \in Clients, Unlocked(c) PROVE Frame'
  <2>1. CASE allocateRetry(c) BY <1>1, <2>1 DEF allocateRetry
  <2>2. CASE allocate(c) \/ allocateFails(c) \/ addPageToDirtyPageSet(c) \/ evictEnd(c)
    BY <2>2, FrameInsert, FrameClient
  <2>3. CASE \/ (\E o \in Objs : evictNext(c, o)) \/ evictClassify(c) \/ evictMark(c)
             \/ evictEnqueue(c) \/ evictReclassify(c) \/ evictFree(c)
    BY <2>3, FrameClient, FrameFree
  <2>4. CASE unlockedUnpin(c) \/ exportEvict(c) \/ flushTest(c) \/ flushMark(c) \/ flushEnqueue(c)
    BY <2>4, FramePin, NoFlushNorExport
  <2> QED BY <1>5, <2>1, <2>2, <2>3, <2>4 DEF Unlocked
<1>6. ASSUME NEW q \in Consumers, Flush(q) PROVE Frame' BY <1>6, FrameFlush
<1> QED BY <1>1, <1>2, <1>3, <1>4, <1>5, <1>6 DEF Next

\* When pages are given up through StorageUnpinPage only, which takes both locks, every
\* frame of the pool can be found again: it belongs to a cached page or to one that its
\* client is about to cache.  (A decPageRefCount without a lock can come between the two
\* tests of a flush thread; then the frame is lost.)
THEOREM FramesAreFound == ASSUME Locking PROVE Spec => []NoFrameLeaked
<1>1. Regime BY DEF Locking, Regime
<1>2. Init => Frame BY DEF Init, Frame, TestsAgree, NoFrameLeaked
<1>3. Shape /\ Fresh /\ Pins /\ Frame /\ [Next]_vars => Frame' BY FrameNext
<1>4. Spec => [](Shape /\ Fresh /\ Pins) BY <1>1, PinsHold
<1>5. Spec => []Frame BY <1>2, <1>3, <1>4, PTL DEF Spec
<1>6. Frame => NoFrameLeaked BY DEF Frame
<1> QED BY <1>5, <1>6, PTL
=============================================================================
