----------------------------- MODULE Bm25Cache -----------------------------
(***************************************************************************)
(* benchmark/memory/strategies/bm25_strategy.py and bm25l_strategy.py: the *)
(* corpus cache of the module, shared by the strategy instances of every   *)
(* cell and every dataset that runs in a thread of the process.  The key   *)
(* of a corpus is made of its ids only.                                    *)
(*                                                                         *)
(* A worker runs one cell at a time and has the cell's instance: index()   *)
(* comes from one thread (the store's lock, LongTermStore), and retrieve() *)
(* only when it has returned.  Scores are left out: an answer is the set   *)
(* of <<id, text>> pairs that can be returned, where the text is what the  *)
(* score of the id is computed from.  The containers an instance shares    *)
(* with the cache are built once and never changed, so they are values.    *)
(***************************************************************************)
EXTENDS Integers, Sequences

CONSTANTS
  Workers,       \* threads, each with the strategy instance of its cell
  Users,
  Corpora,       \* sequences of memories [id, user, text]
  CacheMax       \* _BM25_CACHE_MAX, _CACHE_MAX

None == "none"

Memory(c) == {c[i] : i \in DOMAIN c}
Key(c) == {m.id : m \in Memory(c)}

ASSUME Bm25Assumption ==
  /\ CacheMax \in Nat \ {0}
  /\ None \notin Workers
  /\ \A c \in Corpora : c # <<>> /\ \A m, n \in Memory(c) : m.id = n.id => m = n

VARIABLES
  variant,       \* "bm25" or "bm25l": whose cache this is
  corpusCache,   \* [key, entry], in the order of the dictionary
  cacheLock,     \* holder of the cache's lock
  pc,            \* worker -> where its instance is
  memories,      \* worker -> the corpus given to index()
  entry          \* worker -> [bm25, idList, userIndex] of its instance

vars == <<variant, corpusCache, cacheLock, pc, memories, entry>>

(* What index() builds of a corpus: the texts that are scored, the ids in  *)
(* the same order, and each user's positions.                              *)
Built(c) ==
  [bm25 |-> [i \in DOMAIN c |-> c[i].text],
   idList |-> [i \in DOMAIN c |-> c[i].id],
   userIndex |-> [u \in Users |-> {i \in DOMAIN c : c[i].user = u}]]

Nothing == [bm25 |-> <<>>, idList |-> <<>>, userIndex |-> [u \in Users |-> {}]]

(* retrieve() of a user: the mask keeps the user's positions.  (bm25l also *)
(* keeps memories without a user; here as in the runner every event and    *)
(* every query has one.)                                                   *)
Retrieved(e, u) == {<<e.idList[i], e.bm25[i]>> : i \in e.userIndex[u]}

Cached(key) == \E i \in DOMAIN corpusCache : corpusCache[i].key = key
EntryOf(key) ==
  corpusCache[CHOOSE i \in DOMAIN corpusCache : corpusCache[i].key = key].entry

(***************************************************************************)
(* Helpers, with the mutants the checks replace them by.                   *)
(***************************************************************************)

(* The lock can be taken.  Mutant: there is no lock.                       *)
Unguarded == TRUE
LockFree == cacheLock = None

(* What the cache holds once an instance is cleared: clear() binds new     *)
(* containers.  Mutant: it empties those it shares with the cache.         *)
CacheClearedInPlace(w) ==
  [i \in DOMAIN corpusCache |->
     IF corpusCache[i].key = Key(memories[w])
     THEN [corpusCache[i] EXCEPT !.entry.idList = <<>>, !.entry.userIndex = [u \in Users |-> {}]]
     ELSE corpusCache[i]]
CacheAfterClear(w) == corpusCache

(* Nothing more is stored: bm25 looks again, in case another thread has    *)
(* stored the corpus meanwhile; bm25l does not, and stores it again.       *)
AlreadyStored(w) == variant = "bm25" /\ Cached(Key(memories[w]))

(* The dictionary with an item set: an item it has keeps its place.        *)
ItemSet(key, e) ==
  IF Cached(key)
  THEN [i \in DOMAIN corpusCache |->
          IF corpusCache[i].key = key THEN [key |-> key, entry |-> e] ELSE corpusCache[i]]
  ELSE Append(corpusCache, [key |-> key, entry |-> e])

Init ==
  /\ variant \in {"bm25", "bm25l"}
  /\ corpusCache = <<>>
  /\ cacheLock = None
  /\ pc = [w \in Workers |-> "ready"]
  /\ memories = [w \in Workers |-> <<>>]
  /\ entry = [w \in Workers |-> Nothing]

Goto(w, at) == pc' = [pc EXCEPT ![w] = at]
Release == cacheLock' = None

(* index(memories) of a corpus. *)
Index(w, c) ==
  /\ pc[w] = "ready"
  /\ memories' = [memories EXCEPT ![w] = c]
  /\ Goto(w, "lookup")
  /\ UNCHANGED <<variant, corpusCache, cacheLock, entry>>

(* index([]), and the instance of the next cell. *)
IndexNothing(w) ==
  /\ pc[w] = "ready"
  /\ memories' = [memories EXCEPT ![w] = <<>>]
  /\ entry' = [entry EXCEPT ![w] = Nothing]
  /\ UNCHANGED <<variant, corpusCache, cacheLock, pc>>

(* if _cache_key in _BM25_CORPUS_CACHE, with the lock held. *)
Lookup(w) ==
  /\ pc[w] = "lookup" /\ LockFree
  /\ IF Cached(Key(memories[w]))
     THEN Goto(w, "hit") /\ cacheLock' = w
     ELSE Goto(w, "build") /\ Release
  /\ UNCHANGED <<variant, corpusCache, memories, entry>>

Hit(w) ==
  /\ pc[w] = "hit"
  /\ entry' = [entry EXCEPT ![w] = EntryOf(Key(memories[w]))]
  /\ Goto(w, "ready")
  /\ Release
  /\ UNCHANGED <<variant, corpusCache, memories>>

(* The index is built outside the lock. *)
Build(w) ==
  /\ pc[w] = "build"
  /\ entry' = [entry EXCEPT ![w] = Built(memories[w])]
  /\ Goto(w, "store")
  /\ UNCHANGED <<variant, corpusCache, cacheLock, memories>>

(* The lock again, to make room if the cache is full and to store. *)
EnterStore(w) ==
  /\ pc[w] = "store" /\ LockFree
  /\ \/ AlreadyStored(w) /\ Goto(w, "ready") /\ Release
     \/ /\ ~ AlreadyStored(w)
        /\ Goto(w, IF Len(corpusCache) >= CacheMax THEN "evict" ELSE "put")
        /\ cacheLock' = w
  /\ UNCHANGED <<variant, corpusCache, memories, entry>>

(* del CACHE[next(iter(CACHE))]: the oldest. *)
Evict(w) ==
  /\ pc[w] = "evict"
  /\ corpusCache' = Tail(corpusCache)
  /\ Goto(w, "put")
  /\ UNCHANGED <<variant, cacheLock, memories, entry>>

Put(w) ==
  /\ pc[w] = "put"
  /\ corpusCache' = ItemSet(Key(memories[w]), entry[w])
  /\ Goto(w, "ready")
  /\ Release
  /\ UNCHANGED <<variant, memories, entry>>

(* clear() *)
Clear(w) ==
  /\ pc[w] = "ready" /\ memories[w] # <<>>
  /\ memories' = [memories EXCEPT ![w] = <<>>]
  /\ entry' = [entry EXCEPT ![w] = Nothing]
  /\ corpusCache' = CacheAfterClear(w)
  /\ UNCHANGED <<variant, cacheLock, pc>>

Step(w) ==
  \/ \E c \in Corpora : Index(w, c)
  \/ IndexNothing(w)
  \/ Lookup(w) \/ Hit(w) \/ Build(w)
  \/ EnterStore(w) \/ Evict(w) \/ Put(w)
  \/ Clear(w)

Next == \E w \in Workers : Step(w)

Spec == Init /\ [][Next]_vars

(***************************************************************************)
(* Properties.                                                             *)
(***************************************************************************)
Keys == {Key(c) : c \in Corpora}
Entries == {Built(c) : c \in Corpora}

(* Every variable keeps its type; what is cached is always a whole entry.  *)
TypeOK ==
  /\ variant \in {"bm25", "bm25l"}
  /\ corpusCache \in Seq([key : Keys, entry : Entries])
  /\ cacheLock \in Workers \cup {None}
  /\ pc \in [Workers -> {"ready", "lookup", "hit", "build", "store", "evict", "put"}]
  /\ memories \in [Workers -> Corpora \cup {<<>>}]
  /\ entry \in [Workers -> Entries \cup {Nothing}]

(* "the check-evict-store sequence is not atomic and causes KeyError or    *)
(* double-eviction without" the lock: with it, the entry a thread has seen *)
(* is there when it takes it, there is one to evict when it evicts, and    *)
(* the cache never outgrows its limit nor holds a corpus twice.            *)
NoKeyErrorNoOverflow ==
  /\ Len(corpusCache) <= CacheMax
  /\ \A i, j \in DOMAIN corpusCache : corpusCache[i].key = corpusCache[j].key => i = j
  /\ \A w \in Workers :
       /\ pc[w] = "hit" => Cached(Key(memories[w]))
       /\ pc[w] = "evict" => Len(corpusCache) = CacheMax
       /\ pc[w] = "put" => Len(corpusCache) < CacheMax \/ Cached(Key(memories[w]))

(* No other corpus has the same ids and says something else. *)
Alone(c) == \A d \in Corpora : Key(d) = Key(c) => Memory(d) = Memory(c)

Own(c, u) == {<<m.id, m.text>> : m \in {n \in Memory(c) : n.user = u}}

(* What other cells index, evict or clear never shows: an indexed instance *)
(* knows the ids of its own corpus, and unless another corpus has the same *)
(* ids, a user's query is scored on the user's own memories, all of them.  *)
OwnMemoriesAnswer ==
  \A w \in Workers : pc[w] = "ready" /\ memories[w] # <<>> =>
    /\ {entry[w].idList[i] : i \in DOMAIN entry[w].idList} = Key(memories[w])
    /\ Alone(memories[w]) => \A u \in Users : Retrieved(entry[w], u) = Own(memories[w], u)

(* "no shared mutable state between dataset runs" (scripts/study_runner.py *)
(* runs the first phase of several datasets in threads): whatever the ids  *)
(* of the other datasets, a query is scored on the memories of its own.    *)
DatasetsIndependent ==
  \A w \in Workers : pc[w] = "ready" /\ memories[w] # <<>> =>
    \A u \in Users : Retrieved(entry[w], u) = Own(memories[w], u)
=============================================================================
