--------------------------- MODULE EmbeddingIndex ---------------------------
(***************************************************************************)
(* benchmark/memory/strategies/embeddings_strategy.py: the index of the    *)
(* embedding strategy, grown day by day or rebuilt, and the index cache of *)
(* the module.  The cells of one model and one dataset run one after the   *)
(* other, each with a new strategy instance over a store (LongTermStore)   *)
(* that is indexed before a read when it has changed.                      *)
(*                                                                         *)
(* A row of the matrix is the id of the memory it encodes; ids order like  *)
(* their strings.  An event is injected once in a cell.  faiss is the rows *)
(* of the ANN index.  The norms and the per-id embeddings, which nothing   *)
(* reads, and the cache of query embeddings, keyed by the query itself,    *)
(* are left out.                                                           *)
(***************************************************************************)
EXTENDS Integers, SequencesExt

CONSTANTS
  Dataset,        \* ids of its events, in the order they are injected
  Owner,          \* id -> user
  IndexCacheMax,  \* _INDEX_CACHE_MAX
  AnnThreshold,   \* _ANN_THRESHOLD
  MaxFaults       \* bound: rebuilds that fail

Elems(s) == {s[i] : i \in DOMAIN s}
Events == Elems(Dataset)
Owners == {Owner[m] : m \in Events}

ASSUME EmbeddingAssumption ==
  /\ Dataset \in Seq(Nat) /\ IsInjective(Dataset)
  /\ Events \subseteq DOMAIN Owner
  /\ IndexCacheMax \in Nat \ {0} /\ AnnThreshold \in Nat /\ MaxFaults \in Nat

VARIABLES
  injected,      \* events of the dataset this cell has seen
  stored,        \* the store's memories, in the order of its dictionary
  dirty,         \* the store's _index_dirty
  known,         \* ids of _memories
  matrix,        \* _embedding_matrix, <<>> for None
  ids,           \* _embedding_ids
  faiss,         \* _faiss_index, <<>> for None
  masks,         \* _user_mask_cache
  indexCache,    \* key -> [matrix, ids, faiss]
  cacheOrder,    \* _INDEX_CACHE_ORDER
  faults,        \* rebuilds that have failed
  leftover,      \* the last rebuild failed, and the matrix is an older one
  spoilt,        \* rows were appended to a leftover matrix
  moved          \* the rows are not in the order the masks were made for

storeVars == <<injected, stored>>
instance == <<known, matrix, ids, faiss, masks>>
caches == <<indexCache, cacheOrder>>
ghosts == <<faults, leftover, spoilt, moved>>
denseVars == <<storeVars, dirty, instance, caches, ghosts>>

NewIds == Elems(stored) \ known
RemovedIds == known \ Elems(stored)
CacheKey == Elems(stored)
Grows == matrix # <<>> /\ NewIds # {} /\ RemovedIds = {}

NoMasks == [u \in {} |-> <<>>]

(* sorted(new_ids), and a dictionary without one of its keys. *)
InOrder(S) ==
  CHOOSE s \in [1..Cardinality(S) -> S] : \A i, j \in DOMAIN s : i < j => s[i] < s[j]
Without(s, e) == RemoveAt(s, CHOOSE i \in DOMAIN s : s[i] = e)

(* What is left of the masks when the corpus changes.  Mutant: they go     *)
(* only when memories were pruned.                                         *)
MasksUnlessPruned == IF RemovedIds # {} THEN NoMasks ELSE masks
MasksKept == IF NewIds \cup RemovedIds # {} THEN NoMasks ELSE masks

(* Masks made for one order of the rows can meet another one: the cached   *)
(* rows of the same corpus are in the order of the cell that made them.    *)
MovedUnderMasks == masks' # NoMasks /\ (moved \/ ids' # ids)

(* The cache when ids are appended to the instance's list: it has a list   *)
(* of its own.  Mutant: it shares the list it was built from.              *)
CacheSharingIds(new) ==
  [k \in DOMAIN indexCache |->
     IF k = known THEN [indexCache[k] EXCEPT !.ids = @ \o new] ELSE indexCache[k]]
CacheAfterAppend(new) == indexCache

(* The ANN index of the old rows, once the matrix has grown.               *)
FaissGrown == <<>>

(* _evict_index_cache_if_needed, then the entry of a key that is not there *)
(* yet.  Mutant: the order forgets to drop the key it evicts.              *)
RoomMade == Len(cacheOrder) - (IndexCacheMax - 1)
OrderNotPopped(key) == Append(cacheOrder, key)
OrderAfter(key) ==
  Append(IF RoomMade > 0 THEN SubSeq(cacheOrder, RoomMade + 1, Len(cacheOrder)) ELSE cacheOrder, key)
CacheAfter(cache, key, new) ==
  LET evicted == {cacheOrder[i] : i \in 1..RoomMade}
  IN  [k \in (DOMAIN cache \ evicted) \cup {key} |-> IF k = key THEN new ELSE cache[k]]

DenseInit ==
  /\ injected = 0 /\ stored = <<>> /\ dirty = TRUE
  /\ known = {} /\ matrix = <<>> /\ ids = <<>> /\ faiss = <<>> /\ masks = NoMasks
  /\ indexCache = [k \in {} |-> <<>>] /\ cacheOrder = <<>>
  /\ faults = 0 /\ leftover = FALSE /\ spoilt = FALSE /\ moved = FALSE

(* The next event is written, if it is of the store's type. *)
Write ==
  /\ injected < Len(Dataset)
  /\ injected' = injected + 1
  /\ stored' = Append(stored, Dataset[injected + 1])
  /\ dirty' = TRUE
  /\ UNCHANGED <<instance, caches, ghosts>>

OtherType ==
  /\ injected < Len(Dataset)
  /\ injected' = injected + 1
  /\ UNCHANGED <<stored, dirty, instance, caches, ghosts>>

Prune(m) ==
  /\ m \in Elems(stored)
  /\ stored' = Without(stored, m)
  /\ dirty' = TRUE
  /\ UNCHANGED <<injected, instance, caches, ghosts>>

(* index(): new memories only, and there is a matrix. *)
IndexGrows ==
  /\ dirty /\ Grows
  /\ LET new == InOrder(NewIds)
     IN  /\ matrix' = matrix \o new
         /\ ids' = ids \o new
         /\ IF CacheKey \in DOMAIN indexCache
            THEN indexCache' = CacheAfterAppend(new) /\ UNCHANGED cacheOrder
            ELSE /\ indexCache' = CacheAfter(CacheAfterAppend(new), CacheKey,
                                             [matrix |-> matrix', ids |-> ids', faiss |-> <<>>])
                 /\ cacheOrder' = OrderAfter(CacheKey)
  /\ faiss' = FaissGrown
  /\ known' = Elems(stored)
  /\ masks' = MasksKept
  /\ dirty' = FALSE
  /\ spoilt' = (spoilt \/ leftover) /\ moved' = FALSE
  /\ UNCHANGED <<storeVars, faults, leftover>>

(* The new memories cannot be encoded. *)
IndexGrowFails ==
  /\ dirty /\ Grows
  /\ masks' = MasksKept /\ moved' = FALSE
  /\ UNCHANGED <<storeVars, dirty, known, matrix, ids, faiss, caches, faults, leftover, spoilt>>

(* index([]) *)
IndexEmptied ==
  /\ dirty /\ ~ Grows /\ stored = <<>>
  /\ known' = {} /\ matrix' = <<>> /\ ids' = <<>> /\ faiss' = <<>>
  /\ masks' = MasksKept
  /\ dirty' = FALSE /\ leftover' = FALSE /\ moved' = MovedUnderMasks
  /\ UNCHANGED <<storeVars, caches, faults, spoilt>>

(* A rebuild of a corpus that is in the cache. *)
IndexHit ==
  /\ dirty /\ ~ Grows /\ CacheKey \in DOMAIN indexCache
  /\ LET hit == indexCache[CacheKey]
     IN  matrix' = hit.matrix /\ ids' = hit.ids /\ faiss' = hit.faiss
  /\ cacheOrder' = Append(Without(cacheOrder, CacheKey), CacheKey)
  /\ known' = Elems(stored)
  /\ masks' = MasksKept
  /\ dirty' = FALSE /\ leftover' = FALSE /\ moved' = MovedUnderMasks
  /\ UNCHANGED <<storeVars, indexCache, faults, spoilt>>

(* A rebuild that encodes every memory, in batches halved until they fit;  *)
(* a large corpus has an ANN index, if faiss is installed and builds it.   *)
IndexRebuilds ==
  /\ dirty /\ ~ Grows /\ stored # <<>> /\ CacheKey \notin DOMAIN indexCache
  /\ matrix' = stored /\ ids' = stored
  /\ faiss' \in {<<>>} \cup {s \in {stored} : Len(s) >= AnnThreshold}
  /\ indexCache' = CacheAfter(indexCache, CacheKey,
                              [matrix |-> matrix', ids |-> ids', faiss |-> faiss'])
  /\ cacheOrder' = OrderAfter(CacheKey)
  /\ known' = Elems(stored)
  /\ masks' = MasksKept
  /\ dirty' = FALSE /\ leftover' = FALSE /\ moved' = MovedUnderMasks
  /\ UNCHANGED <<storeVars, faults, spoilt>>

(* It fails, with _memories already replaced. *)
IndexRebuildFails ==
  /\ dirty /\ ~ Grows /\ stored # <<>> /\ CacheKey \notin DOMAIN indexCache
  /\ faults < MaxFaults
  /\ faults' = faults + 1
  /\ known' = Elems(stored)
  /\ masks' = MasksKept
  /\ leftover' = (matrix # <<>>) /\ moved' = MovedUnderMasks
  /\ UNCHANGED <<storeVars, dirty, matrix, ids, faiss, caches, spoilt>>

(* retrieve() of a user: the mask is made once.  Without a user, or with   *)
(* the mask made, nothing changes; nor when an id is unknown (KeyError).   *)
Retrieve(u) ==
  /\ ~ dirty /\ known # {} /\ matrix # <<>>
  /\ u \notin DOMAIN masks
  /\ Elems(ids) \subseteq known
  /\ masks' = [v \in DOMAIN masks \cup {u} |->
                 IF v = u THEN [i \in DOMAIN ids |-> Owner[ids[i]] = u] ELSE masks[v]]
  /\ UNCHANGED <<storeVars, dirty, known, matrix, ids, faiss, caches, ghosts>>

(* The next cell: a new store and a new instance. *)
NextCell ==
  /\ injected = Len(Dataset)
  /\ injected' = 0 /\ stored' = <<>> /\ dirty' = TRUE
  /\ known' = {} /\ matrix' = <<>> /\ ids' = <<>> /\ faiss' = <<>> /\ masks' = NoMasks
  /\ leftover' = FALSE /\ moved' = FALSE
  /\ UNCHANGED <<caches, faults, spoilt>>

DenseNext ==
  \/ Write \/ OtherType
  \/ \E m \in Events : Prune(m)
  \/ IndexGrows \/ IndexGrowFails \/ IndexEmptied
  \/ IndexHit \/ IndexRebuilds \/ IndexRebuildFails
  \/ \E u \in Owners : Retrieve(u)
  \/ NextCell

DenseSpec == DenseInit /\ [][DenseNext]_denseVars

(***************************************************************************)
(* Properties.                                                             *)
(***************************************************************************)

(* The order has every key of the cache once, so that an eviction always   *)
(* finds one, and the cache keeps to its limit.                            *)
OrderedCache ==
  /\ IsInjective(cacheOrder)
  /\ Elems(cacheOrder) = DOMAIN indexCache
  /\ Len(cacheOrder) <= IndexCacheMax

(* "identical corpus+model combos skip .encode()": an entry is the matrix  *)
(* of the corpus its key is made of, row by row, and so is its ANN index.  *)
EntriesAreTheirCorpus ==
  \A k \in DOMAIN indexCache :
    /\ Elems(indexCache[k].ids) = k
    /\ indexCache[k].matrix = indexCache[k].ids
    /\ indexCache[k].faiss \in {<<>>, indexCache[k].matrix}

(* An index that is up to date has one row per stored memory, and the mask *)
(* of a user selects the user's, whichever cell built the matrix and in    *)
(* which order, unless the rows have moved under the masks.                *)
AnswersOwn ==
  ~ dirty =>
    /\ known = Elems(stored)
    /\ IsInjective(ids) /\ Elems(ids) = known
    /\ matrix = ids
    /\ faiss \in {<<>>, matrix}
    /\ moved \/ \A u \in DOMAIN masks : masks[u] = [i \in DOMAIN ids |-> Owner[ids[i]] = u]

(* So it is as long as no rows are appended to the matrix a failed rebuild *)
(* has left behind.                                                        *)
EntriesUnlessSpoilt == spoilt \/ EntriesAreTheirCorpus
AnswersUnlessSpoilt == spoilt \/ AnswersOwn
=============================================================================
