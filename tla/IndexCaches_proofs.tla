-------------------------- MODULE IndexCaches_proofs --------------------------
(***************************************************************************)
(* Theorems about IndexCaches, for any threads, users and corpora, any     *)
(* dataset and owners, any limits of the caches and number of failures.    *)
(* The first part is about the lexical cache and its own steps, the second *)
(* about the dense one; the last says the same of the two side by side.    *)
(***************************************************************************)
EXTENDS IndexCaches, FiniteSetTheorems, TLAPS

(***************************************************************************)
(* Bm25Cache.                                                              *)
(***************************************************************************)
Item == [key : Keys, entry : Entries]

(***************************************************************************)
(* The inductive invariant.                                                *)
(***************************************************************************)

(* Who is inside a critical section holds the lock. *)
LockHeld == \A w \in Workers : pc[w] \in {"hit", "evict", "put"} => cacheLock = w

(* What is stored under a key was built of a corpus with that key. *)
EntriesMatchKeys ==
  \A i \in DOMAIN corpusCache :
    \E c \in Corpora : corpusCache[i].key = Key(c) /\ corpusCache[i].entry = Built(c)

(* index() is at work on a corpus. *)
AtWork == \A w \in Workers : pc[w] # "ready" => memories[w] \in Corpora

(* What is about to be stored was built of the worker's corpus. *)
StoresOwn == \A w \in Workers : pc[w] \in {"store", "evict", "put"} => entry[w] = Built(memories[w])

(* An instance at rest has an entry of its own key. *)
HasEntry ==
  \A w \in Workers : pc[w] = "ready" /\ memories[w] # <<>> =>
    \E c \in Corpora : Key(c) = Key(memories[w]) /\ entry[w] = Built(c)

IInv ==
  /\ TypeOK
  /\ NoKeyErrorNoOverflow
  /\ LockHeld
  /\ EntriesMatchKeys
  /\ AtWork
  /\ StoresOwn
  /\ HasEntry

(***************************************************************************)
(* Sequences.                                                              *)
(***************************************************************************)
LEMMA TailFacts ==
  ASSUME NEW S, NEW s \in Seq(S), Len(s) > 0
  PROVE  /\ Tail(s) \in Seq(S)
         /\ Len(Tail(s)) = Len(s) - 1
         /\ \A i \in DOMAIN Tail(s) : i + 1 \in DOMAIN s /\ Tail(s)[i] = s[i + 1]
  OBVIOUS

LEMMA AppendFacts ==
  ASSUME NEW S, NEW s \in Seq(S), NEW x \in S
  PROVE  /\ Append(s, x) \in Seq(S)
         /\ Len(Append(s, x)) = Len(s) + 1
         /\ \A i \in DOMAIN Append(s, x) :
              \/ i \in DOMAIN s /\ Append(s, x)[i] = s[i]
              \/ i = Len(s) + 1 /\ Append(s, x)[i] = x
         /\ \A i \in DOMAIN s : i \in DOMAIN Append(s, x) /\ Append(s, x)[i] = s[i]
         /\ Len(s) + 1 \in DOMAIN Append(s, x) /\ Append(s, x)[Len(s) + 1] = x
  OBVIOUS

LEMMA UpdateFacts ==
  ASSUME NEW S, NEW s \in Seq(S), NEW x \in S, NEW P,
         NEW t, t = [i \in DOMAIN s |-> IF i \in P THEN x ELSE s[i]]
  PROVE  /\ t \in Seq(S)
         /\ Len(t) = Len(s)
         /\ DOMAIN t = DOMAIN s
         /\ \A i \in DOMAIN s : t[i] = IF i \in P THEN x ELSE s[i]
  OBVIOUS

(***************************************************************************)
(* The dictionary.                                                         *)
(***************************************************************************)
LEMMA ItemSetFacts ==
  ASSUME corpusCache \in Seq(Item), NEW k \in Keys, NEW e \in Entries,
         \A i, j \in DOMAIN corpusCache : corpusCache[i].key = corpusCache[j].key => i = j
  PROVE  LET t == ItemSet(k, e) IN
         /\ t \in Seq(Item)
         /\ Len(t) = IF Cached(k) THEN Len(corpusCache) ELSE Len(corpusCache) + 1
         /\ \A i, j \in DOMAIN t : t[i].key = t[j].key => i = j
         /\ \A i \in DOMAIN t :
              \/ t[i].key = k /\ t[i].entry = e
              \/ i \in DOMAIN corpusCache /\ t[i] = corpusCache[i]
<1> DEFINE x == [key |-> k, entry |-> e]
           t == ItemSet(k, e)
<1>1. x \in Item /\ x.key = k /\ x.entry = e
  BY DEF Item
<1>2. CASE Cached(k)
  <2> DEFINE P == {i \in DOMAIN corpusCache : corpusCache[i].key = k}
             u == [i \in DOMAIN corpusCache |-> IF i \in P THEN x ELSE corpusCache[i]]
  <2>1. t = u
    BY <1>2 DEF ItemSet
  <2>2. /\ u \in Seq(Item) /\ Len(u) = Len(corpusCache) /\ DOMAIN u = DOMAIN corpusCache
        /\ \A i \in DOMAIN corpusCache : u[i] = IF i \in P THEN x ELSE corpusCache[i]
    <3> HIDE DEF x, P
    <3> QED BY <1>1, UpdateFacts
  <2>3. \A i \in DOMAIN u : u[i].key = corpusCache[i].key
    BY <1>1, <2>2
  <2> QED
    BY <1>1, <1>2, <2>1, <2>2, <2>3
<1>3. CASE ~ Cached(k)
  <2>1. t = Append(corpusCache, x)
    BY <1>3 DEF ItemSet
  <2>2. \A i \in DOMAIN corpusCache : corpusCache[i].key # k
    BY <1>3 DEF Cached
  <2> DEFINE a == Append(corpusCache, x)
  <2>3. /\ a \in Seq(Item) /\ Len(a) = Len(corpusCache) + 1
        /\ \A i \in DOMAIN a :
             \/ i \in DOMAIN corpusCache /\ a[i] = corpusCache[i]
             \/ i = Len(corpusCache) + 1 /\ a[i] = x
    <3> HIDE DEF x
    <3> QED BY <1>1, AppendFacts
  <2> HIDE DEF x, a
  <2>4. \A i, j \in DOMAIN a : a[i].key = a[j].key => i = j
    BY <1>1, <2>2, <2>3
  <2>5. \A i \in DOMAIN a :
          \/ a[i].key = k /\ a[i].entry = e
          \/ i \in DOMAIN corpusCache /\ a[i] = corpusCache[i]
    BY <1>1, <2>3
  <2>6. t = a
    BY <2>1 DEF a
  <2> QED
    BY <1>3, <2>3, <2>4, <2>5, <2>6
<1> QED
  BY <1>2, <1>3

LEMMA EntryFacts ==
  ASSUME EntriesMatchKeys, NEW k, Cached(k)
  PROVE  \E c \in Corpora : Key(c) = k /\ EntryOf(k) = Built(c)
  BY DEF EntriesMatchKeys, Cached, EntryOf

(* What an entry answers is what its corpus says. *)
LEMMA BuiltFacts ==
  ASSUME NEW c
  PROVE  /\ {Built(c).idList[i] : i \in DOMAIN Built(c).idList} = Key(c)
         /\ \A u \in Users : Retrieved(Built(c), u) = Own(c, u)
<1>1. {Built(c).idList[i] : i \in DOMAIN Built(c).idList} = Key(c)
  BY DEF Built, Key, Memory
<1>2. ASSUME NEW u \in Users PROVE Retrieved(Built(c), u) = Own(c, u)
  <2>1. Retrieved(Built(c), u) = {<<c[i].id, c[i].text>> : i \in {j \in DOMAIN c : c[j].user = u}}
    BY DEF Retrieved, Built
  <2> QED
    BY <2>1 DEF Own, Memory
<1> QED
  BY <1>1, <1>2

(***************************************************************************)
(* Every step keeps the invariant, one lemma for each part that takes work. *)
(***************************************************************************)
LEMMA InitInv == Init => IInv
  BY Bm25Assumption DEF Init, IInv, TypeOK, NoKeyErrorNoOverflow, LockHeld, EntriesMatchKeys,
     AtWork, StoresOwn, HasEntry

(* Steps that leave the cache, its lock and everybody else alone. *)
LEMMA IndexStep ==
  ASSUME IInv, NEW w \in Workers, NEW c \in Corpora, Index(w, c)
  PROVE  IInv'
  BY DEF Index, Goto, IInv, TypeOK, NoKeyErrorNoOverflow, LockHeld, EntriesMatchKeys,
     AtWork, StoresOwn, HasEntry, Cached

LEMMA IndexNothingStep ==
  ASSUME IInv, NEW w \in Workers, IndexNothing(w)
  PROVE  IInv'
  BY DEF IndexNothing, IInv, TypeOK, NoKeyErrorNoOverflow, LockHeld, EntriesMatchKeys,
     AtWork, StoresOwn, HasEntry, Cached

LEMMA ClearStep ==
  ASSUME IInv, NEW w \in Workers, Clear(w)
  PROVE  IInv'
  BY DEF Clear, CacheAfterClear, IInv, TypeOK, NoKeyErrorNoOverflow, LockHeld, EntriesMatchKeys,
     AtWork, StoresOwn, HasEntry, Cached

LEMMA BuildStep ==
  ASSUME IInv, NEW w \in Workers, Build(w)
  PROVE  IInv'
  BY DEF Build, Goto, IInv, TypeOK, NoKeyErrorNoOverflow, LockHeld, EntriesMatchKeys,
     AtWork, StoresOwn, HasEntry, Cached, Entries

LEMMA LookupStep ==
  ASSUME IInv, NEW w \in Workers, Lookup(w)
  PROVE  IInv'
  BY Bm25Assumption DEF Lookup, LockFree, Release, Goto, IInv, TypeOK, NoKeyErrorNoOverflow, LockHeld, EntriesMatchKeys,
     AtWork, StoresOwn, HasEntry, Cached

LEMMA EnterStoreStep ==
  ASSUME IInv, NEW w \in Workers, EnterStore(w)
  PROVE  IInv'
  BY Bm25Assumption DEF EnterStore, LockFree, Release, Goto, IInv, TypeOK, NoKeyErrorNoOverflow, LockHeld, EntriesMatchKeys,
     AtWork, StoresOwn, HasEntry, Cached

LEMMA HitStep ==
  ASSUME IInv, NEW w \in Workers, Hit(w)
  PROVE  IInv'
<1> DEFINE k == Key(memories[w])
<1>1. Cached(k) /\ EntriesMatchKeys
  BY DEF Hit, IInv, NoKeyErrorNoOverflow
<1>2. PICK c \in Corpora : Key(c) = k /\ EntryOf(k) = Built(c)
  BY <1>1, EntryFacts
<1>3. /\ pc[w] = "hit" /\ pc' = [pc EXCEPT ![w] = "ready"]
      /\ entry' = [entry EXCEPT ![w] = Built(c)]
      /\ cacheLock' = None
      /\ UNCHANGED <<variant, corpusCache, memories>>
  BY <1>2 DEF Hit, Goto, Release
<1> HIDE DEF k
<1> QED
  BY <1>2, <1>3 DEF IInv, TypeOK, NoKeyErrorNoOverflow, LockHeld, EntriesMatchKeys,
     AtWork, StoresOwn, HasEntry, Cached, Entries, k

(* The worker inside a critical section is alone there. *)
LEMMA AloneInside ==
  ASSUME IInv, NEW w \in Workers, pc[w] \in {"hit", "evict", "put"}
  PROVE  \A v \in Workers \ {w} : pc[v] \notin {"hit", "evict", "put"}
  BY DEF IInv, LockHeld

LEMMA EvictStep ==
  ASSUME IInv, NEW w \in Workers, Evict(w)
  PROVE  IInv'
<1> DEFINE s == Tail(corpusCache)
<1>1. /\ pc[w] = "evict" /\ pc' = [pc EXCEPT ![w] = "put"]
      /\ corpusCache' = s
      /\ UNCHANGED <<variant, cacheLock, memories, entry>>
  BY DEF Evict, Goto
<1>2. \A v \in Workers \ {w} : pc[v] \notin {"hit", "evict", "put"}
  BY <1>1, AloneInside
<1>3. Len(corpusCache) = CacheMax /\ Len(corpusCache) > 0
  BY <1>1, Bm25Assumption DEF IInv, NoKeyErrorNoOverflow
<1>4. corpusCache \in Seq(Item)
  BY DEF IInv, TypeOK, Item
<1>5. /\ s \in Seq(Item) /\ Len(s) = Len(corpusCache) - 1
      /\ \A i \in DOMAIN s : i + 1 \in DOMAIN corpusCache /\ s[i] = corpusCache[i + 1]
  BY <1>3, <1>4, TailFacts
<1> HIDE DEF s
<1>6. TypeOK'
  BY <1>1, <1>5 DEF IInv, TypeOK, Item
<1>7. NoKeyErrorNoOverflow'
  <2>1. \A i, j \in DOMAIN s : s[i].key = s[j].key => i = j
    <3>1. \A i \in DOMAIN s : i \in Int
      BY <1>5
    <3> QED
      BY <1>5, <3>1 DEF IInv, NoKeyErrorNoOverflow
  <2>2. Len(s) < CacheMax /\ Len(s) <= CacheMax
    BY <1>3, <1>5, Bm25Assumption
  <2>3. \A v \in Workers : pc'[v] \notin {"hit", "evict"} /\ (pc'[v] = "put" => v = w)
    BY <1>1, <1>2 DEF IInv, TypeOK
  <2>4. /\ Len(corpusCache') <= CacheMax /\ Len(corpusCache') < CacheMax
        /\ \A i, j \in DOMAIN corpusCache' : corpusCache'[i].key = corpusCache'[j].key => i = j
    BY <1>1, <2>1, <2>2
  <2> QED
    BY <2>3, <2>4 DEF NoKeyErrorNoOverflow
<1>8. EntriesMatchKeys'
  BY <1>1, <1>5 DEF IInv, EntriesMatchKeys
<1>9. LockHeld' /\ AtWork' /\ StoresOwn' /\ HasEntry'
  BY <1>1 DEF IInv, TypeOK, LockHeld, AtWork, StoresOwn, HasEntry
<1> QED
  BY <1>6, <1>7, <1>8, <1>9 DEF IInv

LEMMA PutStep ==
  ASSUME IInv, NEW w \in Workers, Put(w)
  PROVE  IInv'
<1> DEFINE c == memories[w]
           k == Key(c)
           s == ItemSet(k, entry[w])
<1>1. /\ pc[w] = "put" /\ pc' = [pc EXCEPT ![w] = "ready"]
      /\ corpusCache' = s
      /\ cacheLock' = None
      /\ UNCHANGED <<variant, memories, entry>>
  BY DEF Put, Goto, Release
<1>2. \A v \in Workers \ {w} : pc[v] \notin {"hit", "evict", "put"}
  BY <1>1, AloneInside
<1>3. c \in Corpora /\ entry[w] = Built(c) /\ k \in Keys /\ entry[w] \in Entries
  BY <1>1 DEF IInv, AtWork, StoresOwn, Keys, Entries
<1>4. /\ corpusCache \in Seq(Item)
      /\ \A i, j \in DOMAIN corpusCache : corpusCache[i].key = corpusCache[j].key => i = j
      /\ Len(corpusCache) <= CacheMax
      /\ Len(corpusCache) < CacheMax \/ Cached(k)
  BY <1>1 DEF IInv, TypeOK, Item, NoKeyErrorNoOverflow
<1>5. /\ s \in Seq(Item)
      /\ Len(s) = IF Cached(k) THEN Len(corpusCache) ELSE Len(corpusCache) + 1
      /\ \A i, j \in DOMAIN s : s[i].key = s[j].key => i = j
      /\ \A i \in DOMAIN s :
           \/ s[i].key = k /\ s[i].entry = entry[w]
           \/ i \in DOMAIN corpusCache /\ s[i] = corpusCache[i]
  BY <1>3, <1>4, ItemSetFacts
<1> HIDE DEF s
<1>6. TypeOK'
  BY <1>1, <1>5 DEF IInv, TypeOK, Item
<1>7. NoKeyErrorNoOverflow'
  <2>1. Len(s) <= CacheMax
    BY <1>4, <1>5, Bm25Assumption
  <2>2. \A v \in Workers : pc'[v] \notin {"hit", "evict", "put"}
    BY <1>1, <1>2 DEF IInv, TypeOK
  <2>3. /\ Len(corpusCache') <= CacheMax
        /\ \A i, j \in DOMAIN corpusCache' : corpusCache'[i].key = corpusCache'[j].key => i = j
    BY <1>1, <1>5, <2>1
  <2> QED
    BY <2>2, <2>3 DEF NoKeyErrorNoOverflow
<1>8. EntriesMatchKeys'
  BY <1>1, <1>3, <1>5 DEF IInv, EntriesMatchKeys
<1>9. LockHeld'
  BY <1>1, <1>2 DEF IInv, TypeOK, LockHeld
<1>10. AtWork' /\ StoresOwn' /\ HasEntry'
  BY <1>1, <1>3 DEF IInv, TypeOK, AtWork, StoresOwn, HasEntry
<1> QED
  BY <1>6, <1>7, <1>8, <1>9, <1>10 DEF IInv

LEMMA StepInv == IInv /\ [Next]_vars => IInv'
<1> SUFFICES ASSUME IInv, [Next]_vars PROVE IInv'
  OBVIOUS
<1>1. CASE Next
  <2>1. PICK w \in Workers : Step(w)
    BY <1>1 DEF Next
  <2> QED
    BY <2>1, IndexStep, IndexNothingStep, LookupStep, HitStep, BuildStep, EnterStoreStep,
       EvictStep, PutStep, ClearStep DEF Step
<1>2. CASE UNCHANGED vars
  BY <1>2 DEF vars, IInv, TypeOK, NoKeyErrorNoOverflow, LockHeld, EntriesMatchKeys,
     AtWork, StoresOwn, HasEntry, Cached
<1> QED
  BY <1>1, <1>2

LEMMA Invariance == Spec => []IInv
  BY InitInv, StepInv, PTL DEF Spec

(***************************************************************************)
(* What follows of the lexical cache.                                      *)
(***************************************************************************)

LEMMA LexicalTypes == Spec => []TypeOK
  BY Invariance, PTL DEF IInv

LEMMA SafetyAlone == Spec => []NoKeyErrorNoOverflow
  BY Invariance, PTL DEF IInv

LEMMA AnswersAlone == Spec => []OwnMemoriesAnswer
<1>1. IInv => OwnMemoriesAnswer
  <2> SUFFICES ASSUME IInv, NEW w \in Workers, pc[w] = "ready", memories[w] # <<>>
               PROVE  /\ {entry[w].idList[i] : i \in DOMAIN entry[w].idList} = Key(memories[w])
                      /\ Alone(memories[w]) =>
                           \A u \in Users : Retrieved(entry[w], u) = Own(memories[w], u)
    BY DEF OwnMemoriesAnswer
  <2>1. PICK c \in Corpora : Key(c) = Key(memories[w]) /\ entry[w] = Built(c)
    BY DEF IInv, HasEntry
  <2>2. Alone(memories[w]) => Memory(c) = Memory(memories[w])
    BY <2>1 DEF Alone
  <2>3. Alone(memories[w]) => \A u \in Users : Own(c, u) = Own(memories[w], u)
    BY <2>2 DEF Own
  <2> QED
    BY <2>1, <2>3, BuiltFacts
<1> QED
  BY <1>1, Invariance, PTL

(***************************************************************************)
(* EmbeddingIndex.                                                         *)
(***************************************************************************)
(***************************************************************************)
(* Lists without repetitions.                                              *)
(***************************************************************************)
LEMMA AppendDistinct ==
  ASSUME NEW T, NEW s \in Seq(T), NEW e \in T
  PROVE  /\ Append(s, e) \in Seq(T)
         /\ Elems(Append(s, e)) = Elems(s) \cup {e}
         /\ IsInjective(s) /\ e \notin Elems(s) => IsInjective(Append(s, e))
<1>1. Append(s, e) \in Seq(T) /\ Len(Append(s, e)) = Len(s) + 1
      /\ DOMAIN s = 1..Len(s) /\ DOMAIN Append(s, e) = 1..(Len(s) + 1) /\ Len(s) \in Nat
      /\ \A i \in 1..(Len(s) + 1) : Append(s, e)[i] = IF i <= Len(s) THEN s[i] ELSE e
  OBVIOUS
<1>2. Elems(Append(s, e)) = Elems(s) \cup {e}
  <2>1. \A i \in 1..Len(s) : s[i] = Append(s, e)[i] /\ i \in 1..(Len(s) + 1)
    BY <1>1
  <2>2. Append(s, e)[Len(s) + 1] = e /\ Len(s) + 1 \in 1..(Len(s) + 1)
    BY <1>1
  <2> QED BY <1>1, <2>1, <2>2 DEF Elems
<1>3. ASSUME IsInjective(s), e \notin Elems(s) PROVE IsInjective(Append(s, e))
  BY <1>1, <1>3 DEF Elems, IsInjective
<1> QED BY <1>1, <1>2, <1>3

LEMMA ConcatRows ==
  ASSUME NEW T, NEW s \in Seq(T), NEW t \in Seq(T)
  PROVE  /\ s \o t \in Seq(T) /\ Len(s \o t) = Len(s) + Len(t)
         /\ DOMAIN s = 1..Len(s) /\ DOMAIN t = 1..Len(t) /\ DOMAIN (s \o t) = 1..(Len(s) + Len(t))
         /\ Len(s) \in Nat /\ Len(t) \in Nat
         /\ \A i \in 1..(Len(s) + Len(t)) : (s \o t)[i] = IF i <= Len(s) THEN s[i] ELSE t[i - Len(s)]
OBVIOUS

LEMMA ConcatDistinct ==
  ASSUME NEW T, NEW s \in Seq(T), NEW t \in Seq(T)
  PROVE  /\ s \o t \in Seq(T)
         /\ Elems(s \o t) = Elems(s) \cup Elems(t)
         /\ IsInjective(s) /\ IsInjective(t) /\ Elems(s) \cap Elems(t) = {} => IsInjective(s \o t)
<1>1. /\ s \o t \in Seq(T) /\ Len(s \o t) = Len(s) + Len(t)
      /\ DOMAIN s = 1..Len(s) /\ DOMAIN t = 1..Len(t) /\ DOMAIN (s \o t) = 1..(Len(s) + Len(t))
      /\ Len(s) \in Nat /\ Len(t) \in Nat
      /\ \A i \in 1..(Len(s) + Len(t)) : (s \o t)[i] = IF i <= Len(s) THEN s[i] ELSE t[i - Len(s)]
  BY ConcatRows
<1>2. Elems(s \o t) = Elems(s) \cup Elems(t)
  <2>1. \A i \in DOMAIN t : t[i] = (s \o t)[i + Len(s)] /\ i + Len(s) \in 1..(Len(s) + Len(t))
    BY <1>1
  <2>2. \A i \in DOMAIN s : s[i] = (s \o t)[i] /\ i \in 1..(Len(s) + Len(t))
    BY <1>1
  <2>3. \A i \in 1..(Len(s) + Len(t)) : i > Len(s) => i - Len(s) \in DOMAIN t
    BY <1>1
  <2>4. Elems(s \o t) \subseteq Elems(s) \cup Elems(t)
    BY <1>1, <2>3 DEF Elems
  <2>5. Elems(s) \subseteq Elems(s \o t)
    BY <1>1, <2>2 DEF Elems
  <2>6. Elems(t) \subseteq Elems(s \o t)
    BY <1>1, <2>1 DEF Elems
  <2> QED BY <2>4, <2>5, <2>6
<1>3. ASSUME IsInjective(s), IsInjective(t), Elems(s) \cap Elems(t) = {}
      PROVE  IsInjective(s \o t)
  <2> SUFFICES ASSUME NEW i \in 1..(Len(s) + Len(t)), NEW j \in 1..(Len(s) + Len(t)),
                      (s \o t)[i] = (s \o t)[j], i <= j
               PROVE  i = j
    BY <1>1 DEF IsInjective
  <2>1. CASE j <= Len(s)
    BY <2>1, <1>1, <1>3 DEF IsInjective
  <2>2. CASE i > Len(s)
    <3>1. i - Len(s) \in DOMAIN t /\ j - Len(s) \in DOMAIN t /\ t[i - Len(s)] = t[j - Len(s)]
      BY <2>2, <1>1
    <3> QED BY <3>1, <1>3 DEF IsInjective
  <2>3. CASE i <= Len(s) /\ j > Len(s)
    <3>1. s[i] \in Elems(s) /\ t[j - Len(s)] \in Elems(t)
      BY <2>3, <1>1 DEF Elems
    <3> QED BY <3>1, <2>3, <1>1, <1>3
  <2> QED BY <2>1, <2>2, <2>3
<1> QED BY <1>1, <1>2, <1>3

LEMMA WithoutDistinct ==
  ASSUME NEW T, NEW s \in Seq(T), IsInjective(s), NEW e \in Elems(s)
  PROVE  /\ Without(s, e) \in Seq(T)
         /\ Len(Without(s, e)) = Len(s) - 1
         /\ Elems(Without(s, e)) = Elems(s) \ {e}
         /\ IsInjective(Without(s, e))
<1> DEFINE k == CHOOSE i \in DOMAIN s : s[i] = e
           r == Without(s, e)
<1>1. k \in 1..Len(s) /\ s[k] = e
  BY DEF Elems
<1>2. r = SubSeq(s, 1, k - 1) \o SubSeq(s, k + 1, Len(s))
  BY DEF Without, RemoveAt
<1> HIDE DEF k, r
<1>3. r \in Seq(T) /\ Len(r) = Len(s) - 1
      /\ \A i \in 1..(Len(s) - 1) : r[i] = IF i < k THEN s[i] ELSE s[i + 1]
  <2> DEFINE a == SubSeq(s, 1, k - 1)
             b == SubSeq(s, k + 1, Len(s))
  <2>1. a \in Seq(T) /\ Len(a) = k - 1 /\ \A i \in 1..(k - 1) : a[i] = s[i]
    BY <1>1
  <2>2. b \in Seq(T) /\ Len(b) = Len(s) - k /\ \A i \in 1..(Len(s) - k) : b[i] = s[i + k]
    BY <1>1
  <2>3. r = a \o b
    BY <1>2
  <2> HIDE DEF a, b
  <2>4. r \in Seq(T) /\ Len(r) = Len(a) + Len(b)
        /\ \A i \in 1..(Len(a) + Len(b)) : r[i] = IF i <= Len(a) THEN a[i] ELSE b[i - Len(a)]
    BY <2>1, <2>2, <2>3, ConcatRows
  <2>5. Len(s) \in Nat /\ Len(a) + Len(b) = Len(s) - 1
    BY <1>1, <2>1, <2>2
  <2>6. r \in Seq(T) /\ Len(r) = Len(s) - 1
        /\ \A i \in 1..(Len(s) - 1) : r[i] = IF i <= k - 1 THEN a[i] ELSE b[i - (k - 1)]
    BY <2>1, <2>4, <2>5
  <2>7. ASSUME NEW i \in 1..(Len(s) - 1) PROVE r[i] = IF i < k THEN s[i] ELSE s[i + 1]
    <3>1. CASE i < k
      <4>1. i <= k - 1 /\ i \in 1..(k - 1)
        BY <3>1, <1>1, <2>5
      <4>2. r[i] = a[i] /\ a[i] = s[i]
        BY <4>1, <2>1, <2>6
      <4> QED BY <3>1, <4>2
    <3>2. CASE i >= k
      <4>1. i - (k - 1) \in 1..(Len(s) - k) /\ (i - (k - 1)) + k = i + 1
            /\ ~ i <= k - 1 /\ ~ i < k
        BY <3>2, <1>1, <2>5
      <4>2. r[i] = b[i - (k - 1)]
        BY <4>1, <2>6
      <4>3. b[i - (k - 1)] = s[i + 1]
        BY <4>1, <2>2
      <4> QED BY <4>1, <4>2, <4>3
    <3> QED BY <3>1, <3>2, <1>1
  <2> QED BY <2>6, <2>7
<1>4. Elems(r) \subseteq Elems(s) \ {e}
  BY <1>1, <1>3 DEF Elems, IsInjective
<1>5. ASSUME NEW i \in DOMAIN s, s[i] # e PROVE s[i] \in Elems(r)
  <2>1. CASE i < k
    BY <2>1, <1>1, <1>3 DEF Elems
  <2>2. CASE i > k
    <3>1. i - 1 \in 1..(Len(s) - 1) /\ r[i - 1] = s[i]
      BY <2>2, <1>1, <1>3
    <3> QED BY <3>1, <1>3 DEF Elems
  <2> QED BY <2>1, <2>2, <1>1, <1>5
<1>6. Elems(s) \ {e} \subseteq Elems(r)
  BY <1>5 DEF Elems
<1>7. IsInjective(r)
  BY <1>1, <1>3 DEF IsInjective
<1> QED BY <1>3, <1>4, <1>6, <1>7 DEF r

LEMMA ElemsFinite ==
  ASSUME NEW T, NEW s \in Seq(T)
  PROVE  IsFiniteSet(Elems(s))
<1>1. s \in Surjection(1..Len(s), Elems(s))
  <2>1. s \in [1..Len(s) -> Elems(s)]
    BY DEF Elems
  <2> QED BY <2>1 DEF Surjection, Elems
<1> QED BY <1>1, FS_Surjection, FS_Interval

(* Numbers can be listed in order: each has its rank, the count of those   *)
(* that are not above it.                                                  *)
LEMMA InOrderDistinct ==
  ASSUME NEW S \in SUBSET Nat, IsFiniteSet(S)
  PROVE  /\ InOrder(S) \in Seq(S)
         /\ Elems(InOrder(S)) = S
         /\ IsInjective(InOrder(S))
<1> DEFINE n == Cardinality(S)
           UpTo(x) == {y \in S : y <= x}
           rank == [x \in S |-> Cardinality(UpTo(x))]
<1>1. n \in Nat /\ IsFiniteSet(1..n) /\ Cardinality(1..n) = n
  BY FS_CardinalityType, FS_Interval
<1>2. ASSUME NEW x \in S
      PROVE  IsFiniteSet(UpTo(x)) /\ rank[x] \in 1..n
  <2>1. IsFiniteSet(UpTo(x)) /\ Cardinality(UpTo(x)) <= n
    BY FS_Subset
  <2>2. Cardinality(UpTo(x)) \in Nat /\ (Cardinality(UpTo(x)) = 0 <=> UpTo(x) = {})
    BY <2>1, FS_CardinalityType, FS_EmptySet
  <2> QED BY <2>1, <2>2, <1>1
<1>3. ASSUME NEW x \in S, NEW y \in S, x < y
      PROVE  rank[x] < rank[y]
  <2>1. UpTo(x) \in SUBSET UpTo(y) /\ y \in UpTo(y) /\ y \notin UpTo(x)
    <3>1. x \in Nat /\ y \in Nat /\ \A z \in S : z \in Nat
      OBVIOUS
    <3>2. \A z \in S : z <= x => z <= y
      BY <1>3, <3>1
    <3>3. y <= y /\ ~ y <= x
      BY <1>3, <3>1
    <3> QED BY <3>2, <3>3
  <2>2. Cardinality(UpTo(x)) <= Cardinality(UpTo(y)) /\ Cardinality(UpTo(y)) # Cardinality(UpTo(x))
    BY <1>2, <2>1, FS_Subset
  <2> QED BY <1>2, <2>2
<1> HIDE DEF rank, UpTo, n
<1>4. rank \in Surjection(S, 1..n)
  <2>1. rank \in [S -> 1..n]
    BY <1>2 DEF rank
  <2>2. rank \in Injection(S, 1..n)
    <3>1. ASSUME NEW x \in S, NEW y \in S, rank[x] = rank[y] PROVE x = y
      <4>1. rank[x] \in Nat
        <5>1. rank[x] \in 1..n
          BY <1>2
        <5> QED BY <5>1, <1>1
      <4>2. ~ x < y /\ ~ y < x
        BY <1>3, <3>1, <4>1
      <4> QED BY <4>2
    <3> QED BY <2>1, <3>1 DEF Injection, IsInjective
  <2> QED BY <2>2, <1>1, FS_Injection DEF n
<1> DEFINE at == [k \in 1..n |-> CHOOSE x \in S : rank[x] = k]
<1>5. \A k \in 1..n : at[k] \in S /\ rank[at[k]] = k
  BY <1>4 DEF Surjection
<1>6. at \in [1..n -> S]
  BY <1>5
<1>7. ASSUME NEW i \in 1..n, NEW j \in 1..n, i < j
      PROVE  at[i] < at[j]
  <2>1. at[i] \in Nat /\ at[j] \in Nat
    BY <1>5
  <2>2. rank[at[i]] < rank[at[j]]
    BY <1>5, <1>7
  <2> HIDE DEF at
  <2>3. ~ at[j] < at[i] /\ at[i] # at[j]
    <3>1. rank[at[i]] \in Nat /\ rank[at[j]] \in Nat /\ at[i] \in S /\ at[j] \in S
      BY <1>1, <1>5
    <3>2. at[j] < at[i] => rank[at[j]] < rank[at[i]]
      BY <1>3, <3>1
    <3> QED BY <2>2, <3>1, <3>2
  <2> QED BY <2>1, <2>3
<1>8. \E s \in [1..n -> S] : \A i, j \in DOMAIN s : i < j => s[i] < s[j]
  BY <1>6, <1>7
<1>9. InOrder(S) \in [1..n -> S] /\ \A i, j \in DOMAIN InOrder(S) : i < j => InOrder(S)[i] < InOrder(S)[j]
  BY <1>8 DEF InOrder, n
<1> DEFINE s == InOrder(S)
<1> HIDE DEF s
<1>10. s \in Seq(S) /\ DOMAIN s = 1..n
  BY <1>1, <1>9 DEF s
<1>11. IsInjective(s)
  <2>1. \A i, j \in 1..n : i < j => s[i] < s[j]
    BY <1>9, <1>10 DEF s
  <2>2. \A i \in 1..n : s[i] \in Nat
    BY <1>9 DEF s
  <2>3. ASSUME NEW i \in 1..n, NEW j \in 1..n, s[i] = s[j] PROVE i = j
    <3>1. ~ i < j /\ ~ j < i
      BY <2>1, <2>2, <2>3
    <3> QED BY <3>1, <1>1
  <2> QED BY <2>3, <1>10 DEF IsInjective
<1>12. s \in Surjection(1..n, S)
  <2>1. s \in Injection(1..n, S)
    BY <1>9, <1>11 DEF s, Injection, IsInjective
  <2> QED BY <2>1, <1>1, FS_Injection DEF n
<1>13. Elems(s) = S
  BY <1>9, <1>12 DEF s, Elems, Surjection
<1> QED BY <1>10, <1>11, <1>13 DEF s
(***************************************************************************)
(* The invariant.                                                          *)
(***************************************************************************)
Rows == Seq(Events)
Entry == [matrix : Rows, ids : Rows, faiss : Rows]

(* Every variable keeps its type; a mask is known only by the property.    *)
DenseTypeOK ==
  /\ injected \in 0..Len(Dataset) /\ stored \in Rows /\ dirty \in BOOLEAN
  /\ known \in SUBSET Events
  /\ matrix \in Rows /\ ids \in Rows /\ faiss \in Rows
  /\ DOMAIN indexCache \in SUBSET SUBSET Events
  /\ indexCache \in [DOMAIN indexCache -> Entry]
  /\ cacheOrder \in Seq(SUBSET Events)
  /\ faults \in Nat /\ leftover \in BOOLEAN /\ spoilt \in BOOLEAN /\ moved \in BOOLEAN

(* An event is stored once: it is injected once in a cell. *)
StoredOnce ==
  /\ IsInjective(stored)
  /\ Elems(stored) \subseteq {Dataset[i] : i \in 1..injected}

(* The rows of the instance, while none was appended to a matrix that a    *)
(* failed rebuild left behind: they are those of the memories it knows,    *)
(* each once; what it knows is the store unless the store has changed.     *)
OwnRows ==
  /\ matrix = ids /\ IsInjective(ids)
  /\ faiss \in {<<>>, matrix}
  /\ ~ leftover => matrix = <<>> \/ Elems(ids) = known
  /\ leftover => dirty
  /\ ~ dirty => known = Elems(stored) /\ Elems(ids) = known

EntriesDistinct == \A k \in DOMAIN indexCache : IsInjective(indexCache[k].ids)

MasksMatch == moved \/ \A u \in DOMAIN masks : masks[u] = [i \in DOMAIN ids |-> Owner[ids[i]] = u]

Unspoilt == ~ spoilt => OwnRows /\ EntriesAreTheirCorpus /\ EntriesDistinct

DenseInv == DenseTypeOK /\ StoredOnce /\ OrderedCache /\ Unspoilt /\ MasksMatch

LEMMA ElemsOfRows == ASSUME NEW T, NEW s \in Seq(T) PROVE Elems(s) \subseteq T
BY DEF Elems

LEMMA EmptyRows == Elems(<<>>) = {} /\ IsInjective(<<>>) /\ \A T : <<>> \in Seq(T)
BY DEF Elems, IsInjective

LEMMA DatasetRows ==
  /\ Events \subseteq Nat /\ Dataset \in Seq(Events) /\ Dataset \in Seq(Nat)
  /\ \A i \in 1..Len(Dataset) : Dataset[i] \in Events
BY EmbeddingAssumption DEF EmbeddingAssumption, Events, Elems

(* The new ids, in order, are distinct rows.                               *)
LEMMA NewRows ==
  ASSUME DenseTypeOK
  PROVE  /\ InOrder(NewIds) \in Rows
         /\ Elems(InOrder(NewIds)) = NewIds
         /\ IsInjective(InOrder(NewIds))
<1>1. NewIds \in SUBSET Events
  BY ElemsOfRows DEF DenseTypeOK, Rows, NewIds
<1>2. IsFiniteSet(NewIds)
  <2>1. IsFiniteSet(Elems(stored))
    BY ElemsFinite DEF DenseTypeOK, Rows
  <2> QED BY <2>1, FS_Subset DEF NewIds
<1>3. NewIds \in SUBSET Nat
  BY <1>1, DatasetRows
<1>4. InOrder(NewIds) \in Seq(NewIds) /\ Elems(InOrder(NewIds)) = NewIds
      /\ IsInjective(InOrder(NewIds))
  BY <1>2, <1>3, InOrderDistinct
<1> HIDE DEF NewIds
<1>5. InOrder(NewIds) \in Rows
  BY <1>1, <1>4 DEF Rows
<1> QED BY <1>4, <1>5

(* What the cache is when an entry is added to it.                         *)
LEMMA CacheGains ==
  ASSUME DenseTypeOK, OrderedCache, NEW key \in SUBSET Events, key \notin DOMAIN indexCache,
         NEW new \in Entry,
         indexCache' = CacheAfter(indexCache, key, new),
         cacheOrder' = OrderAfter(key)
  PROVE  /\ DOMAIN indexCache' \in SUBSET SUBSET Events
         /\ indexCache' \in [DOMAIN indexCache' -> Entry]
         /\ cacheOrder' \in Seq(SUBSET Events)
         /\ OrderedCache'
         /\ \A k \in DOMAIN indexCache' :
              IF k = key THEN indexCache'[k] = new
                         ELSE k \in DOMAIN indexCache /\ indexCache'[k] = indexCache[k]
<1> DEFINE rest == IF RoomMade > 0 THEN SubSeq(cacheOrder, RoomMade + 1, Len(cacheOrder)) ELSE cacheOrder
           evicted == {cacheOrder[i] : i \in 1..RoomMade}
<1>1. /\ cacheOrder \in Seq(SUBSET Events) /\ IsInjective(cacheOrder)
      /\ Elems(cacheOrder) = DOMAIN indexCache /\ Len(cacheOrder) <= IndexCacheMax
      /\ IndexCacheMax \in Nat \ {0} /\ Len(cacheOrder) \in Nat
      /\ DOMAIN cacheOrder = 1..Len(cacheOrder)
  BY EmbeddingAssumption DEF EmbeddingAssumption, DenseTypeOK, OrderedCache
<1>2. rest \in Seq(SUBSET Events) /\ IsInjective(rest) /\ Elems(rest) = Elems(cacheOrder) \ evicted
      /\ Len(rest) <= IndexCacheMax - 1
  <2>1. CASE RoomMade > 0
    <3>1. RoomMade = 1 /\ Len(cacheOrder) = IndexCacheMax
      <4>1. Len(cacheOrder) \in Nat /\ IndexCacheMax \in Nat /\ Len(cacheOrder) <= IndexCacheMax
        BY <1>1
      <4> HIDE DEF rest, evicted
      <4> QED BY <2>1, <4>1 DEF RoomMade
    <3>2. evicted = {cacheOrder[1]}
      BY <3>1
    <3>3. rest = Tail(cacheOrder)
      BY <1>1, <3>1
    <3>4. /\ rest \in Seq(SUBSET Events) /\ Len(rest) = Len(cacheOrder) - 1
          /\ DOMAIN rest = 1..(Len(cacheOrder) - 1)
          /\ \A i \in 1..(Len(cacheOrder) - 1) : rest[i] = cacheOrder[i + 1]
      BY <1>1, <3>1, <3>3
    <3> HIDE DEF rest, evicted
    <3>5. IsInjective(rest)
      <4>1. ASSUME NEW i \in DOMAIN rest, NEW j \in DOMAIN rest, rest[i] = rest[j]
            PROVE  i = j
        <5>1. i + 1 \in DOMAIN cacheOrder /\ j + 1 \in DOMAIN cacheOrder
              /\ cacheOrder[i + 1] = cacheOrder[j + 1]
          BY <1>1, <3>4, <4>1
        <5>2. i + 1 = j + 1
          BY <1>1, <5>1 DEF IsInjective
        <5> QED BY <5>2, <3>4, <1>1
      <4> QED BY <4>1 DEF IsInjective
    <3>6. Elems(rest) \subseteq Elems(cacheOrder) \ evicted
      BY <1>1, <3>1, <3>2, <3>4 DEF IsInjective, Elems
    <3>7. ASSUME NEW i \in 1..Len(cacheOrder), cacheOrder[i] # cacheOrder[1]
          PROVE  cacheOrder[i] \in Elems(rest)
      <4>1. i - 1 \in DOMAIN rest /\ rest[i - 1] = cacheOrder[i]
        BY <1>1, <3>4, <3>7
      <4> QED BY <4>1 DEF Elems
    <3>8. Elems(cacheOrder) \ evicted \subseteq Elems(rest)
      BY <1>1, <3>2, <3>7 DEF Elems
    <3> QED BY <1>1, <3>1, <3>4, <3>5, <3>6, <3>8
  <2>2. CASE ~ RoomMade > 0
    <3>1. evicted = {} /\ rest = cacheOrder
      BY <1>1, <2>2 DEF RoomMade
    <3> QED BY <1>1, <2>2, <3>1 DEF RoomMade
  <2> QED BY <2>1, <2>2
<1>3. indexCache' = [k \in (DOMAIN indexCache \ evicted) \cup {key} |->
                       IF k = key THEN new ELSE indexCache[k]]
  BY DEF CacheAfter
<1>4. cacheOrder' = Append(rest, key)
  BY DEF OrderAfter
<1> HIDE DEF rest, evicted
<1>5. key \notin Elems(rest)
  BY <1>1, <1>2
<1>6. cacheOrder' \in Seq(SUBSET Events) /\ Elems(cacheOrder') = Elems(rest) \cup {key}
      /\ IsInjective(cacheOrder') /\ Len(cacheOrder') = Len(rest) + 1
  BY <1>2, <1>4, <1>5, AppendDistinct
<1>7. DOMAIN indexCache' = Elems(cacheOrder')
  BY <1>1, <1>2, <1>3, <1>6
<1>8. OrderedCache'
  BY <1>1, <1>2, <1>6, <1>7 DEF OrderedCache
<1>9. indexCache \in [DOMAIN indexCache -> Entry] /\ DOMAIN indexCache \in SUBSET SUBSET Events
  BY DEF DenseTypeOK
<1> QED BY <1>3, <1>6, <1>8, <1>9

LEMMA InitDense == DenseInit => DenseInv
<1> SUFFICES ASSUME DenseInit PROVE DenseInv
  OBVIOUS
<1> USE EmptyRows DEF DenseInit
<1>1. DenseTypeOK
  <2>1. DOMAIN indexCache = {} /\ indexCache \in [{} -> Entry]
    OBVIOUS
  <2>2. 0 \in 0..Len(Dataset)
    BY DatasetRows
  <2> QED BY <2>1, <2>2, Zenon DEF DenseTypeOK, Rows
<1>2. StoredOnce
  BY DEF StoredOnce
<1>3. OrderedCache
  BY EmbeddingAssumption DEF OrderedCache, EmbeddingAssumption
<1>4. Unspoilt
  BY DEF Unspoilt, OwnRows, EntriesAreTheirCorpus, EntriesDistinct
<1>5. MasksMatch
  BY DEF MasksMatch, NoMasks
<1> QED BY <1>1, <1>2, <1>3, <1>4, <1>5 DEF DenseInv

(* The masks after a step that keeps what there is of them. *)
LEMMA MasksGone == ASSUME masks' = NoMasks PROVE MasksMatch'
BY DEF MasksMatch, NoMasks

LEMMA MasksOfRebuild ==
  ASSUME MasksMatch, moved \in BOOLEAN, masks' = MasksKept, moved' = MovedUnderMasks
  PROVE  MasksMatch' /\ moved' \in BOOLEAN
<1>1. CASE masks' = NoMasks
  BY <1>1, MasksGone DEF MovedUnderMasks
<1>2. CASE masks' # NoMasks
  <2>1. masks' = masks
    BY <1>2 DEF MasksKept
  <2>2. moved' = (moved \/ ids' # ids)
    BY <1>2 DEF MovedUnderMasks
  <2>3. moved' \in BOOLEAN
    BY <2>2
  <2>4. ASSUME ~ moved' PROVE MasksMatch'
    <3>1. ~ moved /\ ids' = ids
      BY <2>2, <2>4
    <3>2. \A u \in DOMAIN masks : masks[u] = [i \in DOMAIN ids |-> Owner[ids[i]] = u]
      BY <3>1 DEF MasksMatch
    <3> QED BY <2>1, <3>1, <3>2 DEF MasksMatch
  <2>5. ASSUME moved' PROVE MasksMatch'
    BY <2>5 DEF MasksMatch
  <2> QED BY <2>3, <2>4, <2>5
<1> QED BY <1>1, <1>2

LEMMA StoreKept ==
  ASSUME StoredOnce, UNCHANGED storeVars
  PROVE  StoredOnce'
BY DEF StoredOnce, storeVars, Elems

(* The step leaves the rows and the cache as they are. *)
LEMMA RowsKept ==
  ASSUME Unspoilt, UNCHANGED <<instance, caches, leftover, spoilt>>, dirty'
  PROVE  Unspoilt'
BY DEF Unspoilt, OwnRows, EntriesAreTheirCorpus, EntriesDistinct, instance, caches, Elems

LEMMA CachesKept ==
  ASSUME OrderedCache, UNCHANGED caches
  PROVE  OrderedCache'
BY DEF OrderedCache, caches, Elems

LEMMA WriteStep == ASSUME DenseInv, Write PROVE DenseInv'
<1> USE DEF DenseInv
<1>1. DenseTypeOK' /\ StoredOnce'
  <2> DEFINE e == Dataset[injected + 1]
  <2>1. /\ injected + 1 \in 1..Len(Dataset) /\ injected' = injected + 1 /\ stored' = Append(stored, e)
        /\ injected \in Nat /\ stored \in Seq(Events) /\ e \in Events
    BY DatasetRows DEF Write, DenseTypeOK, Rows
  <2>2. e \notin Elems(stored)
    <3>1. DOMAIN Dataset = 1..Len(Dataset) /\ Len(Dataset) \in Nat
      BY DatasetRows
    <3>2. \A i \in 1..injected : i \in DOMAIN Dataset /\ i # injected + 1
      BY <2>1, <3>1
    <3>3. \A i \in 1..injected : Dataset[i] # e
      BY <2>1, <3>1, <3>2, EmbeddingAssumption DEF EmbeddingAssumption, IsInjective
    <3> QED BY <3>3 DEF StoredOnce
  <2> HIDE DEF e
  <2>3. stored' \in Rows /\ Elems(stored') = Elems(stored) \cup {e} /\ IsInjective(stored')
    BY <2>1, <2>2, AppendDistinct DEF StoredOnce, Rows
  <2>4. DenseTypeOK'
    BY <2>1, <2>3 DEF Write, DenseTypeOK, instance, caches, ghosts
  <2>5. StoredOnce'
    BY <2>1, <2>3 DEF StoredOnce, e
  <2> QED BY <2>4, <2>5
<1>2. OrderedCache'
  BY CachesKept DEF Write
<1>3. Unspoilt'
  BY RowsKept DEF Write, ghosts
<1>4. MasksMatch'
  BY DEF Write, MasksMatch, instance, ghosts
<1> QED BY <1>1, <1>2, <1>3, <1>4

LEMMA OtherTypeStep == ASSUME DenseInv, OtherType PROVE DenseInv'
<1> USE DEF DenseInv, OtherType
<1>1. DenseTypeOK'
  BY EmbeddingAssumption DEF DenseTypeOK, instance, caches, ghosts, EmbeddingAssumption
<1>2. StoredOnce'
  <2>1. 1..injected \subseteq 1..injected' /\ stored' = stored
    BY DatasetRows DEF DenseTypeOK
  <2>2. Elems(stored)' = Elems(stored)
    BY <2>1 DEF Elems
  <2> QED BY <2>1, <2>2 DEF StoredOnce
<1>3. OrderedCache'
  BY CachesKept
<1>4. Unspoilt'
  BY DEF Unspoilt, OwnRows, EntriesAreTheirCorpus, EntriesDistinct, instance, caches, ghosts, Elems
<1>5. MasksMatch'
  BY DEF MasksMatch, instance, ghosts
<1> QED BY <1>1, <1>2, <1>3, <1>4, <1>5

LEMMA PruneStep == ASSUME DenseInv, NEW m \in Events, Prune(m) PROVE DenseInv'
<1> USE DEF DenseInv, Prune
<1>1. stored' \in Rows /\ Elems(stored') = Elems(stored) \ {m} /\ IsInjective(stored')
  BY WithoutDistinct DEF DenseTypeOK, StoredOnce, Rows
<1>2. DenseTypeOK'
  BY <1>1 DEF DenseTypeOK, instance, caches, ghosts
<1>3. StoredOnce'
  BY <1>1 DEF StoredOnce
<1>4. OrderedCache'
  BY CachesKept
<1>5. Unspoilt'
  BY RowsKept DEF ghosts
<1>6. MasksMatch'
  BY DEF MasksMatch, instance, ghosts
<1> QED BY <1>2, <1>3, <1>4, <1>5, <1>6

LEMMA IndexGrowsStep == ASSUME DenseInv, IndexGrows PROVE DenseInv'
<1> DEFINE new == InOrder(NewIds)
           added == [matrix |-> matrix \o new, ids |-> ids \o new, faiss |-> <<>>]
<1> USE DEF DenseInv
<1>1. /\ dirty /\ matrix # <<>> /\ NewIds # {} /\ RemovedIds = {}
      /\ matrix' = matrix \o new /\ ids' = ids \o new /\ faiss' = <<>>
      /\ known' = Elems(stored) /\ masks' = NoMasks /\ moved' = FALSE /\ dirty' = FALSE
      /\ spoilt' = (spoilt \/ leftover) /\ UNCHANGED <<injected, stored, faults, leftover>>
  BY DEF IndexGrows, Grows, FaissGrown, MasksKept, storeVars
<1>2. IF CacheKey \in DOMAIN indexCache
      THEN indexCache' = indexCache /\ cacheOrder' = cacheOrder
      ELSE indexCache' = CacheAfter(indexCache, CacheKey, added) /\ cacheOrder' = OrderAfter(CacheKey)
  BY DEF IndexGrows, CacheAfterAppend
<1>3. new \in Rows /\ Elems(new) = NewIds /\ IsInjective(new)
  BY NewRows
<1> HIDE DEF new
<1>4. matrix' \in Rows /\ ids' \in Rows /\ Elems(ids') = Elems(ids) \cup NewIds
      /\ (IsInjective(ids) /\ Elems(ids) \cap NewIds = {} => IsInjective(ids'))
  BY <1>1, <1>3, ConcatDistinct DEF DenseTypeOK, Rows
<1>5. added \in Entry /\ CacheKey \in SUBSET Events
  BY <1>1, <1>4, EmptyRows, ElemsOfRows DEF DenseTypeOK, Entry, Rows, CacheKey
<1>6. /\ DOMAIN indexCache' \in SUBSET SUBSET Events
      /\ indexCache' \in [DOMAIN indexCache' -> Entry]
      /\ cacheOrder' \in Seq(SUBSET Events)
      /\ OrderedCache'
      /\ \A k \in DOMAIN indexCache' :
           \/ k \in DOMAIN indexCache /\ indexCache'[k] = indexCache[k]
           \/ k = CacheKey /\ indexCache'[k] = added
  <2>1. CASE CacheKey \in DOMAIN indexCache
    BY <1>2, <2>1, CachesKept DEF DenseTypeOK, caches
  <2>2. CASE CacheKey \notin DOMAIN indexCache
    <3> HIDE DEF added
    <3> QED BY <1>2, <1>5, <2>2, CacheGains
  <2> QED BY <2>1, <2>2
<1>7. DenseTypeOK'
  BY <1>1, <1>4, <1>5, <1>6, EmptyRows DEF DenseTypeOK, Rows, CacheKey
<1>8. StoredOnce'
  BY <1>1, StoreKept DEF storeVars
<1>9. Unspoilt'
  <2> SUFFICES ASSUME ~ spoilt' PROVE OwnRows' /\ EntriesAreTheirCorpus' /\ EntriesDistinct'
    BY DEF Unspoilt
  <2>1. ~ spoilt /\ ~ leftover /\ OwnRows /\ EntriesAreTheirCorpus /\ EntriesDistinct
    BY <1>1 DEF Unspoilt
  <2>2. Elems(ids) = known /\ matrix = ids /\ IsInjective(ids)
    BY <1>1, <2>1 DEF OwnRows
  <2>3. known \cup NewIds = Elems(stored) /\ known \cap NewIds = {}
    BY <1>1 DEF NewIds, RemovedIds
  <2>4. Elems(ids') = Elems(stored) /\ IsInjective(ids') /\ matrix' = ids'
    BY <1>1, <1>4, <2>2, <2>3
  <2>5. OwnRows'
    BY <1>1, <2>1, <2>4 DEF OwnRows
  <2>6. added.matrix = ids' /\ added.ids = ids' /\ added.faiss = <<>>
    BY <1>1, <2>4
  <2>7. ASSUME NEW k \in DOMAIN indexCache'
        PROVE  /\ Elems(indexCache'[k].ids) = k
               /\ indexCache'[k].matrix = indexCache'[k].ids
               /\ indexCache'[k].faiss \in {<<>>, indexCache'[k].matrix}
               /\ IsInjective(indexCache'[k].ids)
    <3> HIDE DEF added
    <3>1. CASE k \in DOMAIN indexCache /\ indexCache'[k] = indexCache[k]
      BY <2>1, <3>1 DEF EntriesAreTheirCorpus, EntriesDistinct
    <3>2. CASE k = CacheKey /\ indexCache'[k] = added
      BY <2>4, <2>6, <3>2 DEF CacheKey
    <3> QED BY <1>6, <3>1, <3>2
  <2> QED BY <2>5, <2>7 DEF EntriesAreTheirCorpus, EntriesDistinct
<1>10. MasksMatch'
  BY <1>1, MasksGone
<1> QED BY <1>6, <1>7, <1>8, <1>9, <1>10

LEMMA IndexGrowFailsStep == ASSUME DenseInv, IndexGrowFails PROVE DenseInv'
<1> USE DEF DenseInv
<1>1. masks' = NoMasks /\ moved' = FALSE /\ dirty
      /\ UNCHANGED <<injected, stored, dirty, known, matrix, ids, faiss, indexCache, cacheOrder,
                     faults, leftover, spoilt>>
  BY DEF IndexGrowFails, Grows, MasksKept, storeVars, caches
<1>2. DenseTypeOK'
  BY <1>1 DEF DenseTypeOK
<1>3. StoredOnce'
  BY <1>1, StoreKept DEF storeVars
<1>4. OrderedCache'
  BY <1>1, CachesKept DEF caches
<1>5. Unspoilt'
  BY <1>1 DEF Unspoilt, OwnRows, EntriesAreTheirCorpus, EntriesDistinct, Elems
<1>6. MasksMatch'
  BY <1>1, MasksGone
<1> QED BY <1>2, <1>3, <1>4, <1>5, <1>6

(* A step of the rebuild path that leaves the instance with rows that are  *)
(* those of the store.                                                     *)
LEMMA RowsOfStore ==
  ASSUME NEW rows \in Rows, matrix' = rows, ids' = rows, faiss' \in {<<>>, rows},
         IsInjective(rows), Elems(rows) = Elems(stored), known' = Elems(stored),
         stored' = stored, leftover' = FALSE
  PROVE  OwnRows'
<1>1. Elems(ids') = Elems(stored) /\ Elems(stored') = Elems(stored)
  OBVIOUS
<1> QED BY <1>1 DEF OwnRows

LEMMA IndexEmptiedStep == ASSUME DenseInv, IndexEmptied PROVE DenseInv'
<1> USE DEF DenseInv
<1>1. /\ stored = <<>> /\ known' = {} /\ matrix' = <<>> /\ ids' = <<>> /\ faiss' = <<>>
      /\ masks' = MasksKept /\ moved' = MovedUnderMasks
      /\ dirty' = FALSE /\ leftover' = FALSE
      /\ UNCHANGED <<injected, stored, indexCache, cacheOrder, faults, spoilt>>
  BY DEF IndexEmptied, storeVars, caches
<1>2. MasksMatch' /\ moved' \in BOOLEAN
  BY <1>1, MasksOfRebuild DEF DenseTypeOK
<1>3. DenseTypeOK'
  BY <1>1, <1>2, EmptyRows DEF DenseTypeOK, Rows
<1>4. StoredOnce'
  BY <1>1, StoreKept DEF storeVars
<1>5. OrderedCache'
  BY <1>1, CachesKept DEF caches
<1>6. OwnRows'
  BY <1>1, EmptyRows, RowsOfStore DEF Rows
<1>7. Unspoilt'
  BY <1>1, <1>6 DEF Unspoilt, EntriesAreTheirCorpus, EntriesDistinct, Elems
<1> QED BY <1>2, <1>3, <1>4, <1>5, <1>7

LEMMA IndexHitStep == ASSUME DenseInv, IndexHit PROVE DenseInv'
<1> USE DEF DenseInv
<1> DEFINE hit == indexCache[CacheKey]
           kept == Without(cacheOrder, CacheKey)
<1>1. /\ CacheKey \in DOMAIN indexCache /\ known' = Elems(stored)
      /\ matrix' = hit.matrix /\ ids' = hit.ids /\ faiss' = hit.faiss
      /\ cacheOrder' = Append(kept, CacheKey)
      /\ masks' = MasksKept /\ moved' = MovedUnderMasks
      /\ dirty' = FALSE /\ leftover' = FALSE
      /\ UNCHANGED <<injected, stored, indexCache, faults, spoilt>>
  BY DEF IndexHit, storeVars
<1>2. hit \in Entry /\ CacheKey \in SUBSET Events
  BY <1>1 DEF DenseTypeOK
<1>3. hit.matrix \in Rows /\ hit.ids \in Rows /\ hit.faiss \in Rows
  BY <1>2 DEF Entry
<1>4. /\ kept \in Seq(SUBSET Events) /\ Len(kept) = Len(cacheOrder) - 1
      /\ Elems(kept) = Elems(cacheOrder) \ {CacheKey} /\ IsInjective(kept)
  BY <1>1, WithoutDistinct DEF OrderedCache, DenseTypeOK
<1> HIDE DEF kept
<1>5. /\ cacheOrder' \in Seq(SUBSET Events) /\ Len(cacheOrder') = Len(cacheOrder)
      /\ Elems(cacheOrder') = Elems(cacheOrder) /\ IsInjective(cacheOrder')
  <2>1. /\ Append(kept, CacheKey) \in Seq(SUBSET Events)
        /\ Elems(Append(kept, CacheKey)) = Elems(kept) \cup {CacheKey}
        /\ IsInjective(Append(kept, CacheKey))
    BY <1>2, <1>4, AppendDistinct
  <2>2. Len(Append(kept, CacheKey)) = Len(kept) + 1 /\ Len(cacheOrder) \in Nat
    BY <1>2, <1>4 DEF DenseTypeOK
  <2>3. CacheKey \in Elems(cacheOrder)
    BY <1>1 DEF OrderedCache
  <2> QED BY <1>1, <1>4, <2>1, <2>2, <2>3
<1>6. OrderedCache'
  BY <1>1, <1>5 DEF OrderedCache
<1>7. MasksMatch' /\ moved' \in BOOLEAN
  BY <1>1, MasksOfRebuild DEF DenseTypeOK
<1>8. DenseTypeOK'
  BY <1>1, <1>2, <1>3, <1>5, <1>7 DEF DenseTypeOK, CacheKey
<1>9. StoredOnce'
  BY <1>1, StoreKept DEF storeVars
<1>10. Unspoilt'
  <2> SUFFICES ASSUME ~ spoilt' PROVE OwnRows' /\ EntriesAreTheirCorpus' /\ EntriesDistinct'
    BY DEF Unspoilt
  <2>1. EntriesAreTheirCorpus /\ EntriesDistinct
    BY <1>1 DEF Unspoilt
  <2>2. hit.matrix = hit.ids /\ hit.faiss \in {<<>>, hit.ids} /\ IsInjective(hit.ids)
        /\ Elems(hit.ids) = Elems(stored)
    BY <1>1, <2>1 DEF EntriesAreTheirCorpus, EntriesDistinct, CacheKey
  <2>3. OwnRows'
    <3> HIDE DEF hit
    <3> QED BY <1>1, <1>3, <2>2, RowsOfStore
  <2>4. EntriesAreTheirCorpus' /\ EntriesDistinct'
    BY <1>1, <2>1 DEF EntriesAreTheirCorpus, EntriesDistinct, Elems
  <2> QED BY <2>3, <2>4
<1> QED BY <1>6, <1>7, <1>8, <1>9, <1>10

LEMMA IndexRebuildsStep == ASSUME DenseInv, IndexRebuilds PROVE DenseInv'
<1> USE DEF DenseInv
<1> DEFINE new == [matrix |-> stored, ids |-> stored, faiss |-> faiss']
<1>1. /\ CacheKey \notin DOMAIN indexCache /\ known' = Elems(stored)
      /\ matrix' = stored /\ ids' = stored /\ faiss' \in {<<>>, stored}
      /\ indexCache' = CacheAfter(indexCache, CacheKey, new) /\ cacheOrder' = OrderAfter(CacheKey)
      /\ masks' = MasksKept /\ moved' = MovedUnderMasks
      /\ dirty' = FALSE /\ leftover' = FALSE
      /\ UNCHANGED <<injected, stored, faults, spoilt>>
  BY DEF IndexRebuilds, storeVars
<1>2. new \in Entry /\ CacheKey \in SUBSET Events /\ faiss' \in Rows /\ stored \in Rows
  BY <1>1, EmptyRows, ElemsOfRows DEF DenseTypeOK, Entry, Rows, CacheKey
<1>3. new.matrix = stored /\ new.ids = stored /\ new.faiss \in {<<>>, stored}
  BY <1>1
<1> HIDE DEF new
<1>4. /\ DOMAIN indexCache' \in SUBSET SUBSET Events
      /\ indexCache' \in [DOMAIN indexCache' -> Entry]
      /\ cacheOrder' \in Seq(SUBSET Events)
      /\ OrderedCache'
      /\ \A k \in DOMAIN indexCache' :
           IF k = CacheKey THEN indexCache'[k] = new
                           ELSE k \in DOMAIN indexCache /\ indexCache'[k] = indexCache[k]
  BY <1>1, <1>2, CacheGains
<1>5. MasksMatch' /\ moved' \in BOOLEAN
  BY <1>1, MasksOfRebuild DEF DenseTypeOK
<1>6. DenseTypeOK'
  BY <1>1, <1>2, <1>4, <1>5 DEF DenseTypeOK, CacheKey
<1>7. StoredOnce'
  BY <1>1, StoreKept DEF storeVars
<1>8. Unspoilt'
  <2> SUFFICES ASSUME ~ spoilt' PROVE OwnRows' /\ EntriesAreTheirCorpus' /\ EntriesDistinct'
    BY DEF Unspoilt
  <2>1. EntriesAreTheirCorpus /\ EntriesDistinct
    BY <1>1 DEF Unspoilt
  <2>2. OwnRows'
    BY <1>1, <1>2, RowsOfStore DEF StoredOnce
  <2>3. ASSUME NEW k \in DOMAIN indexCache'
        PROVE  /\ Elems(indexCache'[k].ids) = k
               /\ indexCache'[k].matrix = indexCache'[k].ids
               /\ indexCache'[k].faiss \in {<<>>, indexCache'[k].matrix}
               /\ IsInjective(indexCache'[k].ids)
    <3>1. CASE k = CacheKey
      BY <1>3, <1>4, <3>1 DEF CacheKey, StoredOnce
    <3>2. CASE k # CacheKey
      BY <1>4, <2>1, <3>2 DEF EntriesAreTheirCorpus, EntriesDistinct
    <3> QED BY <3>1, <3>2
  <2> QED BY <2>2, <2>3 DEF EntriesAreTheirCorpus, EntriesDistinct
<1> QED BY <1>4, <1>5, <1>6, <1>7, <1>8

LEMMA IndexRebuildFailsStep == ASSUME DenseInv, IndexRebuildFails PROVE DenseInv'
<1> USE DEF DenseInv
<1>1. /\ dirty /\ faults' = faults + 1 /\ known' = Elems(stored)
      /\ masks' = MasksKept /\ moved' = MovedUnderMasks /\ leftover' = (matrix # <<>>)
      /\ UNCHANGED <<injected, stored, dirty, matrix, ids, faiss, indexCache, cacheOrder, spoilt>>
  BY DEF IndexRebuildFails, storeVars, caches
<1>2. MasksMatch' /\ moved' \in BOOLEAN
  BY <1>1, MasksOfRebuild DEF DenseTypeOK
<1>3. DenseTypeOK'
  <2>1. Elems(stored) \in SUBSET Events /\ leftover' \in BOOLEAN
    BY <1>1, ElemsOfRows DEF DenseTypeOK, Rows
  <2> QED BY <1>1, <1>2, <2>1 DEF DenseTypeOK
<1>4. StoredOnce'
  BY <1>1, StoreKept DEF storeVars
<1>5. OrderedCache'
  BY <1>1, CachesKept DEF caches
<1>6. Unspoilt'
  <2>1. ASSUME OwnRows PROVE OwnRows'
    <3>1. (~ leftover' => matrix' = <<>>) /\ dirty'
      BY <1>1
    <3> QED BY <1>1, <2>1, <3>1 DEF OwnRows
  <2>2. (EntriesAreTheirCorpus /\ EntriesDistinct) => (EntriesAreTheirCorpus /\ EntriesDistinct)'
    BY <1>1 DEF EntriesAreTheirCorpus, EntriesDistinct, Elems
  <2> QED BY <1>1, <2>1, <2>2 DEF Unspoilt
<1> QED BY <1>2, <1>3, <1>4, <1>5, <1>6

LEMMA RetrieveStep == ASSUME DenseInv, NEW u \in Owners, Retrieve(u) PROVE DenseInv'
<1> USE DEF DenseInv
<1>1. /\ masks' = [v \in DOMAIN masks \cup {u} |->
                     IF v = u THEN [i \in DOMAIN ids |-> Owner[ids[i]] = u] ELSE masks[v]]
      /\ UNCHANGED <<injected, stored, dirty, known, matrix, ids, faiss, indexCache, cacheOrder,
                     faults, leftover, spoilt, moved>>
  BY DEF Retrieve, storeVars, caches, ghosts
<1>2. DenseTypeOK'
  BY <1>1 DEF DenseTypeOK
<1>3. StoredOnce'
  BY <1>1, StoreKept DEF storeVars
<1>4. OrderedCache'
  BY <1>1, CachesKept DEF caches
<1>5. Unspoilt'
  BY <1>1 DEF Unspoilt, OwnRows, EntriesAreTheirCorpus, EntriesDistinct, Elems
<1>6. MasksMatch'
  BY <1>1 DEF MasksMatch
<1> QED BY <1>2, <1>3, <1>4, <1>5, <1>6

LEMMA NextCellStep == ASSUME DenseInv, NextCell PROVE DenseInv'
<1> USE DEF DenseInv
<1>1. /\ injected' = 0 /\ stored' = <<>> /\ dirty' = TRUE
      /\ known' = {} /\ matrix' = <<>> /\ ids' = <<>> /\ faiss' = <<>> /\ masks' = NoMasks
      /\ leftover' = FALSE /\ moved' = FALSE
      /\ UNCHANGED <<indexCache, cacheOrder, faults, spoilt>>
  BY DEF NextCell, caches
<1>2. DenseTypeOK'
  <2>1. 0 \in 0..Len(Dataset)
    BY DatasetRows
  <2> QED BY <1>1, <2>1, EmptyRows DEF DenseTypeOK, Rows
<1>3. StoredOnce'
  BY <1>1, EmptyRows DEF StoredOnce
<1>4. OrderedCache'
  BY <1>1, CachesKept DEF caches
<1>5. Unspoilt'
  BY <1>1, EmptyRows DEF Unspoilt, OwnRows, EntriesAreTheirCorpus, EntriesDistinct, Elems
<1>6. MasksMatch'
  BY <1>1, MasksGone
<1> QED BY <1>2, <1>3, <1>4, <1>5, <1>6

LEMMA NextDense == DenseInv /\ [DenseNext]_denseVars => DenseInv'
<1> SUFFICES ASSUME DenseInv, [DenseNext]_denseVars PROVE DenseInv'
  OBVIOUS
<1>1. CASE DenseNext
  BY <1>1, WriteStep, OtherTypeStep, PruneStep, IndexGrowsStep, IndexGrowFailsStep,
     IndexEmptiedStep, IndexHitStep, IndexRebuildsStep, IndexRebuildFailsStep, RetrieveStep,
     NextCellStep
  DEF DenseNext
<1>2. CASE UNCHANGED denseVars
  <2>1. UNCHANGED <<injected, stored, dirty, known, matrix, ids, faiss, masks, indexCache,
                    cacheOrder, faults, leftover, spoilt, moved>>
    BY <1>2 DEF denseVars, storeVars, instance, caches, ghosts
  <2>2. DenseTypeOK' /\ StoredOnce' /\ OrderedCache'
    BY <2>1, StoreKept, CachesKept DEF DenseInv, DenseTypeOK, storeVars, caches
  <2>3. Unspoilt' /\ MasksMatch'
    BY <2>1 DEF DenseInv, Unspoilt, OwnRows, EntriesAreTheirCorpus, EntriesDistinct, MasksMatch, Elems
  <2> QED BY <2>2, <2>3 DEF DenseInv
<1> QED BY <1>1, <1>2

LEMMA Inductive == DenseSpec => []DenseInv
BY InitDense, NextDense, PTL DEF DenseSpec

LEMMA DenseTypes == DenseSpec => []DenseTypeOK
<1>1. DenseInv => DenseTypeOK
  BY DEF DenseInv
<1> QED BY Inductive, <1>1, PTL

LEMMA OrderAlone == DenseSpec => []OrderedCache
<1>1. DenseInv => OrderedCache
  BY DEF DenseInv
<1> QED BY Inductive, <1>1, PTL

LEMMA EntriesAlone == DenseSpec => []EntriesUnlessSpoilt
<1>1. DenseInv => EntriesUnlessSpoilt
  BY DEF DenseInv, Unspoilt, EntriesUnlessSpoilt
<1> QED BY Inductive, <1>1, PTL

LEMMA RowsAlone == DenseSpec => []AnswersUnlessSpoilt
<1>1. DenseInv => AnswersUnlessSpoilt
  <2> SUFFICES ASSUME DenseInv, ~ spoilt, ~ dirty PROVE AnswersOwn
    BY DEF AnswersUnlessSpoilt, AnswersOwn
  <2>1. OwnRows
    BY DEF DenseInv, Unspoilt
  <2> QED BY <2>1 DEF DenseInv, OwnRows, MasksMatch, AnswersOwn
<1> QED BY Inductive, <1>1, PTL

(***************************************************************************)
(* Both caches.  A behaviour of the one is a behaviour in which the other  *)
(* stays in its initial state.                                             *)
(***************************************************************************)
LEMMA BothCaches == CachesSpec => Spec /\ DenseSpec
<1>1. CachesInit => Init /\ DenseInit
  BY DEF CachesInit, NoLexical, Init
<1>2. [CachesNext]_allVars => [Next]_vars /\ [DenseNext]_denseVars
  BY DEF CachesNext, IndexLexical, IndexDense, allVars
<1> QED BY <1>1, <1>2, PTL DEF CachesSpec, Spec, DenseSpec

(* Every variable of the cache and of the instances keeps its type, for    *)
(* any corpora and any limit (bm25_strategy.py).                           *)
THEOREM TypeCorrect == CachesSpec => []TypeOK
BY BothCaches, LexicalTypes, PTL

(* However many threads index at once, the lock makes check, eviction and  *)
(* storing one step: no KeyError, no double eviction, no overflow.         *)
THEOREM CacheSafety == CachesSpec => []NoKeyErrorNoOverflow
BY BothCaches, SafetyAlone, PTL

(* An instance that has indexed a corpus answers from the memories of that *)
(* corpus, unless another corpus has the same ids: sharing the cache,      *)
(* evicting from it and clearing an instance never show.                   *)
THEOREM OwnAnswers == CachesSpec => []OwnMemoriesAnswer
BY BothCaches, AnswersAlone, PTL

(* Every variable of the dense index keeps its type, for any dataset and   *)
(* any limits of cache and failures.                                       *)
THEOREM IndexTypeCorrect == CachesSpec => []DenseTypeOK
BY BothCaches, DenseTypes, PTL

(* _INDEX_CACHE_ORDER has every key of _INDEX_CACHE once, and the cache    *)
(* keeps to _INDEX_CACHE_MAX, however index() grows, hits and rebuilds.    *)
THEOREM EvictionOrder == CachesSpec => []OrderedCache
BY BothCaches, OrderAlone, PTL

(* A cached entry is, row by row, the matrix of the corpus its key is made *)
(* of, as long as no rows were appended to a leftover matrix.              *)
THEOREM EntriesExact == CachesSpec => []EntriesUnlessSpoilt
BY BothCaches, EntriesAlone, PTL

(* An index that is up to date answers from its own store: one row per     *)
(* stored memory, and masks that select the user's rows, unless the rows   *)
(* moved under them.                                                       *)
THEOREM OwnRowsAnswer == CachesSpec => []AnswersUnlessSpoilt
BY BothCaches, RowsAlone, PTL
===============================================================================
