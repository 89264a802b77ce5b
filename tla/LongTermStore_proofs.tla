------------------------ MODULE LongTermStore_proofs ------------------------
(***************************************************************************)
(* Proofs about LongTermStore, for any memories, users, contents, number   *)
(* of readers and number of changes.  The safety theorems follow from one  *)
(* inductive invariant, IInv.                                              *)
(***************************************************************************)
EXTENDS LongTermStore, TLAPS

(* Where a reader is inside "with self._index_lock". *)
Inside == {"index", "lower", "giveUp", "giveUp2", "giveUp3", "unlock"}

(* The reader inside the lock is the one that holds it. *)
LockHeld ==
  /\ \A r \in Readers : pc[r] \in Inside => lock = r
  /\ \A r \in Readers : lock = r => pc[r] \in Inside

(* The attempts are counted from the start of the read, and one is left    *)
(* whenever the index is built.                                            *)
AttemptsLeft ==
  \A r \in Readers :
    /\ pc[r] \in {"start", "flag", "lock"} => attempts[r] = 0
    /\ pc[r] = "index" => attempts[r] < MaxAttempts

(* The index is built only while it is out of date, and is that of the     *)
(* store when the flag is about to be lowered.                             *)
IndexWork ==
  \A r \in Readers :
    /\ pc[r] = "index" => dirty
    /\ pc[r] = "lower" => indexed = memories

(* Without fallback the strategy is never given up, a clean flag means a   *)
(* fresh index, and a reader past the lock has seen a clean flag.          *)
CleanMeansFresh ==
  ~ allowFallback =>
    /\ strategy /\ ~ disabled
    /\ ~ dirty => indexed = memories
    /\ \A r \in Readers :
         /\ pc[r] \notin {"giveUp", "giveUp2", "giveUp3"}
         /\ pc[r] \in {"unlock", "fetch", "retrieve"} => ~ dirty

(* What a finished read was answered with. *)
AnswersComplete ==
  ~ allowFallback =>
    \A r \in Readers :
      pc[r] = "done" /\ outcome[r] = "strategy" =>
        answer[r] = {i \in Stored : OwnerOf[i] = user[r]}

IInv ==
  /\ TypeOK
  /\ UserIndexExact
  /\ LockHeld
  /\ AttemptsLeft
  /\ IndexWork
  /\ CleanMeansFresh
  /\ AnswersComplete
  /\ NoSilentFallback

LEMMA InitIInv == Init => IInv
<1> SUFFICES ASSUME Init PROVE IInv
  OBVIOUS
<1> USE StoreAssumption DEF Init, Empty
<1>1. TypeOK
  <2>1. /\ memories \in [Ids -> Contents \cup {None}]
        /\ creationDay \in [Ids -> Days \cup {-1}]
        /\ userMemories \in [Users -> SUBSET Ids]
        /\ indexed \in [Ids -> Contents \cup {None}]
    OBVIOUS
  <2>2. /\ lock \in Readers \cup {None} /\ user \in [Readers -> Users]
        /\ attempts \in [Readers -> 0..MaxAttempts]
        /\ changes \in 0..MaxChanges
    BY DEF MaxAttempts
  <2>3. /\ answer \in [Readers -> SUBSET Ids]
        /\ outcome \in [Readers -> {None, "default", "strategy", "empty", "raised"}]
    OBVIOUS
  <2>4. QED
    BY <2>1, <2>2, <2>3 DEF TypeOK
<1>2. UserIndexExact
  BY DEF UserIndexExact, Stored
<1>3. LockHeld /\ AttemptsLeft /\ IndexWork
  BY DEF LockHeld, Inside, AttemptsLeft, IndexWork
<1>4. CleanMeansFresh /\ AnswersComplete /\ NoSilentFallback
  BY DEF CleanMeansFresh, AnswersComplete, NoSilentFallback
<1>5. QED
  BY <1>1, <1>2, <1>3, <1>4 DEF IInv

(* A change of the store finds every reader at rest, and keeps the lock,   *)
(* the strategy and the readers as they are.                               *)
LEMMA QuietChange ==
  ASSUME IInv, Quiet, ReadersUnchanged, UNCHANGED <<disabled, strategy, indexed>>,
         TypeOK', UserIndexExact', ~ dirty' => ~ dirty /\ memories' = memories
  PROVE  IInv'
<1> USE DEF IInv, Quiet, ReadersUnchanged
<1>1. LockHeld' /\ AttemptsLeft' /\ NoSilentFallback'
  BY DEF LockHeld, Inside, AttemptsLeft, NoSilentFallback
<1>2. IndexWork' /\ AnswersComplete'
  BY DEF IndexWork, AnswersComplete
<1>3. CleanMeansFresh'
  BY DEF CleanMeansFresh
<1>4. QED
  BY <1>1, <1>2, <1>3

LEMMA WriteStep ==
  ASSUME IInv, NEW i \in Ids, NEW content \in Contents, NEW day \in Days, Write(i, content, day)
  PROVE  IInv'
<1> USE StoreAssumption
<1>1. TypeOK'
  <2>1. OwnerOf[i] \in Users /\ userMemories[OwnerOf[i]] \in SUBSET Ids
    BY DEF IInv, TypeOK
  <2>2. /\ memories' \in [Ids -> Contents \cup {None}]
        /\ creationDay' \in [Ids -> Days \cup {-1}]
        /\ userMemories' \in [Users -> SUBSET Ids]
    BY <2>1 DEF IInv, TypeOK, Write
  <2>3. changes' \in 0..MaxChanges
    BY DEF IInv, TypeOK, Write, Change
  <2>4. QED
    BY <2>2, <2>3 DEF IInv, TypeOK, Write, ReadersUnchanged, DirtyAfterWrite
<1>2. UserIndexExact'
  <2>1. content # None
    OBVIOUS
  <2>2. \A j \in Ids : memories'[j] # None <=> memories[j] # None \/ j = i
    BY <2>1 DEF IInv, TypeOK, Write
  <2>3. Stored' = Stored \cup {i}
    BY <2>2 DEF Stored
  <2>4. \A u \in Users : userMemories'[u] = IF u = OwnerOf[i] THEN userMemories[u] \cup {i} ELSE userMemories[u]
    BY DEF IInv, TypeOK, Write
  <2>5. ASSUME NEW u \in Users
        PROVE  userMemories'[u] = {j \in Stored' : OwnerOf[j] = u}
    <3>1. userMemories[u] = {j \in Stored : OwnerOf[j] = u}
      BY DEF IInv, UserIndexExact
    <3>2. QED
      BY <2>3, <2>4, <3>1
  <2>6. QED
    BY <2>5 DEF UserIndexExact
<1>3. QED
  BY <1>1, <1>2, QuietChange DEF Write, Change, DirtyAfterWrite

LEMMA PruneStep ==
  ASSUME IInv, NEW ids \in SUBSET Ids, Prune(ids)
  PROVE  IInv'
<1> USE StoreAssumption
<1>1. TypeOK'
  BY DEF IInv, TypeOK, Prune, Change, ReadersUnchanged, UserIndexWithout
<1>2. Stored' = Stored \ ids
  BY DEF IInv, TypeOK, Prune, Stored
<1>3. UserIndexExact'
  <2>1. \A u \in Users : userMemories'[u] = userMemories[u] \ (ids \cap Stored)
    BY DEF Prune, UserIndexWithout
  <2>2. QED
    BY <1>2, <2>1 DEF IInv, UserIndexExact
<1>4. ASSUME ~ dirty' PROVE ~ dirty /\ memories' = memories
  <2>1. ~ dirty /\ ids \cap Stored = {}
    BY <1>4 DEF Prune
  <2>2. \A j \in Ids : (IF j \in ids THEN None ELSE memories[j]) = memories[j]
    BY <2>1 DEF Stored
  <2>3. memories \in [Ids -> Contents \cup {None}]
    BY DEF IInv, TypeOK
  <2>4. QED
    BY <2>1, <2>2, <2>3 DEF Prune
<1>5. QED
  BY <1>1, <1>3, <1>4, QuietChange DEF Prune, Change

LEMMA ClearStep ==
  ASSUME IInv, Clear
  PROVE  IInv'
<1> USE StoreAssumption
<1>1. TypeOK'
  BY DEF IInv, TypeOK, Clear, Change, ReadersUnchanged, Empty
<1>2. UserIndexExact'
  BY DEF UserIndexExact, Stored, Clear, Empty
<1>3. QED
  BY <1>1, <1>2, QuietChange DEF Clear, Change

(* A step of a reader leaves the memories alone. *)
LEMMA StoreKept ==
  ASSUME IInv, UNCHANGED store
  PROVE  UserIndexExact' /\ Stored' = Stored
BY DEF IInv, store, UserIndexExact, Stored

(* Steps of a reader outside the lock, or that take it. *)
LEMMA OutsideStep ==
  ASSUME IInv, NEW r \in Readers,
         \/ \E u \in Users : StartRead(r, u)
         \/ ScoreByDefault(r) \/ CheckDirty(r) \/ ReadFlag(r) \/ Acquire(r)
         \/ NoStrategyLeft(r) \/ CallStrategy(r) \/ RetrieveFault(r) \/ Finish(r)
  PROVE  IInv'
<1> USE StoreAssumption
    DEF StartRead, ScoreByDefault, CheckDirty, ReadFlag, Acquire, NoStrategyLeft, CallStrategy,
        RetrieveFault, Finish, Goto, Answer
<1>1. UNCHANGED <<store, index, allowFallback, changes>>
  OBVIOUS
<1>2. TypeOK'
  <2>1. \A u \in Users : Candidates(u) \in SUBSET Ids
    BY DEF Candidates, Stored, IInv, TypeOK
  <2>2. user[r] \in Users
    BY DEF IInv, TypeOK
  <2>3. QED
    BY <1>1, <2>1, <2>2 DEF IInv, TypeOK, store, index, MaxAttempts
<1>3. LockHeld'
  BY DEF IInv, TypeOK, LockHeld, Inside
<1>4. AttemptsLeft'
  BY DEF IInv, TypeOK, AttemptsLeft, MaxAttempts
<1>5. IndexWork'
  BY <1>1 DEF IInv, TypeOK, IndexWork, store, index, StillDirty
<1>6. CleanMeansFresh'
  BY <1>1 DEF IInv, TypeOK, CleanMeansFresh, store, index, StillDirty
<1>7. AnswersComplete'
  <2>1. UNCHANGED Stored
    BY <1>1, StoreKept
  <2>2. QED
    BY <2>1 DEF IInv, TypeOK, AnswersComplete
<1>8. NoSilentFallback'
  BY DEF IInv, TypeOK, NoSilentFallback, CleanMeansFresh, FallbackAllowed
<1>9. QED
  BY <1>1, <1>2, <1>3, <1>4, <1>5, <1>6, <1>7, <1>8, StoreKept DEF IInv

(* Steps of the reader inside the lock. *)
LEMMA InsideStep ==
  ASSUME IInv, NEW r \in Readers,
         \/ IndexBuilt(r) \/ LowerFlag(r) \/ GiveUpFlag(r) \/ GiveUpDisable(r)
         \/ GiveUpStrategy(r) \/ Unlock(r)
  PROVE  IInv'
<1> USE StoreAssumption
    DEF IndexBuilt, LowerFlag, GiveUpFlag, GiveUpDisable, GiveUpStrategy, Unlock, Goto
<1>1. UNCHANGED <<store, user, attempts, answer, outcome, allowFallback, changes>>
  BY DEF store, index
<1>2. TypeOK'
  BY <1>1 DEF IInv, TypeOK, store, index
<1>3. LockHeld' /\ \A s \in Readers : pc[s] \in Inside => s = r
  BY DEF IInv, TypeOK, LockHeld, Inside
<1>4. AttemptsLeft'
  BY <1>1 DEF IInv, TypeOK, AttemptsLeft
<1>5. IndexWork'
  BY <1>1, <1>3 DEF IInv, TypeOK, IndexWork, Inside, store, index
<1>6. CleanMeansFresh'
  BY <1>1, <1>3 DEF IInv, TypeOK, CleanMeansFresh, IndexWork, Inside, store, index
<1>7. AnswersComplete'
  <2>1. UNCHANGED Stored
    BY <1>1, StoreKept
  <2>2. QED
    BY <1>1, <2>1 DEF IInv, TypeOK, AnswersComplete
<1>8. NoSilentFallback'
  BY <1>1 DEF IInv, NoSilentFallback
<1>9. QED
  BY <1>1, <1>2, <1>3, <1>4, <1>5, <1>6, <1>7, <1>8, StoreKept DEF IInv

LEMMA FaultStep ==
  ASSUME IInv, NEW r \in Readers, NEW fault \in Faults, IndexFault(r, fault)
  PROVE  IInv'
<1> USE StoreAssumption DEF IndexFault, Goto, Answer, AttemptsCounted, ReleasedOnError
<1>1. UNCHANGED <<store, dirty, disabled, strategy, user, allowFallback, changes>>
  BY DEF store
<1>2. pc[r] = "index" /\ lock = r /\ dirty /\ attempts[r] \in 0..(MaxAttempts - 1)
  BY DEF IInv, TypeOK, LockHeld, Inside, IndexWork, AttemptsLeft, MaxAttempts
<1>3. TypeOK'
  <2>1. Empty \in [Ids -> Contents \cup {None}]
    BY DEF Empty
  <2>2. QED
    BY <1>1, <1>2, <2>1 DEF IInv, TypeOK, store, MaxAttempts
<1>4. LockHeld' /\ \A s \in Readers : pc[s] \in Inside => s = r
  BY <1>2 DEF IInv, TypeOK, LockHeld, Inside
<1>5. AttemptsLeft'
  BY <1>2 DEF IInv, TypeOK, AttemptsLeft, MaxAttempts, Retried
<1>6. IndexWork'
  BY <1>1, <1>2, <1>4 DEF IInv, TypeOK, IndexWork, Inside
<1>7. CleanMeansFresh'
  BY <1>1, <1>2, <1>4 DEF IInv, TypeOK, CleanMeansFresh, Inside
<1>8. AnswersComplete'
  <2>1. UNCHANGED Stored
    BY <1>1, StoreKept
  <2>2. QED
    BY <1>1, <2>1 DEF IInv, TypeOK, AnswersComplete
<1>9. NoSilentFallback'
  BY <1>1 DEF IInv, TypeOK, NoSilentFallback
<1>10. QED
  BY <1>1, <1>3, <1>4, <1>5, <1>6, <1>7, <1>8, <1>9, StoreKept DEF IInv

(* The strategy's answer: with a fresh index it is complete. *)
LEMMA RetrieveStep ==
  ASSUME IInv, NEW r \in Readers, Retrieve(r)
  PROVE  IInv'
<1> USE StoreAssumption DEF Retrieve, Goto, Answer
<1>1. UNCHANGED <<store, index, lock, user, attempts, allowFallback, changes>>
  BY DEF store, index
<1>2. user[r] \in Users /\ Retrieved(user[r]) \in SUBSET Ids
  BY DEF IInv, TypeOK, Retrieved
<1>3. TypeOK'
  BY <1>1, <1>2 DEF IInv, TypeOK, store, index
<1>4. LockHeld' /\ AttemptsLeft'
  BY <1>1 DEF IInv, TypeOK, LockHeld, Inside, AttemptsLeft
<1>5. IndexWork' /\ CleanMeansFresh'
  BY <1>1 DEF IInv, TypeOK, IndexWork, CleanMeansFresh, store, index
<1>6. AnswersComplete'
  <2>1. ASSUME ~ allowFallback
        PROVE  Retrieved(user[r]) = {i \in Stored : OwnerOf[i] = user[r]}
    <3>1. indexed = memories
      BY <2>1 DEF IInv, CleanMeansFresh
    <3>2. userMemories[user[r]] = {i \in Stored : OwnerOf[i] = user[r]}
      BY <1>2 DEF IInv, UserIndexExact
    <3>3. QED
      BY <3>1, <3>2 DEF Retrieved, Candidates, Stored
  <2>2. UNCHANGED Stored
    BY <1>1, StoreKept
  <2>3. answer' = [answer EXCEPT ![r] = Retrieved(user[r])] /\ pc' = [pc EXCEPT ![r] = "done"]
        /\ outcome' = [outcome EXCEPT ![r] = "strategy"]
    OBVIOUS
  <2>4. QED
    BY <1>1, <2>1, <2>2, <2>3 DEF IInv, TypeOK, AnswersComplete
<1>7. NoSilentFallback'
  BY <1>1 DEF IInv, TypeOK, NoSilentFallback
<1>8. QED
  BY <1>1, <1>3, <1>4, <1>5, <1>6, <1>7, StoreKept DEF IInv

LEMMA NextIInv == IInv /\ [Next]_vars => IInv'
<1> SUFFICES ASSUME IInv, [Next]_vars PROVE IInv'
  OBVIOUS
<1>1. ASSUME NEW i \in Ids, NEW content \in Contents, NEW day \in Days, Write(i, content, day)
      PROVE  IInv'
  BY <1>1, WriteStep
<1>2. ASSUME NEW ids \in SUBSET Ids, Prune(ids) PROVE IInv'
  BY <1>2, PruneStep
<1>3. CASE Clear
  BY <1>3, ClearStep
<1>4. ASSUME NEW r \in Readers, NEW u \in Users, StartRead(r, u) PROVE IInv'
  BY <1>4, OutsideStep
<1>5. ASSUME NEW r \in Readers, ReadStep(r) PROVE IInv'
  <2>1. ASSUME NEW fault \in Faults, IndexFault(r, fault) PROVE IInv'
    BY <2>1, FaultStep
  <2>2. QED
    BY <1>5, <2>1, OutsideStep, InsideStep, RetrieveStep DEF ReadStep
<1>6. CASE UNCHANGED vars
  BY <1>6 DEF vars, store, index, IInv, TypeOK, UserIndexExact, Stored, LockHeld, AttemptsLeft,
              IndexWork, CleanMeansFresh, AnswersComplete, NoSilentFallback
<1>7. QED
  BY <1>1, <1>2, <1>3, <1>4, <1>5, <1>6 DEF Next

THEOREM Invariance == Spec => []IInv
  BY InitIInv, NextIInv, PTL DEF Spec

(* Type correctness of the store and its readers. *)
THEOREM TypeCorrect == Spec => []TypeOK
<1>1. IInv => TypeOK
  BY DEF IInv
<1>2. QED
  BY <1>1, Invariance, PTL

(* Writing, pruning and clearing keep the user index exact. *)
THEOREM IndexExactness == Spec => []UserIndexExact
<1>1. IInv => UserIndexExact
  BY DEF IInv
<1>2. QED
  BY <1>1, Invariance, PTL

(* However many threads read, one of them at most builds the index.        *)
THEOREM SingleIndexer == Spec => []OneIndexer
<1>1. ASSUME IInv PROVE OneIndexer
  BY <1>1 DEF IInv, LockHeld, Inside, IndexWork, OneIndexer
<1>2. QED
  BY <1>1, Invariance, PTL

(* Without fallback, no answer of the strategy is stale or incomplete.     *)
THEOREM Freshness == Spec => []FreshIndex
<1>1. ASSUME IInv PROVE FreshIndex
  BY <1>1 DEF IInv, CleanMeansFresh, AnswersComplete, FreshIndex
<1>2. QED
  BY <1>1, Invariance, PTL

(* Without fallback, no read is answered in another way than asked for.    *)
THEOREM StrictReads == Spec => []NoSilentFallback
<1>1. IInv => NoSilentFallback
  BY DEF IInv
<1>2. QED
  BY <1>1, Invariance, PTL
=============================================================================
