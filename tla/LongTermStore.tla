--------------------------- MODULE LongTermStore ---------------------------
(***************************************************************************)
(* benchmark/memory/long_term/base_store.py: BaseLongTermStore.  The       *)
(* memories of a store, the per-user index, and the retrieval strategy     *)
(* whose own index is rebuilt by the first read after a change.            *)
(*                                                                         *)
(* The reads of a day run concurrently in the threads of an executor       *)
(* (scenario_runner.py); writes, pruning and clearing come from the thread *)
(* that waits for them, so they find no read in progress.  An id belongs   *)
(* to one user.  Scores, decay and the cut at top_k are left out: an       *)
(* answer is the set of memories that can be returned.                     *)
(***************************************************************************)
EXTENDS Integers, FiniteSets

CONSTANTS
  Ids,             \* memory ids
  Users,           \* user ids
  OwnerOf,         \* the user an id belongs to
  Contents,        \* what a memory can say: writing an id again may change it
  Days,            \* days a memory may be injected on
  Readers,         \* threads of the executor
  MaxChanges       \* bound on the changes made to the store

None == "none"
MaxAttempts == 3
Faults == {"transient", "hard", "other"}

ASSUME StoreAssumption ==
  /\ OwnerOf \in [Ids -> Users]
  /\ None \notin Contents /\ None \notin Readers
  /\ Days \subseteq Nat /\ 0 \in Days
  /\ MaxChanges \in Nat

VARIABLES
  allowFallback,  \* allow_strategy_fallback, given to the constructor
  memories,       \* id -> content, None when not stored
  creationDay,    \* id -> day of injection, -1 when not stored
  userMemories,   \* user -> ids, the index reads are scoped by
  dirty,          \* _index_dirty
  disabled,       \* _strategy_permanently_disabled
  strategy,       \* _retrieval_strategy is set
  indexed,        \* what the strategy was last given to index: id -> content
  lock,           \* holder of _index_lock
  pc, user,       \* per reader: where it is, and for whom it reads
  attempts,       \* failed index attempts of the reader
  answer,         \* ids it returned
  outcome,        \* how it answered
  changes         \* changes made so far

store == <<memories, creationDay, userMemories>>
index == <<dirty, disabled, strategy, indexed>>
vars == <<allowFallback, store, index, lock, pc, user, attempts, answer, outcome, changes>>

Stored == {i \in Ids : memories[i] # None}
Empty == [i \in Ids |-> None]

(* Every reader is at rest: the runner's thread is the only one.           *)
Quiet == \A r \in Readers : pc[r] = "idle"

(***************************************************************************)
(* Helpers, with the mutants the checks replace them by.                   *)
(***************************************************************************)

(* Ids the user index keeps when some are removed.  Mutant: all of them.   *)
UserIndexKept(u, gone) == userMemories[u]
UserIndexWithout(u, gone) == userMemories[u] \ gone

(* A write of event marks the index.  Mutant: only that of a new id.       *)
DirtyIfNew(i) == dirty \/ i \notin Stored
DirtyAfterWrite(i) == TRUE

(* The flag is read again inside the lock.  Mutant: it is not.             *)
NotRechecked == TRUE
StillDirty == dirty

(* The counter of the index attempts, and whether another one is made.     *)
AttemptsCounted(r) == attempts[r] + 1
Retried(r, fault) == fault = "transient" /\ AttemptsCounted(r) < MaxAttempts

(* The lock once an exception has left the with statement.  Mutant: only   *)
(* a normal exit releases it.                                              *)
HeldOnError == lock
ReleasedOnError == None

(* The read may go on without the strategy.  Mutant: after a retrieval     *)
(* fault it always may.                                                    *)
FallbackAlways == TRUE
FallbackAllowed == allowFallback

(* _filter_candidates: the stored ids of the requesting user. *)
Candidates(u) == {i \in userMemories[u] : i \in Stored}

(* strategy.retrieve(top_k=len(candidates), user_id): what the strategy    *)
(* knows of the user, of which only the candidates count.                  *)
Retrieved(u) == {i \in Ids : indexed[i] # None /\ OwnerOf[i] = u} \cap Candidates(u)

Init ==
  /\ allowFallback \in BOOLEAN
  /\ memories = Empty
  /\ creationDay = [i \in Ids |-> -1]
  /\ userMemories = [u \in Users |-> {}]
  /\ dirty = TRUE /\ disabled = FALSE /\ strategy = TRUE
  /\ indexed = Empty
  /\ lock = None
  /\ pc = [r \in Readers |-> "idle"]
  /\ user \in [Readers -> Users]
  /\ attempts = [r \in Readers |-> 0]
  /\ answer = [r \in Readers |-> {}]
  /\ outcome = [r \in Readers |-> None]
  /\ changes = 0

(***************************************************************************)
(* The runner's thread.                                                    *)
(***************************************************************************)
Change == Quiet /\ changes < MaxChanges /\ changes' = changes + 1
ReadersUnchanged == UNCHANGED <<allowFallback, lock, pc, user, attempts, answer, outcome>>

(* write_on_day(event, day); write(event) is the same on day 0. *)
Write(i, content, day) ==
  /\ Change
  /\ memories' = [memories EXCEPT ![i] = content]
  /\ creationDay' = [creationDay EXCEPT ![i] = day]
  /\ userMemories' = [userMemories EXCEPT ![OwnerOf[i]] = @ \cup {i}]
  /\ dirty' = DirtyAfterWrite(i)
  /\ UNCHANGED <<disabled, strategy, indexed>>
  /\ ReadersUnchanged

(* prune(memory_ids), and remove(memory_id) for a single one. *)
Prune(ids) ==
  /\ Change
  /\ memories' = [i \in Ids |-> IF i \in ids THEN None ELSE memories[i]]
  /\ creationDay' = [i \in Ids |-> IF i \in ids THEN -1 ELSE creationDay[i]]
  /\ userMemories' = [u \in Users |-> UserIndexWithout(u, ids \cap Stored)]
  /\ dirty' = (dirty \/ ids \cap Stored # {})
  /\ UNCHANGED <<disabled, strategy, indexed>>
  /\ ReadersUnchanged

(* clear(): between two scenarios. *)
Clear ==
  /\ Change
  /\ memories' = Empty
  /\ creationDay' = [i \in Ids |-> -1]
  /\ userMemories' = [u \in Users |-> {}]
  /\ dirty' = TRUE
  /\ UNCHANGED <<disabled, strategy, indexed>>
  /\ ReadersUnchanged

(***************************************************************************)
(* read(), in a thread of the executor.                                    *)
(***************************************************************************)
Goto(r, at) == pc' = [pc EXCEPT ![r] = at]

(* The read is over with these ids. *)
Answer(r, how, ids) ==
  /\ Goto(r, "done")
  /\ answer' = [answer EXCEPT ![r] = ids]
  /\ outcome' = [outcome EXCEPT ![r] = how]

StartRead(r, u) ==
  /\ pc[r] = "idle"
  /\ Goto(r, "start")
  /\ user' = [user EXCEPT ![r] = u]
  /\ attempts' = [attempts EXCEPT ![r] = 0]
  /\ outcome' = [outcome EXCEPT ![r] = None]
  /\ answer' = [answer EXCEPT ![r] = {}]
  /\ UNCHANGED <<allowFallback, store, index, lock, changes>>

(* No strategy, or disabled for the cell: the module's own scoring. *)
ScoreByDefault(r) ==
  /\ pc[r] = "start" /\ (~ strategy \/ disabled)
  /\ Answer(r, "default", Candidates(user[r]))
  /\ UNCHANGED <<allowFallback, store, index, lock, user, attempts, changes>>

(* The first look at the flag, outside the lock. *)
CheckDirty(r) ==
  /\ pc[r] = "start" /\ strategy /\ ~ disabled
  /\ Goto(r, "flag")
  /\ UNCHANGED <<allowFallback, store, index, lock, user, attempts, answer, outcome, changes>>

ReadFlag(r) ==
  /\ pc[r] = "flag"
  /\ Goto(r, IF dirty THEN "lock" ELSE "fetch")
  /\ UNCHANGED <<allowFallback, store, index, lock, user, attempts, answer, outcome, changes>>

Acquire(r) ==
  /\ pc[r] = "lock" /\ lock = None
  /\ lock' = r
  /\ Goto(r, IF StillDirty THEN "index" ELSE "unlock")
  /\ UNCHANGED <<allowFallback, store, index, user, attempts, answer, outcome, changes>>

(* strategy.index(all memories), then the flag is lowered.  What the       *)
(* strategies do with it is theirs (Bm25Cache, EmbeddingIndex): they look  *)
(* at the ids alone to see whether anything is new, so a memory written    *)
(* again under its id is given to them and may keep its old text there.    *)
IndexBuilt(r) ==
  /\ pc[r] = "index"
  /\ indexed' = memories
  /\ Goto(r, "lower")
  /\ UNCHANGED <<allowFallback, store, dirty, disabled, strategy, lock, user, attempts, answer, outcome, changes>>

LowerFlag(r) ==
  /\ pc[r] = "lower"
  /\ dirty' = FALSE
  /\ Goto(r, "unlock")
  /\ UNCHANGED <<allowFallback, store, disabled, strategy, indexed, lock, user, attempts, answer, outcome, changes>>

(* index() raised: the strategy has lost its index, or still has the one   *)
(* of before.  A hard error, or the last attempt without fallback, leaves  *)
(* read() with the lock released; otherwise the strategy is given up, in   *)
(* three assignments.                                                      *)
IndexFault(r, fault) ==
  /\ pc[r] = "index"
  /\ indexed' \in {Empty, indexed}
  /\ attempts' = [attempts EXCEPT ![r] = AttemptsCounted(r)]
  /\ \/ /\ Retried(r, fault)
        /\ UNCHANGED <<pc, lock, answer, outcome>>
     \/ /\ ~ Retried(r, fault)
        /\ fault = "hard" \/ ~ allowFallback
        /\ Answer(r, "raised", {})
        /\ lock' = ReleasedOnError
     \/ /\ ~ Retried(r, fault)
        /\ fault # "hard" /\ allowFallback
        /\ Goto(r, "giveUp")
        /\ UNCHANGED <<lock, answer, outcome>>
  /\ UNCHANGED <<allowFallback, store, dirty, disabled, strategy, user, changes>>

GiveUpFlag(r) ==
  /\ pc[r] = "giveUp"
  /\ dirty' = FALSE
  /\ Goto(r, "giveUp2")
  /\ UNCHANGED <<allowFallback, store, disabled, strategy, indexed, lock, user, attempts, answer, outcome, changes>>

GiveUpDisable(r) ==
  /\ pc[r] = "giveUp2"
  /\ disabled' = TRUE
  /\ Goto(r, "giveUp3")
  /\ UNCHANGED <<allowFallback, store, dirty, strategy, indexed, lock, user, attempts, answer, outcome, changes>>

GiveUpStrategy(r) ==
  /\ pc[r] = "giveUp3"
  /\ strategy' = FALSE
  /\ Goto(r, "unlock")
  /\ UNCHANGED <<allowFallback, store, dirty, disabled, indexed, lock, user, attempts, answer, outcome, changes>>

Unlock(r) ==
  /\ pc[r] = "unlock"
  /\ lock' = None
  /\ Goto(r, "fetch")
  /\ UNCHANGED <<allowFallback, store, index, user, attempts, answer, outcome, changes>>

(* if self._retrieval_strategy ... else: strategy_results = [] *)
NoStrategyLeft(r) ==
  /\ pc[r] = "fetch" /\ ~ strategy
  /\ Answer(r, "empty", {})
  /\ UNCHANGED <<allowFallback, store, index, lock, user, attempts, changes>>

CallStrategy(r) ==
  /\ pc[r] = "fetch" /\ strategy
  /\ Goto(r, "retrieve")
  /\ UNCHANGED <<allowFallback, store, index, lock, user, attempts, answer, outcome, changes>>

(* The attribute is read again for the call. *)
Retrieve(r) ==
  /\ pc[r] = "retrieve" /\ strategy
  /\ Answer(r, "strategy", Retrieved(user[r]))
  /\ UNCHANGED <<allowFallback, store, index, lock, user, attempts, changes>>

(* retrieve() raised, or the strategy is gone by now. *)
RetrieveFault(r) ==
  /\ pc[r] = "retrieve"
  /\ IF FallbackAllowed THEN Answer(r, "empty", {}) ELSE Answer(r, "raised", {})
  /\ UNCHANGED <<allowFallback, store, index, lock, user, attempts, changes>>

(* The runner has the answer; the thread is free again. *)
Finish(r) ==
  /\ pc[r] = "done"
  /\ Goto(r, "idle")
  /\ UNCHANGED <<allowFallback, store, index, lock, user, attempts, answer, outcome, changes>>

ReadStep(r) ==
  \/ ScoreByDefault(r) \/ CheckDirty(r) \/ ReadFlag(r) \/ Acquire(r)
  \/ IndexBuilt(r) \/ LowerFlag(r)
  \/ \E fault \in Faults : IndexFault(r, fault)
  \/ GiveUpFlag(r) \/ GiveUpDisable(r) \/ GiveUpStrategy(r)
  \/ Unlock(r) \/ NoStrategyLeft(r) \/ CallStrategy(r)
  \/ Retrieve(r) \/ RetrieveFault(r)
  \/ Finish(r)

Next ==
  \/ \E i \in Ids, content \in Contents, day \in Days : Write(i, content, day)
  \/ \E ids \in SUBSET Ids : Prune(ids)
  \/ Clear
  \/ \E r \in Readers, u \in Users : StartRead(r, u)
  \/ \E r \in Readers : ReadStep(r)

Spec == Init /\ [][Next]_vars

(* A thread in read() keeps running; for the lock, a thread that asks for  *)
(* it again and again while it is free some time gets it.                  *)
FairSpec ==
  /\ Spec
  /\ \A r \in Readers : WF_vars(ReadStep(r)) /\ SF_vars(Acquire(r))

(***************************************************************************)
(* Properties.                                                             *)
(***************************************************************************)

(* Every variable keeps its type. *)
TypeOK ==
  /\ allowFallback \in BOOLEAN
  /\ memories \in [Ids -> Contents \cup {None}]
  /\ creationDay \in [Ids -> Days \cup {-1}]
  /\ userMemories \in [Users -> SUBSET Ids]
  /\ dirty \in BOOLEAN /\ disabled \in BOOLEAN /\ strategy \in BOOLEAN
  /\ indexed \in [Ids -> Contents \cup {None}]
  /\ lock \in Readers \cup {None}
  /\ pc \in [Readers -> {"idle", "start", "flag", "lock", "index", "lower", "giveUp",
                         "giveUp2", "giveUp3", "unlock", "fetch", "retrieve", "done"}]
  /\ user \in [Readers -> Users]
  /\ attempts \in [Readers -> 0..MaxAttempts]
  /\ answer \in [Readers -> SUBSET Ids]
  /\ outcome \in [Readers -> {None, "default", "strategy", "empty", "raised"}]
  /\ changes \in 0..MaxChanges

(* The user index names exactly the stored memories of each user: no ghost *)
(* ids after pruning or clearing, nothing missing after a write.           *)
UserIndexExact ==
  \A u \in Users : userMemories[u] = {i \in Stored : OwnerOf[i] = u}

(* At most one thread builds the index, and only when it is out of date:   *)
(* threads that waited for the lock find the work done.                    *)
OneIndexer ==
  \A r \in Readers : pc[r] = "index" =>
    dirty /\ lock = r /\ \A s \in Readers \ {r} : pc[s] \notin {"index", "lower"}

(* Without fallback, a strategy that is asked was last given the memories  *)
(* as they are now, so its answer misses no memory of the user.            *)
FreshIndex ==
  ~ allowFallback =>
    \A r \in Readers :
      /\ pc[r] = "retrieve" => indexed = memories
      /\ pc[r] = "done" /\ outcome[r] = "strategy" =>
           answer[r] = {i \in Stored : OwnerOf[i] = user[r]}

(* Without fallback, a read is answered by the strategy or raises; it is   *)
(* never answered silently in another way.                                 *)
NoSilentFallback ==
  ~ allowFallback => \A r \in Readers : outcome[r] \in {None, "strategy", "raised"}

(* A read ends, whatever fails and however often. *)
ReadEnds == \A r \in Readers : pc[r] = "start" ~> pc[r] = "done"
=============================================================================
