---------------------------- MODULE CacheProofs ----------------------------
(***************************************************************************)
(* Proofs about Cache.tla, for every number of goroutines, keys, answers,  *)
(* every TTL and every clock bound.                                        *)
(*                                                                         *)
(* The inductive invariant IInv says who holds the lock at each control    *)
(* point, and what a Get that gave up its read lock still knows: that the  *)
(* entry it saw has expired, now and for ever.                             *)
(***************************************************************************)
EXTENDS Cache, TLAPS

\* The lock variables and the control points tell the same story.
LockInv ==
    /\ readers = {c \in Callers : pc[c] \in Reading}
    /\ \A c \in Callers : writer = c <=> pc[c] \in Writing
    /\ \A c \in Callers : pending = c => pc[c] \in WantsLock
    /\ writer # None => readers = {} /\ pending = None

\* The calls that carry a key, and those that carry an answer to store.
HasKey == {"get_rlock", "get_read", "get_upgrade", "get_lock", "get_delete",
           "get_unlock", "get_relock", "get_return",
           "set_lock", "set_store", "set_unlock"}
HasVal == {"set_lock", "set_store", "set_unlock"}

\* The control points at which Get remembers an expired entry.
SawExpired == {"get_upgrade", "get_lock", "get_delete", "get_unlock"}

CallInv ==
    \A c \in Callers :
        /\ pc[c] \in HasKey => key[c] \in Keys
        /\ pc[c] \in HasVal => val[c] \in Values
        /\ pc[c] \in SawExpired => entry[c] # None /\ Expired(entry[c])
        /\ pc[c] \notin SawExpired \cup {"get_return"} => entry[c] = None
        /\ since[c] <= now

\* No entry outlives a Set made now.
LifeInv == \A k \in Keys : entries[k] # None => entries[k].expiresAt <= now + TTL

IInv == TypeOK /\ LockInv /\ CallInv /\ LifeInv /\ HitWithinTTL

-----------------------------------------------------------------------------
\* The new cache: the lock is free and there are no entries.
LEMMA InitIInv == Init => IInv
  BY CacheAssumption
  DEF Init, IInv, TypeOK, LockInv, CallInv, LifeInv, HitWithinTTL, Entry,
      Labels, Reading, Writing, WantsLock, WantsRLock,
      HasKey, HasVal, SawExpired

\* The invariant is preserved by the steps of the lock.
LEMMA LockSteps ==
  ASSUME IInv, NEW c \in Callers,
         RLock(c) \/ LockAnnounce(c) \/ LockAcquire(c)
  PROVE  IInv'
  <1> USE CacheAssumption
          DEF IInv, TypeOK, LockInv, CallInv, LifeInv, HitWithinTTL, Entry, Expired,
              Labels, Reading, Writing, WantsLock, WantsRLock,
              HasKey, HasVal, SawExpired, Goto, args
  <1>1. CASE RLock(c)
    BY <1>1 DEF RLock
  <1>2. CASE LockAnnounce(c)
    BY <1>2 DEF LockAnnounce
  <1>3. CASE LockAcquire(c)
    BY <1>3 DEF LockAcquire
  <1>4. QED  BY <1>1, <1>2, <1>3

\* ... by the steps of Get ...
LEMMA GetSteps ==
  ASSUME IInv, NEW c \in Callers,
         GetLookup(c) \/ GetUpgrade(c) \/ GetDelete(c) \/ GetUnlock(c) \/ GetReturn(c)
  PROVE  IInv'
  <1> USE CacheAssumption
          DEF IInv, TypeOK, LockInv, CallInv, LifeInv, HitWithinTTL, Entry, Expired,
              Labels, Reading, Writing, WantsLock, WantsRLock,
              HasKey, HasVal, SawExpired, Goto, args, lock, ForgetCall
  <1>1. CASE GetLookup(c)
    BY <1>1 DEF GetLookup
  <1>2. CASE GetUpgrade(c)
    BY <1>2 DEF GetUpgrade
  <1>3. CASE GetDelete(c)
    BY <1>3 DEF GetDelete
  <1>4. CASE GetUnlock(c)
    BY <1>4 DEF GetUnlock
  <1>5. CASE GetReturn(c)
    BY <1>5 DEF GetReturn
  <1>6. QED  BY <1>1, <1>2, <1>3, <1>4, <1>5

\* ... by the steps of Set and Cleanup ...
LEMMA WriterSteps ==
  ASSUME IInv, NEW c \in Callers,
         SetStore(c) \/ CleanupSweep(c) \/ WriterReturn(c)
  PROVE  IInv'
  <1> USE CacheAssumption
          DEF IInv, TypeOK, LockInv, CallInv, LifeInv, HitWithinTTL, Entry, Expired,
              Labels, Reading, Writing, WantsLock, WantsRLock,
              HasKey, HasVal, SawExpired, Goto, args, lock, ForgetCall
  <1>1. CASE SetStore(c)
    BY <1>1 DEF SetStore
  <1>2. CASE CleanupSweep(c)
    BY <1>2 DEF CleanupSweep
  <1>3. CASE WriterReturn(c)
    BY <1>3 DEF WriterReturn
  <1>4. QED  BY <1>1, <1>2, <1>3

\* ... and by the beginning of a call and the passing of time.
LEMMA CallSteps ==
  ASSUME IInv, NEW c \in Callers,
         \/ \E k \in Keys : CallGet(c, k)
         \/ \E k \in Keys, v \in Values : CallSet(c, k, v)
         \/ CallCleanup(c)
  PROVE  IInv'
  <1> USE CacheAssumption
          DEF IInv, TypeOK, LockInv, CallInv, LifeInv, HitWithinTTL, Entry, Expired,
              Labels, Reading, Writing, WantsLock, WantsRLock,
              HasKey, HasVal, SawExpired, Goto, lock, Call
  <1>1. ASSUME NEW k \in Keys, CallGet(c, k)
        PROVE  IInv'
    BY <1>1 DEF CallGet
  <1>2. ASSUME NEW k \in Keys, NEW v \in Values, CallSet(c, k, v)
        PROVE  IInv'
    BY <1>2 DEF CallSet
  <1>3. CASE CallCleanup(c)
    BY <1>3 DEF CallCleanup
  <1>4. QED  BY <1>1, <1>2, <1>3

\* What has expired stays expired as time goes by.
LEMMA TickStep ==
  ASSUME IInv, Tick
  PROVE  IInv'
  BY CacheAssumption
  DEF IInv, TypeOK, LockInv, CallInv, LifeInv, HitWithinTTL, Entry, Expired,
      Tick, lock, args

\* Every step keeps the invariant.
LEMMA NextIInv == IInv /\ [Next]_vars => IInv'
  <1> SUFFICES ASSUME IInv, [Next]_vars
               PROVE  IInv'
    OBVIOUS
  <1>1. CASE Tick
    BY <1>1, TickStep
  <1>2. ASSUME NEW c \in Callers,
               \/ \E k \in Keys : CallGet(c, k)
               \/ \E k \in Keys, v \in Values : CallSet(c, k, v)
               \/ CallCleanup(c)
        PROVE  IInv'
    BY <1>2, CallSteps
  <1>3. ASSUME NEW c \in Callers, RLock(c) \/ LockAnnounce(c) \/ LockAcquire(c)
        PROVE  IInv'
    BY <1>3, LockSteps
  <1>4. ASSUME NEW c \in Callers, Step(c)
        PROVE  IInv'
    BY <1>4, GetSteps, WriterSteps DEF Step
  <1>5. CASE UNCHANGED vars
    BY <1>5 DEF vars, IInv, TypeOK, LockInv, CallInv, LifeInv, HitWithinTTL, Expired
  <1>6. QED  BY <1>1, <1>2, <1>3, <1>4, <1>5 DEF Next

\* The invariant holds in every reachable state.
LEMMA Invariance == Spec => []IInv
  BY InitIInv, NextIInv, PTL DEF Spec

-----------------------------------------------------------------------------
(* The theorems.                                                           *)

\* Type correctness of the cache.
THEOREM TypeCorrect == Spec => []TypeOK
  <1>1. IInv => TypeOK
    BY DEF IInv
  <1>2. QED  BY <1>1, Invariance, PTL

\* No goroutine touches the map while another one changes it: the write
\* lock of the one and the read or write lock of the other exclude each other.
THEOREM Exclusion == Spec => []MapAccessExclusive
  <1>1. IInv => MapAccessExclusive
    BY CacheAssumption DEF IInv, LockInv, MapAccessExclusive, Reading, Writing
  <1>2. QED  BY <1>1, Invariance, PTL

\* Somebody can always go on.  Who holds the lock waits for nothing; if nobody
\* does, a writer that has announced itself gets it, or whoever wants it first.
THEOREM DeadlockFree == Spec => []NoDeadlock
  <1>1. ASSUME IInv, NEW c \in Callers, pc[c] # "idle"
        PROVE  \E d \in Callers : CanRun(d)
    <2> USE <1>1 DEF IInv, TypeOK, LockInv, CanRun
    <2>1. CASE writer # None
      <3>1. writer \in Callers /\ pc[writer] \in Writing
        BY <2>1
      <3>2. QED  BY <3>1
    <2>2. CASE writer = None /\ readers # {}
      <3>1. PICK d \in Callers : pc[d] \in Reading
        BY <2>2
      <3>2. QED  BY <3>1
    <2>3. CASE writer = None /\ readers = {} /\ pending # None
      BY <2>3
    <2>4. CASE writer = None /\ pending = None
      <3>1. pc[c] \in Reading \cup Writing \cup WantsRLock \cup WantsLock
        BY <1>1 DEF Labels
      <3>2. QED  BY <2>4, <3>1
    <2>5. QED  BY <2>1, <2>2, <2>3, <2>4
  <1>2. IInv => NoDeadlock
    BY <1>1 DEF NoDeadlock
  <1>3. QED  BY <1>2, Invariance, PTL

\* A hit was stored at most TTL before the Get began.
THEOREM Freshness == Spec => []HitWithinTTL
  <1>1. IInv => HitWithinTTL
    BY DEF IInv
  <1>2. QED  BY <1>1, Invariance, PTL

\* Replacing an entry never shortens its life: a Set stores now + TTL, and no
\* entry in the map is beyond that (LifeInv).
THEOREM NoShorterLife == Spec => ExpiryMonotone
  <1>1. ASSUME IInv, [Next]_vars, NEW k \in Keys,
               entries[k] # None, entries'[k] # None
        PROVE  entries'[k].expiresAt >= entries[k].expiresAt
    <2> USE <1>1, CacheAssumption DEF IInv, TypeOK, LifeInv, CallInv, HasKey, HasVal
    <2>0. entries[k].expiresAt \in Nat
      BY DEF Entry
    <2>1. CASE UNCHANGED entries
      BY <2>0, <2>1
    <2>2. ASSUME NEW c \in Callers, SetStore(c)
          PROVE  entries'[k].expiresAt >= entries[k].expiresAt
      BY <2>0, <2>2 DEF SetStore, Goto
    <2>3. ASSUME NEW c \in Callers, GetDelete(c) \/ CleanupSweep(c)
          PROVE  entries'[k] = entries[k]
      BY <2>3 DEF GetDelete, CleanupSweep, Goto
    <2>4. QED
      BY <2>0, <2>1, <2>2, <2>3
      DEF Next, vars, Tick, CallGet, CallSet, CallCleanup, Call, RLock, LockAnnounce,
          LockAcquire, Step, GetLookup, GetUpgrade, GetUnlock, GetReturn, WriterReturn
  <1>2. IInv /\ [Next]_vars
          => [\A k \in Keys : (entries[k] # None /\ entries'[k] # None)
                => entries'[k].expiresAt >= entries[k].expiresAt]_vars
    BY <1>1
  <1>3. QED  BY <1>2, Invariance, PTL DEF Spec, ExpiryMonotone

\* A fresh entry disappears only under a Get that, before the entry was
\* stored, saw its expired predecessor and gave up the read lock.
THEOREM StaleGetRace == Spec => FreshLostOnlyToStaleGet
  <1>1. ASSUME IInv, [Next]_vars, NEW k \in Keys,
               entries[k] # None, ~Expired(entries[k]), entries'[k] = None
        PROVE  \E c \in Callers :
                  /\ pc[c] = "get_delete"
                  /\ key[c] = k
                  /\ entry[c].expiresAt < entries[k].expiresAt
    <2> USE <1>1, CacheAssumption DEF IInv, TypeOK, CallInv, HasKey, HasVal, SawExpired
    <2>1. CASE UNCHANGED entries
      BY <2>1
    <2>2. ASSUME NEW c \in Callers, SetStore(c)
          PROVE  FALSE
      <3>1. [value |-> val[c], expiresAt |-> now + TTL] \in Entry
        BY <2>2 DEF SetStore, Goto, Entry
      <3>2. entries'[k] = entries[k] \/ entries'[k] \in Entry
        BY <2>2, <3>1 DEF SetStore, Goto
      <3>3. QED  BY <3>2
    <2>3. ASSUME NEW c \in Callers, CleanupSweep(c)
          PROVE  FALSE
      BY <2>3 DEF CleanupSweep
    <2>4. ASSUME NEW c \in Callers, GetDelete(c)
          PROVE  /\ pc[c] = "get_delete"
                 /\ key[c] = k
                 /\ entry[c].expiresAt < entries[k].expiresAt
      BY <2>4 DEF GetDelete, Goto, Expired, Entry
    <2>5. QED
      BY <2>1, <2>2, <2>3, <2>4
      DEF Next, vars, Tick, CallGet, CallSet, CallCleanup, Call, RLock, LockAnnounce,
          LockAcquire, Step, GetLookup, GetUpgrade, GetUnlock, GetReturn, WriterReturn
  <1>2. IInv /\ [Next]_vars
          => [\A k \in Keys :
                (entries[k] # None /\ ~Expired(entries[k]) /\ entries'[k] = None)
                  => \E c \in Callers :
                        /\ pc[c] = "get_delete"
                        /\ key[c] = k
                        /\ entry[c].expiresAt < entries[k].expiresAt]_vars
    BY <1>1
  <1>3. QED  BY <1>2, Invariance, PTL DEF Spec, FreshLostOnlyToStaleGet

-----------------------------------------------------------------------------
(* Refinement: Cache.tla implements AtomicCache.tla.                       *)

\* The new cache is the new atomic one.
LEMMA InitRefines == Init => Atomic!Init
  BY DEF Init, Atomic!Init, StageBar, AnswerBar, StageOf, Labels

\* A step that changes neither the map, the clock, the arguments nor what the
\* mapping reads of pc and entry is a stutter.
LEMMA LockStepsRefine ==
  ASSUME IInv, NEW c \in Callers,
         RLock(c) \/ LockAnnounce(c) \/ LockAcquire(c) \/ GetUpgrade(c) \/ GetUnlock(c)
  PROVE  UNCHANGED Atomic!vars
  <1> USE DEF IInv, TypeOK, CallInv, SawExpired, Goto, args, lock,
              StageBar, AnswerBar, StageOf, Atomic!vars
  <1>1. CASE RLock(c)
    BY <1>1 DEF RLock
  <1>2. CASE LockAnnounce(c)
    BY <1>2 DEF LockAnnounce
  <1>3. CASE LockAcquire(c)
    BY <1>3 DEF LockAcquire
  <1>4. CASE GetUpgrade(c)
    BY <1>4 DEF GetUpgrade
  <1>5. CASE GetUnlock(c)
    BY <1>5 DEF GetUnlock
  <1>6. QED  BY <1>1, <1>2, <1>3, <1>4, <1>5

\* The read of Get is the instant at which it answers, or learns that its
\* entry has expired.
LEMMA LookupRefines ==
  ASSUME IInv, NEW c \in Callers, GetLookup(c)
  PROVE  Atomic!GetAnswers(c) \/ Atomic!GetExpired(c)
  <1> USE CacheAssumption
          DEF IInv, TypeOK, CallInv, HasKey, SawExpired, GetLookup, args, lock,
              StageBar, AnswerBar, StageOf, Expired, Atomic!Expired
  <1> DEFINE e == entries[key[c]]
  <1>1. e \in Entry \cup {None} /\ entry[c] = None
    OBVIOUS
  <1>2. CASE e # None /\ Expired(e)
    BY <1>2 DEF Atomic!GetExpired
  <1>3. CASE e = None \/ ~Expired(e)
    <2>1. StageBar' = [StageBar EXCEPT ![c] = "done"]
      BY <1>3
    <2>2. AnswerBar' = [AnswerBar EXCEPT ![c] = IF e = None THEN None ELSE e.value]
      BY <1>1, <1>3
    <2>3. QED  BY <1>3, <2>1, <2>2 DEF Atomic!GetAnswers
  <1>4. QED  BY <1>2, <1>3

\* The steps that change the map are the instants at which a call takes effect.
LEMMA MapStepsRefine ==
  ASSUME IInv, NEW c \in Callers, GetDelete(c) \/ SetStore(c) \/ CleanupSweep(c)
  PROVE  Atomic!Evict(c) \/ Atomic!Put(c) \/ Atomic!Sweep(c)
  <1> USE CacheAssumption
          DEF IInv, TypeOK, CallInv, HasKey, HasVal, Goto, args, lock,
              StageBar, AnswerBar, StageOf, Expired, Atomic!Expired
  <1>1. CASE GetDelete(c)
    BY <1>1 DEF GetDelete, Atomic!Evict
  <1>2. CASE SetStore(c)
    BY <1>2 DEF SetStore, Atomic!Put
  <1>3. CASE CleanupSweep(c)
    BY <1>3 DEF CleanupSweep, Atomic!Sweep
  <1>4. QED  BY <1>1, <1>2, <1>3

\* The lock that is given up last is the return of the call.
LEMMA ReturnsRefine ==
  ASSUME IInv, NEW c \in Callers, GetReturn(c) \/ WriterReturn(c)
  PROVE  Atomic!Return(c)
  BY DEF IInv, TypeOK, CallInv, SawExpired, Goto, lock, ForgetCall,
         GetReturn, WriterReturn, StageBar, AnswerBar, StageOf, Atomic!Return

\* A call is a call.
LEMMA CallsRefine ==
  ASSUME IInv, NEW c \in Callers, NEW label \in {"get_rlock", "set_lock", "cleanup_lock"},
         NEW k, NEW v, Call(c, label, k, v)
  PROVE  Atomic!Invoke(c, StageOf(label), k, v)
  BY DEF IInv, TypeOK, Goto, lock, Call, StageBar, AnswerBar, StageOf, Atomic!Invoke

\* Every step is one of the atomic cache, or none.
LEMMA NextRefines == IInv /\ [Next]_vars => [Atomic!Next]_(Atomic!vars)
  <1> SUFFICES ASSUME IInv, [Next]_vars
               PROVE  [Atomic!Next]_(Atomic!vars)
    OBVIOUS
  <1> USE DEF Atomic!Next, Atomic!Effect
  <1>1. CASE Tick
    BY <1>1 DEF Tick, Atomic!Tick, lock, args, StageBar, AnswerBar
  <1>2. ASSUME NEW c \in Callers, NEW k \in Keys, CallGet(c, k)
        PROVE  Atomic!Next
    <2>1. StageOf("get_rlock") = "get"
      BY DEF StageOf
    <2>2. QED  BY <1>2, <2>1, CallsRefine DEF CallGet
  <1>3. ASSUME NEW c \in Callers, NEW k \in Keys, NEW v \in Values, CallSet(c, k, v)
        PROVE  Atomic!Next
    <2>1. StageOf("set_lock") = "set"
      BY DEF StageOf
    <2>2. QED  BY <1>3, <2>1, CallsRefine DEF CallSet
  <1>4. ASSUME NEW c \in Callers, CallCleanup(c)
        PROVE  Atomic!Next
    <2>1. StageOf("cleanup_lock") = "cleanup"
      BY DEF StageOf
    <2>2. QED  BY <1>4, <2>1, CallsRefine DEF CallCleanup
  <1>5. ASSUME NEW c \in Callers, RLock(c) \/ LockAnnounce(c) \/ LockAcquire(c)
        PROVE  UNCHANGED Atomic!vars
    BY <1>5, LockStepsRefine
  <1>6. ASSUME NEW c \in Callers, Step(c)
        PROVE  [Atomic!Next]_(Atomic!vars)
    BY <1>6, LockStepsRefine, LookupRefines, MapStepsRefine, ReturnsRefine DEF Step
  <1>7. CASE UNCHANGED vars
    BY <1>7 DEF vars, StageBar, AnswerBar, Atomic!vars
  <1>8. QED  BY <1>1, <1>2, <1>3, <1>4, <1>5, <1>6, <1>7 DEF Next

\* Get, Set and Cleanup each take effect at one instant between their call
\* and their return, a Get that met an expired entry at two: the locks of
\* cache.go implement the atomic cache the analyzer relies on.
THEOREM Refinement == Spec => ImplementsAtomicCache
  BY InitRefines, NextRefines, Invariance, PTL
  DEF Spec, ImplementsAtomicCache, Atomic!Spec
=============================================================================
