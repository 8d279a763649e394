------------------------------- MODULE Cache -------------------------------
(***************************************************************************)
(* true-hack/internal/chain/cache.go: the TTL cache of answers, at the     *)
(* granularity of its RWMutex.  Any number of goroutines (Callers) run     *)
(* Get, Set and Cleanup; each step below is one lock operation or one      *)
(* access to the map made while a lock is held.                            *)
(*                                                                         *)
(* Get holds a read lock, and to drop an expired entry it gives that lock  *)
(* up, takes the write lock, deletes, and takes the read lock back for the *)
(* deferred RUnlock.  Between the two locks the entry may be replaced.     *)
(*                                                                         *)
(* Keys are the strings CacheKey.String() produces (see Analyzer.tla for   *)
(* the conversion).  sync.RWMutex is external: a Lock in progress keeps    *)
(* new readers out and waits for the present ones.                         *)
(***************************************************************************)
EXTENDS Naturals

CONSTANTS
    Callers,    \* goroutines
    Keys,       \* the strings the map is indexed with
    Values,     \* *LLMResponse
    TTL,        \* c.ttl
    MaxTime,    \* bound on the clock
    None        \* no entry, no argument, nobody

Entry == [value: Values, expiresAt: Nat]

ASSUME CacheAssumption ==
    /\ TTL \in Nat
    /\ MaxTime \in Nat
    /\ None \notin Callers
    /\ None \notin Keys
    /\ None \notin Values
    /\ None \notin Entry

VARIABLES
    entries,    \* entries[k]: c.entries[k], None when k is not in the map
    now,        \* time.Now(), monotonic
    readers,    \* goroutines that hold c.mu for reading
    pending,    \* goroutine inside c.mu.Lock() that waits for the readers, or None
    writer,     \* goroutine that holds c.mu for writing, or None
    pc,
    key, val,   \* arguments of the call in progress
    entry,      \* the local variable entry of Get, and then its result
    since       \* history: when the call in progress began

lock == <<readers, pending, writer>>
args == <<key, val, since>>
vars == <<entries, now, readers, pending, writer, pc, key, val, entry, since>>

-----------------------------------------------------------------------------
(* Control points.                                                         *)

\* The goroutine holds the read lock, the write lock, or is inside Lock().
Reading   == {"get_read", "get_upgrade", "get_return"}
Writing   == {"get_delete", "get_unlock", "set_store", "set_unlock",
              "cleanup_sweep", "cleanup_unlock"}
WantsLock == {"get_lock", "set_lock", "cleanup_lock"}
WantsRLock == {"get_rlock", "get_relock"}

Labels == {"idle"} \cup Reading \cup Writing \cup WantsLock \cup WantsRLock

Goto(c, from, to) ==
    /\ pc[c] = from
    /\ pc' = [pc EXCEPT ![c] = to]

Init ==
    /\ entries = [k \in Keys |-> None]
    /\ now = 0
    /\ readers = {}
    /\ pending = None
    /\ writer = None
    /\ pc = [c \in Callers |-> "idle"]
    /\ key = [c \in Callers |-> None]
    /\ val = [c \in Callers |-> None]
    /\ entry = [c \in Callers |-> None]
    /\ since = [c \in Callers |-> 0]

Expired(e) == now > e.expiresAt

Tick ==
    /\ now < MaxTime
    /\ now' = now + 1
    /\ UNCHANGED <<entries, lock, pc, args, entry>>

-----------------------------------------------------------------------------
(* Calls and returns.                                                      *)

Call(c, label, k, v) ==
    /\ Goto(c, "idle", label)
    /\ key' = [key EXCEPT ![c] = k]
    /\ val' = [val EXCEPT ![c] = v]
    /\ since' = [since EXCEPT ![c] = now]
    /\ UNCHANGED <<entries, now, lock, entry>>

CallGet(c, k)    == Call(c, "get_rlock", k, None)
CallSet(c, k, v) == Call(c, "set_lock", k, v)
CallCleanup(c)   == Call(c, "cleanup_lock", None, None)

ForgetCall(c) ==
    /\ key' = [key EXCEPT ![c] = None]
    /\ val' = [val EXCEPT ![c] = None]
    /\ since' = [since EXCEPT ![c] = 0]

-----------------------------------------------------------------------------
(* sync.RWMutex.                                                           *)

RLock(c) ==
    /\ pending = None
    /\ writer = None
    /\ \/ Goto(c, "get_rlock", "get_read")
       \/ Goto(c, "get_relock", "get_return")
    /\ readers' = readers \cup {c}
    /\ UNCHANGED <<entries, now, pending, writer, args, entry>>

\* Lock() first excludes other writers and announces itself to readers ...
LockAnnounce(c) ==
    /\ pc[c] \in WantsLock
    /\ pending = None
    /\ writer = None
    /\ pending' = c
    /\ UNCHANGED <<entries, now, readers, writer, pc, args, entry>>

\* ... and returns once the readers that were inside have left.
LockAcquire(c) ==
    /\ pending = c
    /\ readers = {}
    /\ pending' = None
    /\ writer' = c
    /\ \/ Goto(c, "get_lock", "get_delete")
       \/ Goto(c, "set_lock", "set_store")
       \/ Goto(c, "cleanup_lock", "cleanup_sweep")
    /\ UNCHANGED <<entries, now, readers, args, entry>>

-----------------------------------------------------------------------------
(* Get.                                                                    *)

\* A plausible fault: the entry is handed out without looking at its expiry.
GetLookupIgnoringExpiry(c) ==
    /\ Goto(c, "get_read", "get_return")
    /\ entry' = [entry EXCEPT ![c] = entries[key[c]]]
    /\ UNCHANGED <<entries, now, lock, args>>

\* A plausible fault: the expired entry is deleted under the read lock.
GetLookupDeleting(c) ==
    LET e == entries[key[c]] IN
    /\ pc[c] = "get_read"
    /\ entry' = [entry EXCEPT ![c] = e]
    /\ pc' = [pc EXCEPT ![c] =
                IF e # None /\ Expired(e) THEN "get_delete" ELSE "get_return"]
    /\ UNCHANGED <<entries, now, lock, args>>

\* Reads the entry and decides, all under the read lock.
GetLookup(c) ==
    LET e == entries[key[c]] IN
    /\ pc[c] = "get_read"
    /\ entry' = [entry EXCEPT ![c] = e]
    /\ pc' = [pc EXCEPT ![c] =
                IF e # None /\ Expired(e) THEN "get_upgrade" ELSE "get_return"]
    /\ UNCHANGED <<entries, now, lock, args>>

\* A plausible fault: the write lock is requested with the read lock held.
GetUpgradeKeepingRLock(c) ==
    /\ Goto(c, "get_upgrade", "get_lock")
    /\ UNCHANGED <<entries, now, lock, args, entry>>

GetUpgrade(c) ==
    /\ Goto(c, "get_upgrade", "get_lock")
    /\ readers' = readers \ {c}
    /\ UNCHANGED <<entries, now, pending, writer, args, entry>>

\* Deletes whatever the key holds now; the expiry is not looked at again.
GetDelete(c) ==
    /\ Goto(c, "get_delete", "get_unlock")
    /\ entries' = [entries EXCEPT ![key[c]] = None]
    /\ UNCHANGED <<now, lock, args, entry>>

\* Unlock, after which Get has nothing to return.
GetUnlock(c) ==
    /\ Goto(c, "get_unlock", "get_relock")
    /\ writer' = None
    /\ entry' = [entry EXCEPT ![c] = None]
    /\ UNCHANGED <<entries, now, readers, pending, args>>

\* The deferred RUnlock; entry[c] is what the call returns.
GetReturn(c) ==
    /\ Goto(c, "get_return", "idle")
    /\ readers' = readers \ {c}
    /\ entry' = [entry EXCEPT ![c] = None]
    /\ ForgetCall(c)
    /\ UNCHANGED <<entries, now, pending, writer>>

-----------------------------------------------------------------------------
(* Set and Cleanup.                                                        *)

\* A plausible fault: the expiry is computed before the lock is taken.
SetStoreEarlyClock(c) ==
    /\ Goto(c, "set_store", "set_unlock")
    /\ entries' = [entries EXCEPT
                      ![key[c]] = [value |-> val[c], expiresAt |-> since[c] + TTL]]
    /\ UNCHANGED <<now, lock, args, entry>>

\* A plausible fault: the ttl is subtracted.
SetStoreBackdated(c) ==
    /\ Goto(c, "set_store", "set_unlock")
    /\ entries' = [entries EXCEPT
                      ![key[c]] = [value |-> val[c], expiresAt |-> now - TTL]]
    /\ UNCHANGED <<now, lock, args, entry>>

SetStore(c) ==
    /\ Goto(c, "set_store", "set_unlock")
    /\ entries' = [entries EXCEPT
                      ![key[c]] = [value |-> val[c], expiresAt |-> now + TTL]]
    /\ UNCHANGED <<now, lock, args, entry>>

\* A plausible fault: entries that expire at this very instant go too.
CleanupSweepTooMuch(c) ==
    /\ Goto(c, "cleanup_sweep", "cleanup_unlock")
    /\ entries' = [k \in Keys |->
                      IF entries[k] # None /\ now >= entries[k].expiresAt
                      THEN None ELSE entries[k]]
    /\ UNCHANGED <<now, lock, args, entry>>

CleanupSweep(c) ==
    /\ Goto(c, "cleanup_sweep", "cleanup_unlock")
    /\ entries' = [k \in Keys |->
                      IF entries[k] # None /\ Expired(entries[k])
                      THEN None ELSE entries[k]]
    /\ UNCHANGED <<now, lock, args, entry>>

\* The deferred Unlock of Set and Cleanup.
WriterReturn(c) ==
    /\ \/ Goto(c, "set_unlock", "idle")
       \/ Goto(c, "cleanup_unlock", "idle")
    /\ writer' = None
    /\ ForgetCall(c)
    /\ UNCHANGED <<entries, now, readers, pending, entry>>

-----------------------------------------------------------------------------
\* The steps of a call that never wait for another goroutine.
Step(c) ==
    \/ GetLookup(c)
    \/ GetUpgrade(c)
    \/ GetDelete(c)
    \/ GetUnlock(c)
    \/ GetReturn(c)
    \/ SetStore(c)
    \/ CleanupSweep(c)
    \/ WriterReturn(c)

Next ==
    \/ Tick
    \/ \E c \in Callers :
        \/ \E k \in Keys : CallGet(c, k)
        \/ \E k \in Keys, v \in Values : CallSet(c, k, v)
        \/ CallCleanup(c)
        \/ RLock(c)
        \/ LockAnnounce(c)
        \/ LockAcquire(c)
        \/ Step(c)

Spec == Init /\ [][Next]_vars

(***************************************************************************)
(* A goroutine that can run does run.  RWMutex hands the lock to readers   *)
(* that waited for a writer, and queues writers, so nobody who waits for   *)
(* it is passed over for ever: strong fairness of the two requests.  Once  *)
(* a writer is announced new readers stay out, so weak fairness is enough  *)
(* for it to get the lock.                                                 *)
(***************************************************************************)
Fairness ==
    \A c \in Callers :
        /\ WF_vars(Step(c))
        /\ SF_vars(RLock(c))
        /\ SF_vars(LockAnnounce(c))
        /\ WF_vars(LockAcquire(c))

FairSpec == Spec /\ Fairness

-----------------------------------------------------------------------------
(* Properties.                                                             *)

\* Types of the variables of the cache.
TypeOK ==
    /\ entries \in [Keys -> Entry \cup {None}]
    /\ now \in Nat
    /\ readers \subseteq Callers
    /\ pending \in Callers \cup {None}
    /\ writer \in Callers \cup {None}
    /\ pc \in [Callers -> Labels]
    /\ key \in [Callers -> Keys \cup {None}]
    /\ val \in [Callers -> Values \cup {None}]
    /\ entry \in [Callers -> Entry \cup {None}]
    /\ since \in [Callers -> Nat]

\* The map is never touched by one goroutine while another one changes it
\* (the Go runtime aborts the process when that happens), through all of
\* Get's giving up and taking back of the lock.
MapAccessExclusive ==
    \A c, d \in Callers :
        (c # d /\ pc[c] \in {"get_delete", "set_store", "cleanup_sweep"})
            => pc[d] \notin {"get_read", "get_delete", "set_store", "cleanup_sweep"}

\* A hit never hands out an answer that was stored more than TTL before the
\* Get began, whatever Sets, deletes and lock waits came in between.
HitWithinTTL ==
    \A c \in Callers :
        (pc[c] = "get_return" /\ entry[c] # None) => entry[c].expiresAt >= since[c]

\* Replacing an entry never shortens its life: Set reads the clock with the
\* write lock held, so the order of the Sets is the order of their clocks.
ExpiryMonotone ==
    [][\A k \in Keys :
          (entries[k] # None /\ entries'[k] # None)
              => entries'[k].expiresAt >= entries[k].expiresAt]_vars

\* An unexpired entry disappears in one way only: a Get that saw an older,
\* expired entry of the same key had given up its read lock before the new
\* one was stored.  Cleanup and every other Get leave fresh entries alone.
FreshLostOnlyToStaleGet ==
    [][\A k \in Keys :
          (entries[k] # None /\ ~Expired(entries[k]) /\ entries'[k] = None)
              => \E c \in Callers :
                    /\ pc[c] = "get_delete"
                    /\ key[c] = k
                    /\ entry[c].expiresAt < entries[k].expiresAt]_vars

\* What goroutine c does next waits for nothing, or for a lock that it gets.
CanRun(c) ==
    \/ pc[c] \in Reading \cup Writing
    \/ pc[c] \in WantsRLock \cup WantsLock /\ pending = None /\ writer = None
    \/ pending = c /\ readers = {}

\* While a call is under way some goroutine can go on: those that wait for the
\* lock never wait for each other only, nor a Get for the read lock of its own.
NoDeadlock == (\E c \in Callers : pc[c] # "idle") => \E c \in Callers : CanRun(c)

-----------------------------------------------------------------------------
(* Refinement: each call takes effect at one instant, as AtomicCache says. *)

StageOf(label) ==
    CASE label \in {"get_rlock", "get_read"} -> "get"
      [] label \in {"get_upgrade", "get_lock", "get_delete"} -> "evict"
      [] label \in {"set_lock", "set_store"} -> "set"
      [] label \in {"cleanup_lock", "cleanup_sweep"} -> "cleanup"
      [] label = "idle" -> "idle"
      [] OTHER -> "done"

StageBar == [c \in Callers |-> StageOf(pc[c])]

AnswerBar ==
    [c \in Callers |->
        IF pc[c] = "get_return" /\ entry[c] # None THEN entry[c].value ELSE None]

Atomic == INSTANCE AtomicCache WITH
    store <- entries, clock <- now, stage <- StageBar, answer <- AnswerBar

\* The cache behaves as if every call took effect at one instant.
ImplementsAtomicCache == Atomic!Spec

\* And every call of Get, Set and Cleanup does take effect and return: Get, which
\* takes locks three times, is kept from none of them for ever by writers or by
\* other Gets.
ImplementsFairAtomicCache == Atomic!FairSpec
=============================================================================
