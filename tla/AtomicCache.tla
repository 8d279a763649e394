---------------------------- MODULE AtomicCache ----------------------------
(***************************************************************************)
(* What the answer cache of true-hack (internal/chain/cache.go) promises   *)
(* the goroutines that call it, with no lock in sight.  A call has one     *)
(* instant at which it takes effect, between its invocation and its        *)
(* return.  The one exception is part of the promise: a Get that meets an  *)
(* expired entry misses at once and, at some LATER instant, removes        *)
(* whatever its key then holds.                                            *)
(*                                                                         *)
(* Cache.tla (the code, lock operation by lock operation) implements this  *)
(* specification; Analyzer.tla uses its granularity.                       *)
(***************************************************************************)
EXTENDS Naturals

CONSTANTS
    Callers,    \* goroutines
    Keys,       \* the strings the map is indexed with
    Values,     \* answers
    TTL,        \* life of an entry
    MaxTime,    \* bound on the clock
    None        \* no entry, no argument, no answer

VARIABLES
    store,      \* store[k]: the entry under k, or None
    clock,
    stage,      \* stage[c]: what the call of c still has to do
    key, val,   \* arguments of the call in progress
    answer      \* what the call in progress will return

vars == <<store, clock, stage, key, val, answer>>

Entry == [value: Values, expiresAt: Nat]

Stages == {"idle", "get", "evict", "set", "cleanup", "done"}

Init ==
    /\ store = [k \in Keys |-> None]
    /\ clock = 0
    /\ stage = [c \in Callers |-> "idle"]
    /\ key = [c \in Callers |-> None]
    /\ val = [c \in Callers |-> None]
    /\ answer = [c \in Callers |-> None]

Expired(e) == clock > e.expiresAt

Tick ==
    /\ clock < MaxTime
    /\ clock' = clock + 1
    /\ UNCHANGED <<store, stage, key, val, answer>>

Invoke(c, op, k, v) ==
    /\ stage[c] = "idle"
    /\ stage' = [stage EXCEPT ![c] = op]
    /\ key' = [key EXCEPT ![c] = k]
    /\ val' = [val EXCEPT ![c] = v]
    /\ UNCHANGED <<store, clock, answer>>

\* An absent entry misses; an unexpired one is the answer.
GetAnswers(c) ==
    LET e == store[key[c]] IN
    /\ stage[c] = "get"
    /\ e # None => ~Expired(e)
    /\ stage' = [stage EXCEPT ![c] = "done"]
    /\ answer' = [answer EXCEPT ![c] = IF e = None THEN None ELSE e.value]
    /\ UNCHANGED <<store, clock, key, val>>

\* An expired entry misses, and the call now owes an eviction.
GetExpired(c) ==
    /\ stage[c] = "get"
    /\ store[key[c]] # None
    /\ Expired(store[key[c]])
    /\ stage' = [stage EXCEPT ![c] = "evict"]
    /\ UNCHANGED <<store, clock, key, val, answer>>

Evict(c) ==
    /\ stage[c] = "evict"
    /\ store' = [store EXCEPT ![key[c]] = None]
    /\ stage' = [stage EXCEPT ![c] = "done"]
    /\ UNCHANGED <<clock, key, val, answer>>

Put(c) ==
    /\ stage[c] = "set"
    /\ store' = [store EXCEPT
                    ![key[c]] = [value |-> val[c], expiresAt |-> clock + TTL]]
    /\ stage' = [stage EXCEPT ![c] = "done"]
    /\ UNCHANGED <<clock, key, val, answer>>

Sweep(c) ==
    /\ stage[c] = "cleanup"
    /\ store' = [k \in Keys |->
                    IF store[k] # None /\ Expired(store[k]) THEN None ELSE store[k]]
    /\ stage' = [stage EXCEPT ![c] = "done"]
    /\ UNCHANGED <<clock, key, val, answer>>

Return(c) ==
    /\ stage[c] = "done"
    /\ stage' = [stage EXCEPT ![c] = "idle"]
    /\ key' = [key EXCEPT ![c] = None]
    /\ val' = [val EXCEPT ![c] = None]
    /\ answer' = [answer EXCEPT ![c] = None]
    /\ UNCHANGED <<store, clock>>

Effect(c) == GetAnswers(c) \/ GetExpired(c) \/ Evict(c) \/ Put(c) \/ Sweep(c)

Next ==
    \/ Tick
    \/ \E c \in Callers :
        \/ \E k \in Keys : Invoke(c, "get", k, None)
        \/ \E k \in Keys, v \in Values : Invoke(c, "set", k, v)
        \/ Invoke(c, "cleanup", None, None)
        \/ Effect(c)
        \/ Return(c)

Spec == Init /\ [][Next]_vars

\* Every call takes effect and returns.
FairSpec ==
    /\ Spec
    /\ \A c \in Callers : WF_vars(Effect(c)) /\ WF_vars(Return(c))
=============================================================================
