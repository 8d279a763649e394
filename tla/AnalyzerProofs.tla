--------------------------- MODULE AnalyzerProofs ---------------------------
(***************************************************************************)
(* Proofs about Analyzer.tla, for any number of handlers, any bodies, any  *)
(* lists of metrics, any TTL, and any number of restarts.                  *)
(*                                                                         *)
(* The inductive invariant ties each handler to its call of the cache      *)
(* (CallInv), and says of every answer, in the cache, in a call or in a    *)
(* response, that it belongs to its key (KeysInv).                         *)
(***************************************************************************)
EXTENDS Analyzer, TLAPS

Working == {"list", "collect", "complete", "store"}

\* Where a handler is decides which call of the cache it is in.
CallInv ==
    \A h \in Handlers :
        /\ pc[h] # "idle" => body[h] \in Bodies
        /\ pc[h] = "lookup" => stage[h] \in {"get", "evict", "done"}
        /\ pc[h] = "store" => stage[h] \in {"set", "done"}
        /\ pc[h] \notin {"lookup", "store"} => stage[h] = "idle"
        /\ pc[h] \in {"lookup", "store"} => key[h] = KeyOf(request(h))
        /\ stage[h] # "done" => answer[h] = None
        /\ pc[h] = "store" => val[h] # None
        /\ missed[h] <= clock

Fits(a, k) == KeyOf(a.request) = k

\* Every answer belongs to the key under which it is stored, about to be
\* stored, found, or given out.
KeysInv ==
    /\ \A k \in Keys : store[k] # None => Fits(store[k].value, k)
    /\ \A h \in Handlers :
        /\ pc[h] = "store" => Fits(val[h], key[h])
        /\ answer[h] # None => Fits(answer[h], key[h])
        /\ Succeeded(h) => reply[h].answer # None /\ pc[h] = "reply"

\* The entry under k cannot have been seen by a lookup that missed at time t.
Unseen(k, t) ==
    store[k] # None => C!Expired(store[k]) \/ store[k].expiresAt >= t + TTL

\* A handler whose lookup has missed, the call of Get still in progress or not.
HasMissed(h) ==
    \/ pc[h] \in Working
    \/ pc[h] = "lookup" /\ stage[h] = "evict"
    \/ pc[h] = "lookup" /\ stage[h] = "done" /\ answer[h] = None

RaceInv == \A h \in Handlers : HasMissed(h) => Unseen(KeyOf(request(h)), missed[h])

IInv == TypeOK /\ CallInv /\ KeysInv /\ RaceInv /\ AnswerMatchesKey

-----------------------------------------------------------------------------
\* What the proofs use of the constants: KeyOf and Decode stay closed.
LEMMA ConstantFacts ==
  /\ TTL \in Nat
  /\ None \notin Keys /\ None \notin Answer /\ None \notin Bodies
  /\ None \notin C!Entry
  /\ \A l \in Listings : l \in Seq(Names)
  /\ \A x \in Bodies :
        /\ KeyOf(Decode(x)) \in Keys
        /\ Decode(x) \in Decoded
        /\ Decode(x).metrics \in Seq(Names)
  BY AnalyzerAssumption DEF AnalyzerAssumption, Keys, Decoded

\* An answer is a record of the request it was computed for and its data.
LEMMA AnswerFacts ==
  ASSUME NEW r \in Decoded, NEW s \in SUBSET Sample
  PROVE  /\ [request |-> r, samples |-> s] \in Answer
         /\ [request |-> r, samples |-> s].request = r
  BY DEF Answer

\* A metric that is kept is added to the samples of its handler.
LEMMA AddSample ==
  ASSUME NEW f \in [Handlers -> SUBSET Sample], NEW h \in Handlers, NEW s \in Sample
  PROVE  [f EXCEPT ![h] = @ \cup {s}] \in [Handlers -> SUBSET Sample]
  OBVIOUS

\* A process that has just started: nobody has an answer.
LEMMA InitIInv == Init => IInv
  BY ConstantFacts
  DEF Init, C!Init, C!Stages, IInv, TypeOK, CallInv, KeysInv, RaceInv, HasMissed, Working,
      AnswerMatchesKey, Succeeded

\* handleAnalyze.
LEMMA HttpSteps ==
  ASSUME IInv, NEW h \in Handlers,
         (\E b \in Bodies : Reject(h, b) \/ Accept(h, b)) \/ Respond(h)
  PROVE  IInv'
  <1> USE ConstantFacts
          DEF IInv, TypeOK, CallInv, KeysInv, Fits, RaceInv, Unseen, HasMissed, Working,
              AnswerMatchesKey, Succeeded, Goto, Answered, Forget, request, cacheVars,
              C!Stages, C!Expired
  <1>1. ASSUME NEW b \in Bodies, Reject(h, b)
        PROVE  IInv'
    BY <1>1 DEF Reject
  <1>2. ASSUME NEW b \in Bodies, Accept(h, b)
        PROVE  IInv'
    BY <1>2 DEF Accept, C!Invoke
  <1>3. CASE Respond(h)
    BY <1>3 DEF Respond
  <1>4. QED  BY <1>1, <1>2, <1>3

\* The lookup.
LEMMA LookupSteps ==
  ASSUME IInv, NEW h \in Handlers, LookUp(h) \/ Hit(h) \/ Miss(h)
  PROVE  IInv'
  <1> USE ConstantFacts
          DEF IInv, TypeOK, CallInv, KeysInv, Fits, RaceInv, Unseen, HasMissed, Working,
              AnswerMatchesKey, Succeeded, Goto, Answered, request,
              C!Stages, C!Expired, C!Entry
  <1>1. CASE LookUp(h) /\ C!GetAnswers(h)
    <2> DEFINE e == store[key[h]]
               a == IF e = None THEN None ELSE e.value
    <2>1. /\ pc[h] = "lookup" /\ stage[h] = "get"
          /\ e # None => ~C!Expired(e)
          /\ stage' = [stage EXCEPT ![h] = "done"]
          /\ answer' = [answer EXCEPT ![h] = a]
          /\ missed' = [missed EXCEPT ![h] = clock]
          /\ UNCHANGED <<store, clock, key, val, pc, body, left, samples, reply, restarts>>
      BY <1>1 DEF LookUp, C!GetAnswers, C!GetExpired, C!Evict
    <2>2. /\ key[h] = KeyOf(request(h)) /\ key[h] \in Keys
          /\ e # None => e \in C!Entry /\ Fits(e.value, key[h])
      BY <2>1
    <2>3. /\ a \in Answer \cup {None}
          /\ a # None => Fits(a, key[h])
          /\ a = None => e = None
      BY <2>2
    <2> HIDE DEF a
    <2>4. TypeOK'
      BY <2>1, <2>3
    <2>5. CallInv' /\ KeysInv' /\ AnswerMatchesKey'
      BY <2>1, <2>3
    <2>6. RaceInv'
      BY <2>1, <2>2, <2>3
    <2>7. QED  BY <2>4, <2>5, <2>6
  <1>2. CASE LookUp(h) /\ C!GetExpired(h)
    <2>1. /\ pc[h] = "lookup" /\ stage[h] = "get"
          /\ store[key[h]] # None
          /\ C!Expired(store[key[h]])
          /\ stage' = [stage EXCEPT ![h] = "evict"]
          /\ missed' = [missed EXCEPT ![h] = clock]
          /\ UNCHANGED <<store, clock, key, val, answer, pc, body, left, samples,
                         reply, restarts>>
      BY <1>2 DEF LookUp, C!GetAnswers, C!GetExpired, C!Evict
    <2>2. TypeOK' /\ CallInv' /\ KeysInv' /\ AnswerMatchesKey'
      BY <2>1
    <2>3. RaceInv'
      BY <2>1
    <2>4. QED  BY <2>2, <2>3
  <1>3. CASE LookUp(h) /\ C!Evict(h)
    <2>1. /\ pc[h] = "lookup" /\ stage[h] = "evict"
          /\ store' = [store EXCEPT ![key[h]] = None]
          /\ stage' = [stage EXCEPT ![h] = "done"]
          /\ UNCHANGED <<clock, key, val, answer, pc, body, left, samples, reply,
                         missed, restarts>>
      BY <1>3 DEF LookUp, C!GetAnswers, C!GetExpired, C!Evict
    <2>2. TypeOK'
      BY <2>1
    <2>3. CallInv' /\ KeysInv' /\ AnswerMatchesKey'
      BY <2>1
    <2>4. RaceInv'
      <3>1. \A g \in Handlers : HasMissed(g)' => HasMissed(g)
        BY <2>1
      <3>2. \A k \in Keys, t \in Nat : Unseen(k, t) => Unseen(k, t)'
        BY <2>1
      <3>3. \A g \in Handlers : HasMissed(g) => KeyOf(request(g)) \in Keys /\ missed[g] \in Nat
        OBVIOUS
      <3> HIDE DEF Unseen, HasMissed
      <3>4. QED  BY <3>1, <3>2, <3>3, <2>1
    <2>5. QED  BY <2>2, <2>3, <2>4
  <1>4. CASE Hit(h)
    <2>1. /\ pc[h] = "lookup" /\ stage[h] = "done" /\ answer[h] # None
          /\ pc' = [pc EXCEPT ![h] = "reply"]
          /\ reply' = [reply EXCEPT ![h] = [status |-> 200, answer |-> answer[h]]]
          /\ stage' = [stage EXCEPT ![h] = "idle"]
          /\ key' = [key EXCEPT ![h] = None]
          /\ val' = [val EXCEPT ![h] = None]
          /\ answer' = [answer EXCEPT ![h] = None]
          /\ UNCHANGED <<store, clock, body, left, samples, missed, restarts>>
      BY <1>4 DEF Hit, C!Return
    <2>2. answer[h] \in Answer /\ KeyOf(answer[h].request) = KeyOf(request(h))
      BY <2>1
    <2>3. TypeOK'
      BY <2>1, <2>2
    <2>4. CallInv' /\ KeysInv'
      BY <2>1, <2>2
    <2>5. RaceInv'
      BY <2>1
    <2>6. AnswerMatchesKey'
      BY <2>1, <2>2
    <2>7. QED  BY <2>3, <2>4, <2>5, <2>6
  <1>5. CASE Miss(h)
    BY <1>5 DEF Miss, C!Return
  <1>6. QED  BY <1>1, <1>2, <1>3, <1>4, <1>5 DEF LookUp

\* Prometheus and the prompt.
LEMMA CollectSteps ==
  ASSUME IInv, NEW h \in Handlers,
         ListMetrics(h) \/ ListFails(h) \/ CollectMetric(h) \/ Prompt(h)
  PROVE  IInv'
  <1> USE ConstantFacts
          DEF IInv, TypeOK, CallInv, KeysInv, Fits, RaceInv, Unseen, HasMissed, Working,
              AnswerMatchesKey, Succeeded, Goto, Answered, request, cacheVars, locals,
              C!Expired
  <1>1. CASE ListMetrics(h)
    BY <1>1 DEF ListMetrics
  <1>2. CASE ListFails(h)
    BY <1>2 DEF ListFails
  <1>3. CASE CollectMetric(h)
    <2>1. /\ Head(left[h]) \in Names
          /\ Tail(left[h]) \in Seq(Names)
      BY <1>3 DEF CollectMetric
    <2>2. [metric |-> Head(left[h]), at |-> clock] \in Sample
      BY <2>1 DEF Sample
    <2>3. /\ pc[h] = "collect"
          /\ left' \in [Handlers -> Seq(Names)]
          /\ samples' \in [Handlers -> SUBSET Sample]
          /\ UNCHANGED <<store, clock, stage, key, val, answer, pc, body, reply,
                         missed, restarts>>
      <3>1. left' = [left EXCEPT ![h] = Tail(@)]
        BY <1>3 DEF CollectMetric
      <3>2. \/ samples' = samples
            \/ samples' = [samples EXCEPT
                              ![h] = @ \cup {[metric |-> Head(left[h]), at |-> clock]}]
        BY <1>3 DEF CollectMetric
      <3>3. left' \in [Handlers -> Seq(Names)]
        BY <2>1, <3>1
      <3>4. samples' \in [Handlers -> SUBSET Sample]
        <4> DEFINE s == [metric |-> Head(left[h]), at |-> clock]
        <4>1. samples \in [Handlers -> SUBSET Sample] /\ s \in Sample
          BY <2>2
        <4>2. [samples EXCEPT ![h] = @ \cup {s}] \in [Handlers -> SUBSET Sample]
          <5> HIDE DEF s, IInv, TypeOK, CallInv, KeysInv, RaceInv
          <5>1. QED  BY <4>1, AddSample, Zenon
        <4>3. QED  BY <3>2, <4>1, <4>2
      <3>5. QED  BY <1>3, <3>3, <3>4 DEF CollectMetric
    <2>4. QED  BY <2>3
  <1>4. CASE Prompt(h)
    BY <1>4 DEF Prompt
  <1>5. QED  BY <1>1, <1>2, <1>3, <1>4

\* The language model and the store.
LEMMA CompleteSteps ==
  ASSUME IInv, NEW h \in Handlers,
         \/ Complete(h) \/ CompleteFails(h) \/ CompleteEmpty(h)
         \/ Store(h) \/ Stored(h)
  PROVE  IInv'
  <1> USE ConstantFacts
          DEF IInv, TypeOK, CallInv, KeysInv, Fits, RaceInv, Unseen, HasMissed, Working,
              AnswerMatchesKey, Succeeded, Goto, Answered, Forget, request,
              C!Stages, C!Expired
  <1>1. CASE Complete(h)
    <2> DEFINE a == [request |-> request(h), samples |-> samples[h]]
    <2>1. a \in Answer /\ a.request = request(h) /\ a # None
      <3>1. request(h) \in Decoded /\ samples[h] \in SUBSET Sample
        BY <1>1 DEF Complete
      <3>2. QED  BY <3>1, AnswerFacts
    <2>2. /\ val' = [val EXCEPT ![h] = a] /\ key' = [key EXCEPT ![h] = KeyOf(request(h))]
          /\ stage' = [stage EXCEPT ![h] = "set"] /\ pc' = [pc EXCEPT ![h] = "store"]
          /\ UNCHANGED <<store, clock, answer, body, left, samples, reply, missed, restarts>>
          /\ pc[h] = "complete" /\ stage[h] = "idle"
      BY <1>1 DEF Complete, C!Invoke, locals
    <2> HIDE DEF a
    <2>3. QED  BY <2>1, <2>2
  <1>2. CASE CompleteFails(h)
    BY <1>2 DEF CompleteFails, cacheVars
  <1>3. CASE CompleteEmpty(h)
    BY <1>3 DEF CompleteEmpty, cacheVars
  <1>4. CASE Store(h)
    BY <1>4 DEF Store, C!Put, C!Entry, locals
  <1>5. CASE Stored(h)
    BY <1>5 DEF Stored, C!Return
  <1>6. QED  BY <1>1, <1>2, <1>3, <1>4, <1>5

\* Time and the process.
LEMMA ProcessSteps ==
  ASSUME IInv, Tick \/ Restart \/ UNCHANGED vars
  PROVE  IInv'
  <1> USE ConstantFacts
          DEF IInv, TypeOK, CallInv, KeysInv, Fits, RaceInv, Unseen, HasMissed, Working,
              AnswerMatchesKey, Succeeded, request, C!Stages, C!Expired, C!Entry
  <1>1. CASE Tick
    BY <1>1 DEF Tick, C!Tick, locals
  <1>2. CASE Restart
    BY <1>2 DEF Restart
  <1>3. CASE UNCHANGED vars
    BY <1>3 DEF vars
  <1>4. QED  BY <1>1, <1>2, <1>3

\* Every step keeps the invariant.
LEMMA NextIInv == IInv /\ [Next]_vars => IInv'
  <1> SUFFICES ASSUME IInv, [Next]_vars  PROVE  IInv'
    OBVIOUS
  <1>1. ASSUME NEW h \in Handlers, Own(h) \/ Upstream(h)
        PROVE  IInv'
    BY <1>1, HttpSteps, LookupSteps, CollectSteps, CompleteSteps DEF Own, Upstream
  <1>2. ASSUME NEW h \in Handlers, NEW b \in Bodies, Reject(h, b) \/ Accept(h, b)
        PROVE  IInv'
    BY <1>2, HttpSteps
  <1>3. QED  BY <1>1, <1>2, ProcessSteps DEF Next

-----------------------------------------------------------------------------
\* The variables keep their types, through expiry, failures and restarts.
THEOREM TypeCorrect == Spec => []TypeOK
  <1>1. IInv => TypeOK
    BY DEF IInv
  <1>2. QED  BY InitIInv, NextIInv, <1>1, PTL DEF Spec

\* Nobody gets an answer that belongs to another cache key.
THEOREM KeysRespected == Spec => []AnswerMatchesKey
  <1>1. IInv => AnswerMatchesKey
    BY DEF IInv
  <1>2. QED  BY InitIInv, NextIInv, <1>1, PTL DEF Spec

\* Work is repeated only by requests that overlap.
THEOREM NoNeedlessWork == Spec => []DuplicateOnlyWhenRacing
  <1>1. IInv => DuplicateOnlyWhenRacing
    BY DEF IInv, RaceInv, HasMissed, Working, Unseen, DuplicateOnlyWhenRacing
  <1>2. QED  BY InitIInv, NextIInv, <1>1, PTL DEF Spec
=============================================================================
