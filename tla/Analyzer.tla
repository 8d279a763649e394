------------------------------ MODULE Analyzer ------------------------------
(***************************************************************************)
(* true-hack: what happens to a POST /api/v1/analyze.  handleAnalyze       *)
(* decodes the body, Analyze looks the question up in the cache, and on a  *)
(* miss asks Prometheus metric by metric, then the language model, then    *)
(* stores the answer.  Each request has a goroutine of its own (Handlers)  *)
(* and nothing is held between the lookup and the store.                   *)
(*                                                                         *)
(* The cache is AtomicCache, which Cache.tla is proved to implement; its   *)
(* actions are called from the handlers.  Collect.tla has the details of   *)
(* which metrics make it into the prompt: here each one may or may not.    *)
(* Prometheus and the model are external: they answer, fail, or are silent.*)
(* The request's context is passed to neither, so a client that gives up   *)
(* changes nothing.                                                        *)
(***************************************************************************)
EXTENDS Naturals, Sequences, SequencesExt

CONSTANTS
    Handlers,       \* goroutines of the HTTP server
    Bodies,         \* what clients send: [json, fields, request]
    Listings,       \* the lists of metrics Prometheus may have, sequences
    TTL,            \* 30 minutes in main.go
    MaxTime,        \* bound on the clock
    MaxRestarts,    \* bound on the restarts of the process
    None

(***************************************************************************)
(* A text is a sequence of pieces (words, characters) that are not looked  *)
(* into.  A time is the text time.Time.String() makes of it: the instant   *)
(* and the zone it was written in.                                         *)
(***************************************************************************)
Instant(time) == time[1]

\* The handler knows these fields; all others are ignored by the decoder.
\* A field that is absent, or null, is the empty string or the empty list.
Decode(b) ==
    [b.request EXCEPT
        !.question = IF "question" \in b.fields THEN @ ELSE <<>>,
        !.metrics = IF "metrics" \in b.fields THEN @ ELSE <<>>]

\* The empty string is not a time in RFC 3339.
WellFormed(b) == b.json /\ {"start_time", "end_time"} \subseteq b.fields

\* A plausible fault: the end of the range and the metrics are left out.
KeyOfBeginning(r) == r.question \o r.start

\* CacheKey.String(): the parts, one after the other, with nothing between.
KeyOf(r) == r.question \o r.start \o r.end \o FlattenSeq(r.metrics)

Decoded == {Decode(b) : b \in Bodies}
Keys == {KeyOf(r) : r \in Decoded}

Names == UNION ({ToSet(r.metrics) : r \in Decoded} \cup {ToSet(l) : l \in Listings})

\* A metric that made it into the prompt, and the instant Prometheus was asked
\* for.  The text made of its value is left out, and so is the name in the
\* query, where dots become underscores: no property is about either.
Sample == [metric: Names, at: Nat]

\* An answer: the request it was computed for and the data it was based on.
Answer == [request: Decoded, samples: SUBSET Sample]

VARIABLES
    store, clock, stage, key, val, answer,  \* the cache, see AtomicCache
    pc,
    body,       \* the body of the request being handled
    left,       \* collectPrometheusData: the metrics still to ask for
    samples,    \* collectPrometheusData: result
    reply,      \* the response about to be written: [status, answer]
    missed,     \* history: when the lookup missed
    restarts    \* number of restarts so far

cacheVars == <<store, clock, stage, key, val, answer>>
locals == <<body, left, samples, reply, missed>>
vars == <<store, clock, stage, key, val, answer, pc,
          body, left, samples, reply, missed, restarts>>

C == INSTANCE AtomicCache WITH
        Callers <- Handlers, Values <- Answer

ASSUME AnalyzerAssumption ==
    /\ TTL \in Nat
    /\ MaxTime \in Nat
    /\ MaxRestarts \in Nat
    /\ None \notin Handlers \cup Keys \cup Answer \cup Bodies
    /\ None \notin C!Entry
    /\ \A r \in Decoded : r.metrics \in Seq(Names)
    /\ \A l \in Listings : l \in Seq(Names)

request(h) == Decode(body[h])

Init ==
    /\ C!Init
    /\ pc = [h \in Handlers |-> "idle"]
    /\ body = [h \in Handlers |-> None]
    /\ left = [h \in Handlers |-> <<>>]
    /\ samples = [h \in Handlers |-> {}]
    /\ reply = [h \in Handlers |-> None]
    /\ missed = [h \in Handlers |-> 0]
    /\ restarts = 0

Goto(h, from, to) ==
    /\ pc[h] = from
    /\ pc' = [pc EXCEPT ![h] = to]
    /\ UNCHANGED restarts

\* Write a response; the handler has nothing left to do but return.
Answered(h, from, status, a) ==
    /\ Goto(h, from, "reply")
    /\ reply' = [reply EXCEPT ![h] = [status |-> status, answer |-> a]]

-----------------------------------------------------------------------------
(* handleAnalyze.                                                          *)

Reject(h, b) ==
    /\ ~WellFormed(b)
    /\ Answered(h, "idle", 400, None)
    /\ body' = [body EXCEPT ![h] = b]
    /\ UNCHANGED <<cacheVars, left, samples, missed>>

Accept(h, b) ==
    /\ WellFormed(b)
    /\ Goto(h, "idle", "lookup")
    /\ body' = [body EXCEPT ![h] = b]
    /\ C!Invoke(h, "get", KeyOf(Decode(b)), None)
    /\ UNCHANGED <<left, samples, reply, missed>>

\* The handler returns, or its goroutine is unwound by net/http.
Forget(h) ==
    /\ body' = [body EXCEPT ![h] = None]
    /\ left' = [left EXCEPT ![h] = <<>>]
    /\ samples' = [samples EXCEPT ![h] = {}]
    /\ reply' = [reply EXCEPT ![h] = None]
    /\ missed' = [missed EXCEPT ![h] = 0]

Respond(h) ==
    /\ Goto(h, "reply", "idle")
    /\ Forget(h)
    /\ UNCHANGED cacheVars

-----------------------------------------------------------------------------
(* Analyze: the lookup.                                                    *)

\* A plausible fault: Get keeps its read lock when it asks for the write lock.
LookUpKeepingRLock(h) ==
    /\ pc[h] = "lookup"
    /\ C!GetAnswers(h) \/ C!GetExpired(h)
    /\ missed' = [missed EXCEPT ![h] = clock]
    /\ UNCHANGED <<pc, body, left, samples, reply, restarts>>

LookUp(h) ==
    /\ pc[h] = "lookup"
    /\ \/ (C!GetAnswers(h) \/ C!GetExpired(h)) /\ missed' = [missed EXCEPT ![h] = clock]
       \/ C!Evict(h) /\ UNCHANGED missed
    /\ UNCHANGED <<pc, body, left, samples, reply, restarts>>

Hit(h) ==
    /\ stage[h] = "done"
    /\ answer[h] # None
    /\ Answered(h, "lookup", 200, answer[h])
    /\ C!Return(h)
    /\ UNCHANGED <<body, left, samples, missed>>

\* A plausible fault: the second result of Get is ignored.
MissAlways(h) ==
    /\ stage[h] = "done"
    /\ C!Return(h)
    /\ Goto(h, "lookup", IF request(h).metrics = <<>> THEN "list" ELSE "collect")
    /\ left' = [left EXCEPT ![h] = request(h).metrics]
    /\ UNCHANGED <<body, samples, reply, missed>>

Miss(h) ==
    /\ stage[h] = "done"
    /\ answer[h] = None
    /\ C!Return(h)
    /\ Goto(h, "lookup", IF request(h).metrics = <<>> THEN "list" ELSE "collect")
    /\ left' = [left EXCEPT ![h] = request(h).metrics]
    /\ UNCHANGED <<body, samples, reply, missed>>

-----------------------------------------------------------------------------
(* Analyze: Prometheus.                                                    *)

ListMetrics(h) ==
    /\ Goto(h, "list", "collect")
    /\ \E all \in Listings : left' = [left EXCEPT ![h] = all]
    /\ UNCHANGED <<cacheVars, body, samples, reply, missed>>

ListFails(h) ==
    /\ Answered(h, "list", 500, None)
    /\ UNCHANGED <<cacheVars, body, left, samples, missed>>

\* One turn of the loop: the metric is kept with what Prometheus says now,
\* or there is no data, the query fails, or the budget leaves it out.
CollectMetric(h) ==
    /\ pc[h] = "collect"
    /\ left[h] # <<>>
    /\ left' = [left EXCEPT ![h] = Tail(@)]
    /\ \/ samples' = [samples EXCEPT ![h] = @ \cup {[metric |-> Head(left[h]), at |-> clock]}]
       \/ UNCHANGED samples
    /\ UNCHANGED <<cacheVars, pc, body, reply, missed, restarts>>

\* The prompt is built and sent.
Prompt(h) ==
    /\ left[h] = <<>>
    /\ Goto(h, "collect", "complete")
    /\ UNCHANGED <<cacheVars, locals>>

-----------------------------------------------------------------------------
(* Analyze: the language model and the store.                              *)

\* A plausible fault: the key is kept in the analyzer, where the last request
\* to be looked up leaves its own.
CompleteWithSharedKey(h) ==
    /\ Goto(h, "complete", "store")
    /\ \E g \in Handlers :
        /\ body[g] # None
        /\ WellFormed(body[g])
        /\ C!Invoke(h, "set", KeyOf(request(g)),
                    [request |-> request(h), samples |-> samples[h]])
    /\ UNCHANGED locals

\* A reply with a choice in it; whatever its text, it parses.
Complete(h) ==
    /\ Goto(h, "complete", "store")
    /\ C!Invoke(h, "set", KeyOf(request(h)),
                [request |-> request(h), samples |-> samples[h]])
    /\ UNCHANGED locals

\* A plausible fault: the status of the model's refusal is passed on.
CompleteFailsForwarding(h) ==
    /\ Answered(h, "complete", 429, None)
    /\ UNCHANGED <<cacheVars, body, left, samples, missed>>

CompleteFails(h) ==
    /\ Answered(h, "complete", 500, None)
    /\ UNCHANGED <<cacheVars, body, left, samples, missed>>

\* A reply with no choices: Choices[0] panics, net/http recovers the panic
\* and closes the connection without a response.
CompleteEmpty(h) ==
    /\ Goto(h, "complete", "idle")
    /\ Forget(h)
    /\ UNCHANGED cacheVars

Store(h) ==
    /\ pc[h] = "store"
    /\ C!Put(h)
    /\ UNCHANGED <<pc, locals, restarts>>

Stored(h) ==
    /\ stage[h] = "done"
    /\ Answered(h, "store", 200, val[h])
    /\ C!Return(h)
    /\ UNCHANGED <<body, left, samples, missed>>

-----------------------------------------------------------------------------
(* The process.                                                            *)

Tick ==
    /\ C!Tick
    /\ UNCHANGED <<pc, locals, restarts>>

\* main returns on a signal without waiting for the handlers, and docker
\* starts a new process: every connection is cut and the cache is empty.
Restart ==
    /\ restarts < MaxRestarts
    /\ restarts' = restarts + 1
    /\ store' = [k \in Keys |-> None]
    /\ stage' = [h \in Handlers |-> "idle"]
    /\ key' = [h \in Handlers |-> None]
    /\ val' = [h \in Handlers |-> None]
    /\ answer' = [h \in Handlers |-> None]
    /\ pc' = [h \in Handlers |-> "idle"]
    /\ body' = [h \in Handlers |-> None]
    /\ left' = [h \in Handlers |-> <<>>]
    /\ samples' = [h \in Handlers |-> {}]
    /\ reply' = [h \in Handlers |-> None]
    /\ missed' = [h \in Handlers |-> 0]
    /\ UNCHANGED clock

\* What a handler does by itself, and what it needs an answer for.
Own(h) ==
    \/ LookUp(h) \/ Hit(h) \/ Miss(h)
    \/ Prompt(h)
    \/ Store(h) \/ Stored(h)
    \/ Respond(h)

Upstream(h) ==
    \/ ListMetrics(h) \/ ListFails(h)
    \/ CollectMetric(h)
    \/ Complete(h) \/ CompleteFails(h) \/ CompleteEmpty(h)

Next ==
    \/ Tick
    \/ Restart
    \/ \E h \in Handlers :
        \/ \E b \in Bodies : Reject(h, b) \/ Accept(h, b)
        \/ Own(h)
        \/ Upstream(h)

Spec == Init /\ [][Next]_vars

\* Goroutines that can run do run, and time goes on.
FairSpec == Spec /\ WF_vars(Tick) /\ \A h \in Handlers : WF_vars(Own(h))

\* Prometheus and the model answer every call, with data or with an error.
LiveSpec == FairSpec /\ \A h \in Handlers : WF_vars(Upstream(h))

-----------------------------------------------------------------------------
(* Properties.                                                             *)

\* Types of the variables.
TypeOK ==
    /\ store \in [Keys -> C!Entry \cup {None}]
    /\ clock \in Nat
    /\ stage \in [Handlers -> C!Stages]
    /\ key \in [Handlers -> Keys \cup {None}]
    /\ val \in [Handlers -> Answer \cup {None}]
    /\ answer \in [Handlers -> Answer \cup {None}]
    /\ pc \in [Handlers -> {"idle", "lookup", "list", "collect",
                            "complete", "store", "reply"}]
    /\ body \in [Handlers -> Bodies \cup {None}]
    /\ left \in [Handlers -> Seq(Names)]
    /\ samples \in [Handlers -> SUBSET Sample]
    /\ reply \in [Handlers ->
            [status: {200, 400, 500}, answer: Answer \cup {None}] \cup {None}]
    /\ missed \in [Handlers -> Nat]
    /\ restarts \in Nat

Succeeded(h) == reply[h] # None /\ reply[h].status = 200

\* A client gets an answer to a question with the same cache key as its own,
\* whoever computed it, however the requests overlapped.
AnswerMatchesKey ==
    \A h \in Handlers :
        Succeeded(h) => KeyOf(reply[h].answer.request) = KeyOf(request(h))

\* The answer is about the question and the time range that were asked for.  By
\* AnswerMatchesKey only two requests whose keys run together to the same text
\* could break this; the bodies of the run are told apart by their keys.
AnswerFitsRequest ==
    \A h \in Handlers :
        Succeeded(h) =>
            LET r == reply[h].answer.request IN
            /\ r.question = request(h).question
            /\ r.start = request(h).start
            /\ r.end = request(h).end

\* Prometheus and the model are asked again for an answer that the cache holds
\* only in a race: the answer there was stored when the lookup of this
\* request had already missed.
DuplicateOnlyWhenRacing ==
    \A h \in Handlers :
        pc[h] \in {"list", "collect", "complete", "store"} =>
            LET e == store[KeyOf(request(h))] IN
            e # None => C!Expired(e) \/ e.expiresAt >= missed[h] + TTL

\* Every request that is received is responded to or cut off.
RequestsEnd == \A h \in Handlers : pc[h] # "idle" ~> pc[h] = "idle"

\* docs/openapi.yaml:66-70 and :78-82: the metrics of the request are the ones
\* to include in the analysis.  Two lists whose names run together to the same
\* text share a key, and the answer for one is given to the other.
AnswerForSameMetrics ==
    \A h \in Handlers :
        Succeeded(h) => reply[h].answer.request.metrics = request(h).metrics

\* docs/openapi.yaml:50-52: a question is about a time range, which has to be
\* given.  The data in the prompt are those of this range.
DataFromTimeRange ==
    \A h \in Handlers :
        Succeeded(h) =>
            \A s \in reply[h].answer.samples :
                s.at \in Instant(request(h).start) .. Instant(request(h).end)
=============================================================================
