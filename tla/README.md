# Verification of true-hack

The repository holds two Go programs and the stack they run in.  `true-hack`
answers questions about the metrics of a system: it collects the metrics from
Prometheus, puts them in a prompt, asks a language model, and caches the
answers.  `test-service` is the system it is shown on: a gRPC team server whose
faults can be switched on over HTTP, and a client that keeps calling it.  The
repository has no tests.  This directory holds TLA+ modules that model the two
programs, TLC configurations that check them on small instances, and TLAPS
proofs.

## 1. The system

| part | state | operations | talks to |
|---|---|---|---|
| answer cache (`chain/cache.go`) | map from key string to answer and expiry, under one RWMutex | `Get`, `Set`, `Cleanup`, `CacheKey.String`, `CacheKey.Equal` | called by the analyzer, one goroutine per HTTP request |
| analyzer (`chain/analyzer.go`) | none of its own; the git information read at start | `Analyze`, `collectPrometheusData`, `estimateTokens`, `findBestMatch` (never called), `getGitInfo` | cache, Prometheus, language model |
| reply parser (`chain/parser.go`) | none | `parseLLMResponse` | analyzer |
| HTTP server (`server/server.go`) | none | `POST /api/v1/analyze`, `GET /api/v1/metrics`, static files | browser, analyzer |
| collectors (`collector/*.go`) | HTTP clients | `GetAllMetrics`, `GetMetricData`; Loki is a stub, Jaeger is never called | Prometheus, Jaeger |
| dashboard (`static/index.html`) | loading indicator, the button, the error box, the last answer | analyze, show an error, show an answer | HTTP server |
| process (`cmd/main.go`, compose file) | - | start, stop on a signal without draining, restart by docker | all of the above |
| team storage (`storage/inmemory.go`) | map from id to team under an RWMutex | `Put`, `Get`, `GetAll`, `Remove`, `RemoveAll` | team service |
| team service (`truetech/service.go`) | - | `RegisterTeam`, `SubmitSolution`, `GetLeaderboard` | storage |
| test server (`test-service/cmd/server.go`) | `mustPanic`, `mustDelay`, `mustError`, plain bools | `/control` handler, gRPC interceptor, start; a signal to stop is caught and ignored | operator, team service |
| load client (`cmd/client.go`, `client/worker.go`) | the teams it believes registered | a ticker loop of random calls, each with a 500 ms deadline | test server |

What is hard in it:

* **Concurrency.**  Each HTTP and gRPC request is a goroutine.  `Cache.Get`
  gives up its read lock in the middle of a call; `Analyze` looks up, computes
  for seconds, and stores with nothing held; `RegisterTeam` and `SubmitSolution`
  read and write the storage in two critical sections; the fault switches are
  unsynchronised.
* **Time.**  Entries expire while a request is running.  Upstream calls have no
  deadline (`query_timeout` in the configuration is never read).
* **Failure.**  Each metric query can fail alone; the list of metrics, the
  language model and the whole process can fail; docker restarts the process
  with an empty cache or an empty team store.
* **Limits.**  The prompt has a token budget which important metrics ignore.
* **Forgetful callers.**  The load client ignores what it is answered and keeps a
  map of teams of its own, which neither side's restart brings back in step.
* **Free text.**  The prompt that the program sends does not ask for JSON, so the
  reply of the model is mostly searched with regular expressions, whose blanks
  cross the ends of lines and whose repetitions give back what they took.

What makes each part correct:

* **Cache**: the map is never touched by two goroutines while one changes it; no
  hit is older than its life; replacing an entry never shortens its life; a fresh
  entry is not deleted for a stale one; every call returns; every call looks as
  if it took effect at one instant.
* **Prompt**: ordinary metrics stay within the budget, important ones are never
  left out and come first, nothing is left out that would fit.
* **Analyzer**: nobody is given the answer to another question; work is not
  repeated for an answer the cache already has; every request ends.
* **Parser**: no suggestion and no metric that the reply mentions is lost; an item
  is text of the line it stands on; the confidence is the first one the reply
  gives, and a run of dots and digits that is no number does not change it.
* **Dashboard**: an older outcome does not replace a newer one; the page looks busy
  while a question is under way and not afterwards; errors go away.
* **Team server**: what a client was told stays true while the process lives; a
  team is not changed behind its back; the fault switches do what they say;
  every call ends.
* **Load client**: a team on the server has the members it was created with,
  however calls race, are late or are repeated; a restart of either side does
  not keep the teams of the client from coming back.

## 2. Modules

| module | models | checked by | proofs |
|---|---|---|---|
| `Cache` | `chain/cache.go`: the lock and the map, one action per lock operation | `MCCache` | `CacheProofs` |
| `AtomicCache` | what the cache promises: calls that take effect at one instant | `Cache` refines it | `CacheProofs` |
| `Collect` | `collectPrometheusData`, `estimateTokens`; implements the choice of `Analyzer` | `MCCollect` | `CollectProofs` |
| `Analyzer` | `handleAnalyze`, `Analyze`, the process; composed with `AtomicCache` | `MCAnalyzer` | `AnalyzerProofs` |
| `Dashboard` | the script of `static/index.html` | `MCDashboard` | `DashboardProofs` |
| `TestServer` | `test-service`: interceptor, control handler, team service and storage, the process, clients with a deadline | `MCTestServer` | `TestServerProofs` |
| `Worker` | `client/worker.go`, `cmd/client.go`; composed with `TestServer` | `MCWorker` | `WorkerProofs` |
| `LLMParser` | `parseLLMResponse` | `MCLLMParser` | `LLMParserProofs` |
| `SumTheorems` | nothing: sums over finite sets, and induction over numbers, for the proofs | - | itself |

How they fit: `Analyzer` instantiates `AtomicCache` with its handlers as callers
and calls its actions from `LookUp`, `Hit`, `Miss`, `Complete`, `Store` and
`Stored`.  `Cache` is shown to implement `AtomicCache`, so what is shown of the
analyzer holds with the real cache under it.  `Analyzer` lets each metric be
kept or not; `Collect` says which, and instantiates `Analyzer` with one handler
whose loop it is (`ImplementsAnalyzer`): the budget, the order of the prompt and
the sizes are what the map from `Collect` to `Analyzer` forgets.  `Worker` EXTENDS `TestServer`: where the
server's own specification has clients that send any request at any time
(`Send`), the workers send what their code makes them send; `Server` is the rest
of the steps, and `WorkersAreClients` says that nothing else is added.
`LLMParser` stands alone: the analyzer takes the response as it is.

### State and actions against the code

`Cache`: `entries` is `Cache.entries`; `readers`, `writer` and `pending` are the
`sync.RWMutex` (a writer that has announced itself keeps new readers out, as
the Go runtime does it); `pc[c]` is the place of goroutine `c` in `Get`, `Set`
or `Cleanup`.  `Get` on an expired entry gives up the read lock, takes the write
lock, deletes by key, gives it up and takes the read lock again for the
deferred unlock: five actions with everybody else in between.  `now` is the
clock, which moves by `Tick`.

`AtomicCache`: `store` and one `stage` per caller.  A `Get` takes effect when the
map is read, and may then evict the key, later, at another instant: that second
instant is part of the promise because the code deletes by key without looking
again.

`Collect`: `i`, `result`, `total` are the locals of the loop.  A turn of the loop
ends in one of five ways: `Skip` (the budget is used up, :205), `NoData` (query
failed or empty, :214), `Drop` (:225), `KeepImportant` (in front, :231),
`KeepOrdinary`.  A text is its number of characters; `Framed` adds the nine
of "Metric: " and the newline.  `fate` and `ordinary` are history.

`Analyzer`: `pc[h]` is the place of a request's goroutine, `body[h]` its input,
`left` and `samples` the loop over the metrics, `reply` the response.  `KeyOf` is
`CacheKey.String`: texts are sequences of pieces and are joined with nothing
between, as in the code; a time is the pair of instant and zone that
`time.Time.String()` prints.  `Restart` is a signal to `main`, which returns
without draining.  `missed` is history.

`Dashboard`: a step is what the script does between two awaits.  `phase[n]` is what
the function of click `n` awaits, `busy` stands for both the disabled button and
the loading indicator (they change together), `analysis` for the text of the
result, `details` for its other three parts.  `timers` is the queue of the 5 s
timers: equal delays fire in the order in which they were set.  A mouse needs
the button enabled (`pointer-events-none`), the keyboard does not.  `rivals` is
history.

`TestServer`: `data` is `InMemory.data`, `switch` the three fault switches, `pc[h]`
the place of a call's goroutine, first in the interceptor ("panic", "delay",
"sleep", "error": one read of a switch each), then in a method.  A method's `Get`
and `Put` of the storage are separate critical sections, so separate actions.
`stage[o]` is the parameter at which a control command is; a value that does not
parse ends it with what was applied before.  `Deadline` is the client's 500 ms:
it ends the wait, not the goroutine.  `Die` is what is lost with the process;
`Panic` and `Kill` (out of memory, or SIGKILL after the ignored SIGTERM) are the
two ways to it.  `ordered`, `confirmed`, `promised`, `exposed`, `raced` are history.
The switches are read and written without a lock; a Go `bool` is read and
written whole, so a read returns the old or the new value.

`Worker`: `teams[c]` is the map of client `c`.  A step is one tick of `Worker.do` up
to the moment the call leaves: `Register` picks any team of the map (Go walks a
map in no fixed order and the loop keeps the last key), creates another one or
not, and sends; `Submit` and `Ask` are the other two.  A call that finds no server
fails at once (`Unavailable`): the team that is created on the way stays in the
map (`RegisterUnavailable`).  No step looks at a reply.  Names and members are made
of the present time, so `Create` takes ones that nobody has; `created`, history,
remembers them.  `Stop` is a stop of the client's container and the start of the
next, which knows `best-team` only, while the handler of its last call goes on.

`LLMParser`: `json` says whether the reply is the JSON of an answer (`Unmarshal`);
if not, the three expressions are searched for one after the other, a token of
`text` per step: `field` is the expression, `mode` the place in it, `from` and `last`
the tokens where the match under way begins and would end.  The keywords, the
colon, the blank and the newline are tokens, because the expressions name them;
a run of digits and dots is one token; everything else is a word.  `found` holds the
matches by their positions, and `Items` makes the lists of the response of them.
`EndText` and `NoNumber` are where Go's regexp takes steps back.  The package is
external, and the automaton of this module is compared with a declarative
reading of the expressions (`Ways`, `Prefers`) by `FindsAllMatches`.

## 3. Runs

| run | what it asks | outcome |
|---|---|---|
| `cache` | two goroutines and two answers on one key, TTL 1, clock to 3; safety, no deadlock, refinement of `AtomicCache` with its fairness, so that all calls return | holds |
| `collect` | every list of up to 4 of 4 metrics, two of them important, and every size of text around the budget; the loop is one that `Analyzer` allows | holds |
| `analyzer` | two requests, the same or another range, and a body with the documented field names, expiry, failures, one restart; every request ends if the upstreams answer | holds |
| `analyzer_silent` | every request ends if they need not answer | violated |
| `analyzer_keys` | is an answer about the metrics asked for? | violated |
| `analyzer_range` | are the data those of the range asked for? | violated |
| `dashboard` | three questions and three errors, by mouse and keyboard, ending in every order | holds |
| `server_races` | two calls at once of a client that gives up and goes on: registrations, submissions, one of them empty, a leaderboard, with the switches being turned on, panics and one kill | holds |
| `server_panic` | does `panic=true` make every call panic? | violated |
| `worker` | a worker with two teams, an operator with two commands, panics, one stop of the client; every call ends, everything heals | holds |
| `worker_races` | a worker with two teams whose calls overlap on the server, those it has given up and those of a stopped client among them, with a kill; members | holds |
| `parser` | every reply of up to five tokens, JSON or not; nothing is lost, the matches are those of the expressions | holds |

Bounds, and why they are enough:

* `cache`: the hazard needs one stale `Get` and one `Set` on one key; keys do not
  interact, since the code takes one key per call.  TTL 1 and a clock to 3 let an
  entry expire and be replaced under a waiting `Get`.  That more goroutines
  change nothing for safety is proved.
* `collect`: the sizes cost 200, 9800, 20000 and 20001 tokens: two that fit
  together, one that is the whole budget, and one that is one more.  Four
  metrics of two kinds give every order of two of each.
* `analyzer`: two handlers are a race, and for any number of them
  `AnswerMatchesKey` and `DuplicateOnlyWhenRacing` are proved.  One restart is enough
  for a late store of the old process to matter, if it could.  TTL 1 and a clock
  to 2 let an entry be fresh, be old and fresh, and expire under a request.  The
  bodies are two requests of the same question that differ in the end of their
  range, one for a metric and one for all that Prometheus has, which are none,
  and one that is refused.
* `dashboard`: three clicks are a newer, an older and one in between, three errors
  two timers that overlap a third message.  `MaxClicks` and `MaxErrors` bound them,
  so the page really comes to rest and deadlock is not checked.  `collect` stops
  at the end of the loop, so deadlock is not checked there either.
* `server_races`: the handlers are used again, so two are enough for every race
  of two calls and for a third to come in between: a registration that found
  the team absent waits, the other handler registers it and takes up a
  submission, and the one stores under the other.  Three at once are in the
  proofs.  One of the registrations may have no members, and one of the
  submissions no solution: the first is refused, the second is not.  Teams are independent
  except in the leaderboard, so one name is enough.  `MaxKills` bounds the kills.
* `worker`: two teams are one that every client starts with and one that a restart
  makes it forget.  There is one handler, so a call is over on the server before
  the next one begins there: `Heals` is shown for such calls only.  One command
  sets two switches and resets one, the other is applied in part because its
  last value does not parse.  `MaxStops` bounds the stops, `MaxKills` is 0 because
  panics end the server as often as the operator likes.
  `Server` is a conjunct of `WorkerNext`, whose steps TLC does not tell apart; that
  each action of the server does happen is seen in `server_races`.
* `worker_races`: two handlers are two calls that overlap: one that the worker has
  given up, or that was sent before it was stopped, and a later one; for the same
  team or for the other.  For any number of them the property is proved.  A kill
  loses what a panic loses, so there is no operator, and the switches stay off.
  Handlers are used in the same way, which TLC is told (`SYMMETRY`).
* `parser`: five tokens are a keyword with colon, blank and value and one more, or
  two keywords with their values; the bound on the length is lifted by the
  proofs for all properties.  Numbers that are not of the
  confidence are what other words are in the text, so there are no others.  The
  search stops at its end, so deadlock is not checked.

### What the violated properties say

* `analyzer_keys`: the metrics [a, b] and [ab] have the same key, and one gets the
  answer to the other.
* `analyzer_range`: Prometheus is asked for the present, whatever range the
  question has, though `docs/openapi.yaml:50-52` makes the range a part that a
  question must have.  A comment (`prometheus.go:68`) has the reason: one value is
  enough for a gauge.  The templates that would name the range (`config.yaml:39`,
  `main.go:86`) are never used, so neither the model nor the reader is told of any.
* `analyzer_silent`: `query_timeout: "30s"` of the configuration is read by nobody,
  and the contexts have no deadline: a silent upstream keeps a request for ever.
* `server_panic`: README.md:31 promises a panic for any request; the first panic
  ends the process, and the one docker starts has the switch off.

Met while modelling and visible in the modules without a run: the documented
field names of the request (`query`, `time_range`) are not those of the decoder,
so a body that follows `docs/openapi.yaml` is refused with 400 (`Reject`);
the comment at `index.html:147` says the button is disabled, but its style stops
only the mouse, so a second question may be sent with the keyboard (`Pressed`);
README.md:32 gives the injected error code 14, the code returns `Internal`, 13;
comments (`analyzer.go:195`, `:224`) call `maxInputTokens` the largest number of input
tokens, but important metrics are exempt from both tests and add to what is
there (`MayAsk`, `Drop`), and the question and the git information of the prompt
are not counted at all.
In `parseLLMResponse`: the lists are null and not empty if nothing matches, though
line 28 begins with empty ones and `docs/openapi.yaml:87` has arrays (`Items`; the
dashboard copes with both); the confidence may be any number, 95 for "95%"
(`TakeNumber`); JSON inside a code fence is not JSON and is searched like text,
where the quote after a keyword comes before its number, so its confidence is
not found and its lists come out as pieces of JSON; of a list below a line "suggestion:" only the first item
is taken (`EndLine`); and any JSON object, or `null`, is taken as an answer with
whatever is missing left empty (`Unmarshal`).  `configs/config.yaml:32` asks the model
for JSON, but neither that prompt nor the one of `cmd/main.go:85` is ever used: the
one that is sent is written out at `analyzer.go:117` and does not.  In `worker.go`: the team that `RegisterTeam` creates is not the one it
registers (`Register`), so teams wait in the map for a later tick.

## 4. Fairness

* `Cache.FairSpec`: weak fairness for a goroutine's own steps; strong fairness for
  asking for a lock, because `RWMutex` queues writers and lets the readers in
  that waited for a writer; weak fairness for the announced writer.
* `Analyzer.FairSpec`: weak fairness for each handler's own steps and for the
  clock.  `LiveSpec` adds weak fairness for the steps that need Prometheus or the
  model, that is, it assumes they answer.  Nothing in the code makes them answer,
  which is what `analyzer_silent` shows.
* `Dashboard.FairSpec`: timers fire, and every request ends in some way, which the
  browser does not promise when the server is silent.
* `TestServer.FairSpec`: goroutines run, the client's timer fires, a command is
  executed to its end, and docker restarts the process.  There is no fairness
  for sending, ordering or killing.
* `Worker.FairWorkerSpec`: that of the server, and `Luck`, strong fairness for each
  of the two calls about each team.  A tick takes either call with a fixed
  positive probability, independent of all others, and any team of the map; the
  map grows by at most one team per tick and only with registrations, so the
  chances of one team do not add up to a finite sum and it is taken again and
  again with probability 1.  There is no fairness for stops, orders or panics;
  `Heals` asks for calm as a premise.

## 5. Proofs

TLAPS proves these for all values of the constants, from the named assumption of
each module (`CacheAssumption`, `CollectAssumption`, `AnalyzerAssumption`,
`DashboardAssumption`, `ServerAssumption`, `WorkerAssumption`, `ParserAssumption`:
sets of the right kind, numbers that are natural, and `None` outside of what it
is told apart from).

* `CacheProofs`: `TypeCorrect`, `Exclusion`, `DeadlockFree`, `Freshness`,
  `NoShorterLife`, `StaleGetRace`, `Refinement`.  The inductive invariant says which
  control points hold the lock (`LockInv`; exclusion alone is not inductive because it
  does not mention the lock), that a `Get` which gave up the read lock still
  remembers an expired entry (`CallInv`), and that no entry outlives a `Set` made
  now (`LifeInv`, which is what makes expiry monotone).  `DeadlockFree` is read off
  `LockInv`: a lock that is held is held by a goroutine that waits for nothing,
  and the one writer that is announced waits for readers only.
* `CollectProofs`: `TypeCorrect`, `Budget`, `Ordered`, `Complete`, `NoneOmittedInVain`,
  `Accounted`, `Choice`.  The invariant adds that blocks come from earlier
  turns (so a new one precedes or follows all of them) and that what ordinary
  metrics cost is part of the total (the budget is tested against the total).
  `Accounted` is about sums over the prompt: that its cost is what the loop has
  added up, in whichever order it has put the blocks.  `Choice` says that the loop
  implements the steps of `Analyzer` for one handler, initial states and steps.
* `AnalyzerProofs`: `TypeCorrect`, `KeysRespected`, `NoNeedlessWork`.  `CallInv` ties
  a handler's place to its call of the cache, `KeysInv` says every answer, stored,
  in flight or given out, belongs to its key, and `RaceInv` says an entry under
  the key of a handler that missed is expired or was stored after the miss.
  `AnswerFitsRequest` is not proved: it is true of the bodies of the run, whose keys
  differ when their questions or ranges do, and not of all texts, since the key
  runs its parts together.
* `DashboardProofs`: `TypeCorrect`, `Busy`, `ErrorsTimed`, `NoOlderOutcome`.  `RivalInv`
  says a click in progress is noted as a rival of every later one, `SentInv` that
  the page shows only clicks that were made, `TimerInv` that the last timer is the
  one of the last error.
* `TestServerProofs`: `TypeCorrect`, `Confirmed`, `OnlyRegisterRace`.  `HandlerInv` is
  what a handler has found out and still relies on (a `RegisterTeam` between its
  `Get` and `Put` was promised nothing about its team; a `SubmitSolution` holds a
  copy with the members that are stored, or the team was raced for); `ConfirmInv`
  that what is confirmed is stored; `RaceInv` that two handlers about to store the
  same team, or one about to store a team that is there, have been noted.
  `OnlyRegisterRace` has one more way for a solution to go: the service takes a
  submission of the empty solution like any other.
* `WorkerProofs`: `WorkersAreClients`, `WorkersConfirmed`, `WorkerTypeCorrect`,
  `MembersKept`.  The first says that every step of the workers with the server is
  one of `TestServer`, so the theorems of the server hold with the workers as
  its clients (`WorkersConfirmed` is one of them).  The invariant follows the
  members of a team from a worker's map (`MapInv`) through the calls under way,
  whether anybody still waits for them or not (`CallInv`), to the storage.
* `LLMParserProofs`: `TypeCorrect`, `NoMentionLost`, `OwnLines`, `FirstNumber`,
  `AllMatches`, `Lines`, for replies of any length.  `ModeInv` says what
  stands between the keyword of the match under way and the place of the search:
  only a colon and blanks until the value begins, and only newlines after the
  last token the match could end with.  The latter is why a match that the end of
  the text cuts loses nothing but newlines.  `NumberInv` says that no number is
  given for the confidence behind the search; that is not inductive without
  `ModeInv`, for a search that failed at a keyword goes on where it stopped and not
  after the keyword.  `FoundInv` says that the matches found are right and that
  no further one begins before the place of the search, `ValueInv` that the
  value under way is what the expression takes by its preferences.
  `Lines` follows from `AllMatches` without an invariant of its own: where every
  mention has its value on its line, the only way that counts is the one to the
  end of the line.
* `SumTheorems`: no theorem about the code.  `SumFunctionOnSet` of the community
  modules is a recursive function over the subsets of a set; that it is defined,
  does not depend on the order and grows by what is added is proved by induction
  over the size of the set (`SetInduction`, from `WFMin` of the library: a set of
  numbers that is not empty has a least element).

Only model-checked: `AnswerFitsRequest`, for the reason above, and `RequestsEnd`,
`PageSettles`, `HandlersEnd`, `Heals` and the liveness half of the refinement
(`ImplementsFairAtomicCache`, by which every call of the cache returns), since the
prover does not do fairness.  Of the last a part is proved: `NoDeadlock`, that
callers of the cache never wait for each other only.  It says of what a
goroutine does next that it need not wait; that the action is enabled then can
be read off its guards, but is not proved, since the prover does not do
`ENABLED` either.

## 6. Not modelled

* `GET /api/v1/metrics`, static files, logging, telemetry, configuration: no state
  the programs decide on.
* The texts of prompts, answers and metrics: a text is its size in `Collect`, a
  sequence of pieces in `Analyzer`.
* `Cache.Cleanup` is modelled although nothing calls it; `CacheKey.Equal`,
  `findBestMatch`, `PrometheusCollector.Collect`, the Loki stub, `Remove` and
  `RemoveAll` of the storage are not called either and are not modelled.  The Jaeger
  collector is constructed, and none of its methods is called: no execution of
  the program has a step of it, and its properties would be about other code.
* The words of a reply beyond the tokens that the expressions tell apart, and
  which JSON the model writes: `LLMParser` has one reply that is JSON and all
  others that are not.
* The third-party containers and the generated gRPC code.  `docker/data/plugins`
  is the minified build output of plugins of Grafana, all of the JavaScript
  files of the repository; nobody wrote them for this project, nothing in the two
  programs calls them, and a model of them would be a model of another system.
  The only script of the project is the one inside `static/index.html`.
* Growth: neither the cache (`Cleanup` is never called) nor the worker's map of
  teams is bounded; a finite instance cannot show this, the kill that follows is
  modelled at any instant.

## 7. Plan

Done, in this order: `Cache` with `AtomicCache` (the only shared state of
`true-hack`), `Collect` (the largest piece of logic), `Analyzer` (their
composition), `Dashboard` (its user interface), `TestServer` (the other program),
`Worker` (its client, composed with it), `LLMParser` (what becomes of a reply).
All code of the two programs that an execution can reach and that changes state
is in a module.  What is left are results about the modules that are there:

1. that `Analyzer` with `Cache` in the place of `AtomicCache` gives the same answers,
   as one theorem and not by way of the refinement;
2. `Heals` with calls that overlap on the server, which takes TLC a much larger
   state space than the other runs.
