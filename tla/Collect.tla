------------------------------ MODULE Collect ------------------------------
(***************************************************************************)
(* true-hack/internal/chain/analyzer.go, collectPrometheusData: what goes  *)
(* into the prompt.  One loop over the metrics asks Prometheus for each    *)
(* and keeps what fits a budget of estimated tokens.  Important metrics    *)
(* are kept whatever the budget says and go to the front.                  *)
(*                                                                         *)
(* Prometheus is external: each query may fail, return nothing, or return  *)
(* a text of some size.  A text is its number of characters.               *)
(***************************************************************************)
EXTENDS Naturals, Sequences, FiniteSets, FiniteSetsExt

CONSTANTS
    Metrics,            \* metric names
    Important,          \* importantMetrics
    Sizes,              \* sizes of the texts GetMetricData returns
    BaseTokens,         \* baseTokens, 100 in the code
    MaxInputTokens,     \* maxInputTokens, 20000 in the code
    MaxMetrics          \* bound on the number of metrics in a list

ASSUME CollectAssumption ==
    /\ Important \subseteq Metrics
    /\ Sizes \subseteq Nat \ {0}
    /\ BaseTokens \in Nat
    /\ MaxInputTokens \in Nat
    /\ MaxMetrics \in Nat

VARIABLES
    pc,         \* "start", "loop", "done", "failed"
    requested,  \* the metrics of the request
    metrics,    \* the metrics of the loop
    i,          \* index of the loop
    result,     \* the blocks kept, in the order of the prompt
    total,      \* totalTokens
    fate,       \* history: fate[j], what became of metrics[j]
    ordinary    \* history: tokens spent on metrics that are not important

vars == <<pc, requested, metrics, i, result, total, fate, ordinary>>

Lists == UNION {[1..n -> Metrics] : n \in 0..MaxMetrics}

\* A block of the prompt: the data of metrics[at], size characters long.
Block == [at: 1..MaxMetrics, size: Sizes]

Fate == [kind: {"skipped", "no_data", "dropped", "kept"}, tokens: Nat]

\* estimateTokens: a constant for every text, and a token per 3 characters.
EstimateTokens(chars) == BaseTokens + chars \div 3

\* "Metric: " and a newline are put around the data.
Framed(size) == size + 9

Cost(size) == EstimateTokens(Framed(size))

-----------------------------------------------------------------------------
Init ==
    /\ pc = "start"
    /\ requested \in Lists
    /\ metrics = <<>>
    /\ i = 1
    /\ result = <<>>
    /\ total = 0
    /\ fate = <<>>
    /\ ordinary = 0

UseRequested ==
    /\ pc = "start"
    /\ requested # <<>>
    /\ metrics' = requested
    /\ pc' = "loop"
    /\ UNCHANGED <<requested, i, result, total, fate, ordinary>>

\* GetAllMetrics: the names Prometheus knows, each once.
UseAll ==
    /\ pc = "start"
    /\ requested = <<>>
    /\ \E all \in Lists :
        /\ Cardinality({all[j] : j \in DOMAIN all}) = Len(all)
        /\ metrics' = all
    /\ pc' = "loop"
    /\ UNCHANGED <<requested, i, result, total, fate, ordinary>>

ListFails ==
    /\ pc = "start"
    /\ requested = <<>>
    /\ pc' = "failed"
    /\ UNCHANGED <<requested, metrics, i, result, total, fate, ordinary>>

-----------------------------------------------------------------------------
(* One turn of the loop.                                                   *)

IsImportant(j) == metrics[j] \in Important

InLoop == pc = "loop" /\ i <= Len(metrics)

\* A plausible fault: important metrics are skipped like the others.
MayAskOrdinary == InLoop /\ total < MaxInputTokens

\* Prometheus is asked unless the budget is used up.
MayAsk == InLoop /\ (total < MaxInputTokens \/ IsImportant(i))

Advance(kind, tokens) ==
    /\ fate' = Append(fate, [kind |-> kind, tokens |-> tokens])
    /\ i' = i + 1
    /\ UNCHANGED <<pc, requested, metrics>>

Skip ==
    /\ InLoop
    /\ ~MayAsk
    /\ Advance("skipped", 0)
    /\ UNCHANGED <<result, total, ordinary>>

\* A plausible fault: the metric after a failed query is passed over too.
NoDataTwice ==
    /\ MayAsk
    /\ fate' = Append(fate, [kind |-> "no_data", tokens |-> 0])
    /\ i' = i + 2
    /\ UNCHANGED <<pc, requested, metrics, result, total, ordinary>>

\* The query fails or returns an empty text.
NoData ==
    /\ MayAsk
    /\ Advance("no_data", 0)
    /\ UNCHANGED <<result, total, ordinary>>

\* A plausible fault: the cost of the metric itself is left out of the test.
FitsSoFar(size) == total <= MaxInputTokens

\* A plausible fault: a prompt of exactly the budget is refused.
FitsStrictly(size) == total + Cost(size) < MaxInputTokens

Fits(size) == total + Cost(size) <= MaxInputTokens

Drop(size) ==
    /\ MayAsk
    /\ ~Fits(size)
    /\ ~IsImportant(i)
    /\ Advance("dropped", Cost(size))
    /\ UNCHANGED <<result, total, ordinary>>

\* A plausible fault: important metrics are appended.
KeepImportantLast(size) ==
    /\ MayAsk
    /\ IsImportant(i)
    /\ result' = Append(result, [at |-> i, size |-> size])
    /\ total' = total + Cost(size)
    /\ Advance("kept", Cost(size))
    /\ UNCHANGED ordinary

KeepImportant(size) ==
    /\ MayAsk
    /\ IsImportant(i)
    /\ result' = <<[at |-> i, size |-> size]>> \o result
    /\ total' = total + Cost(size)
    /\ Advance("kept", Cost(size))
    /\ UNCHANGED ordinary

\* A plausible fault: the running total is not updated.
KeepOrdinaryUncounted(size) ==
    /\ MayAsk
    /\ Fits(size)
    /\ ~IsImportant(i)
    /\ result' = Append(result, [at |-> i, size |-> size])
    /\ ordinary' = ordinary + Cost(size)
    /\ Advance("kept", Cost(size))
    /\ UNCHANGED total

KeepOrdinary(size) ==
    /\ MayAsk
    /\ Fits(size)
    /\ ~IsImportant(i)
    /\ result' = Append(result, [at |-> i, size |-> size])
    /\ total' = total + Cost(size)
    /\ ordinary' = ordinary + Cost(size)
    /\ Advance("kept", Cost(size))

\* A plausible fault: the loop ends when the budget is used up.
FinishEarly ==
    /\ pc = "loop"
    /\ i > Len(metrics) \/ total >= MaxInputTokens
    /\ pc' = "done"
    /\ UNCHANGED <<requested, metrics, i, result, total, fate, ordinary>>

Finish ==
    /\ pc = "loop"
    /\ i > Len(metrics)
    /\ pc' = "done"
    /\ UNCHANGED <<requested, metrics, i, result, total, fate, ordinary>>

Next ==
    \/ UseRequested \/ UseAll \/ ListFails
    \/ Skip \/ NoData
    \/ \E size \in Sizes : Drop(size) \/ KeepImportant(size) \/ KeepOrdinary(size)
    \/ Finish

Spec == Init /\ [][Next]_vars

-----------------------------------------------------------------------------
(* Properties.                                                             *)

\* Types of the variables; the loop never runs past its list.
TypeOK ==
    /\ pc \in {"start", "loop", "done", "failed"}
    /\ requested \in Lists
    /\ metrics \in Lists
    /\ i \in 1..(Len(metrics) + 1)
    /\ result \in Seq(Block)
    /\ total \in Nat
    /\ fate \in Seq(Fate)
    /\ Len(fate) = i - 1
    /\ ordinary \in Nat

\* The metrics that are not important never use more than the budget, however
\* the important ones between them, which ignore it, have moved the total.
OrdinaryWithinBudget == ordinary <= MaxInputTokens

Precedes(a, b) ==
    \/ IsImportant(a) /\ ~IsImportant(b)
    \/ IsImportant(a) /\ IsImportant(b) /\ a > b
    \/ ~IsImportant(a) /\ ~IsImportant(b) /\ a < b

\* The order of the prompt: the important metrics first, the last one asked
\* at the very front, then the others in the order asked; nothing twice.
PromptOrder ==
    \A p, q \in DOMAIN result :
        p < q => Precedes(result[p].at, result[q].at)

\* No important metric that has data is missing from the prompt, no matter
\* how much of the budget was used when its turn came.
ImportantKept ==
    \A j \in DOMAIN fate :
        (IsImportant(j) /\ fate[j].kind # "no_data")
            => \E p \in DOMAIN result : result[p].at = j

\* Nothing is left out without need: a metric that was not asked for, or whose
\* data was left out, would not fit the budget beside what is now in the prompt.
OmittedWouldNotFit ==
    \A j \in DOMAIN fate :
        /\ fate[j].kind = "skipped" => total >= MaxInputTokens
        /\ fate[j].kind = "dropped" => total + fate[j].tokens > MaxInputTokens

\* What each block of the prompt costs.
CostAt == [p \in DOMAIN result |-> Cost(result[p].size)]

\* The blocks that are not important.
OrdinaryBlocks == {p \in DOMAIN result : ~IsImportant(result[p].at)}

\* totalTokens is the cost of exactly the blocks in the prompt, and ordinary
\* the part of those that are not important.
TotalIsCost ==
    /\ total = SumFunction(CostAt)
    /\ ordinary = SumFunctionOnSet(CostAt, OrdinaryBlocks)

-----------------------------------------------------------------------------
(* Refinement: the loop makes the choice that Analyzer leaves open.  Here  *)
(* is one handler of it, and no time goes by.                              *)

Place ==
    IF pc = "start" THEN IF requested = <<>> THEN "list" ELSE "collect"
    ELSE IF pc = "loop" THEN "collect"
    ELSE IF pc = "done" THEN "complete" ELSE "reply"

\* The metrics still to ask for.
Left == IF pc = "start" THEN requested ELSE SubSeq(metrics, i, Len(metrics))

\* The metrics in the prompt.
Sampled == {[metric |-> metrics[result[p].at], at |-> 0] : p \in DOMAIN result}

Reply == IF pc = "failed" THEN [status |-> 500, answer |-> "none"] ELSE "none"

Of(x) == [h \in {"h"} |-> x]

Handler == INSTANCE Analyzer WITH
    Handlers <- {"h"}, Bodies <- {}, Listings <- Lists,
    TTL <- 0, MaxTime <- 0, MaxRestarts <- 0, None <- "none",
    pc <- Of(Place), left <- Of(Left), samples <- Of(Sampled), reply <- Of(Reply),
    store <- <<>>, clock <- 0, stage <- <<>>, key <- <<>>, val <- <<>>, answer <- <<>>,
    body <- <<>>, missed <- <<>>, restarts <- 0

Chooses ==
    \/ Handler!ListMetrics("h") \/ Handler!ListFails("h")
    \/ Handler!CollectMetric("h")
    \/ Handler!Prompt("h")

\* Whatever the budget decides, a handler of Analyzer may do: it begins with
\* nothing, takes the metrics one by one, each with its data or without, and
\* leaves the loop when none is left.
ImplementsAnalyzer ==
    /\ Sampled = {} /\ Left = requested
    /\ [][Chooses]_<<Place, Left, Sampled, Reply>>
=============================================================================
