--------------------------- MODULE CollectProofs ---------------------------
(***************************************************************************)
(* Proofs about Collect.tla, for any metrics, any sizes of the texts, any  *)
(* budget and lists of any length.                                         *)
(*                                                                         *)
(* The inductive invariant adds to the properties where the blocks of the  *)
(* prompt come from (a turn of the loop that is over), and that the money  *)
(* spent on ordinary metrics is part of the total.  What the total is made *)
(* of, a sum over the blocks, rests on the lemmas of SumTheorems.tla.      *)
(***************************************************************************)
EXTENDS Collect, SumTheorems

\* Before the loop nothing has happened.
Untouched == pc = "start" => i = 1 /\ metrics = <<>> /\ result = <<>> /\ fate = <<>>

\* A block of the prompt was put there by an earlier turn of the loop.
FromEarlierTurns == \A p \in DOMAIN result : result[p].at < i

SpentWithinTotal == ordinary <= total

IInv ==
    /\ TypeOK
    /\ Untouched
    /\ FromEarlierTurns
    /\ SpentWithinTotal
    /\ OrdinaryWithinBudget
    /\ PromptOrder
    /\ ImportantKept
    /\ OmittedWouldNotFit

-----------------------------------------------------------------------------
\* A list of metrics is a sequence of bounded length.
LEMMA ListFacts ==
  ASSUME NEW l \in Lists
  PROVE  /\ l \in Seq(Metrics)
         /\ Len(l) \in 0..MaxMetrics
         /\ DOMAIN l = 1..Len(l)
  <1>1. PICK n \in 0..MaxMetrics : l \in [1..n -> Metrics]
    BY DEF Lists
  <1>2. l \in Seq(Metrics) /\ Len(l) = n
    BY <1>1, CollectAssumption
  <1>3. QED  BY <1>1, <1>2

\* A text of the code's size costs a natural number of tokens.
LEMMA CostNat == \A size \in Sizes : Cost(size) \in Nat
  BY CollectAssumption DEF Cost, Framed, EstimateTokens

\* What the types say of the numbers in the state.
LEMMA StateFacts ==
  ASSUME TypeOK
  PROVE  /\ i \in Nat /\ total \in Nat /\ ordinary \in Nat /\ Len(metrics) \in Nat
         /\ i <= Len(metrics) => i \in 1..MaxMetrics
         /\ Len(result) \in Nat /\ DOMAIN result = 1..Len(result)
         /\ \A p \in DOMAIN result : result[p] \in Block /\ result[p].at \in Nat
         /\ DOMAIN fate = 1..(i - 1)
         /\ \A j \in DOMAIN fate : fate[j] \in Fate /\ fate[j].tokens \in Nat
  <1>1. Len(metrics) \in Nat /\ Len(metrics) <= MaxMetrics
    BY ListFacts, CollectAssumption DEF TypeOK
  <1>2. /\ i \in 1..(Len(metrics) + 1) /\ i \in Nat /\ total \in Nat /\ ordinary \in Nat
        /\ result \in Seq(Block) /\ fate \in Seq(Fate) /\ Len(fate) = i - 1
    BY <1>1 DEF TypeOK
  <1>3. /\ Len(result) \in Nat /\ DOMAIN result = 1..Len(result)
        /\ \A p \in DOMAIN result : result[p] \in Block
        /\ DOMAIN fate = 1..(i - 1)
        /\ \A j \in DOMAIN fate : fate[j] \in Fate
    BY <1>2
  <1>4. /\ \A b \in Block : b.at \in Nat
        /\ \A f \in Fate : f.tokens \in Nat
    BY CollectAssumption DEF Block, Fate
  <1>5. QED  BY <1>1, <1>2, <1>3, <1>4, CollectAssumption

\* The entry of fate that a turn of the loop adds is the one of its index.
LEMMA FateGrows ==
  ASSUME TypeOK, NEW f \in Fate, fate' = Append(fate, f)
  PROVE  /\ fate' \in Seq(Fate)
         /\ Len(fate') = i
         /\ DOMAIN fate' = 1..i
         /\ fate'[i] = f
         /\ \A j \in 1..(i - 1) : j \in DOMAIN fate /\ fate'[j] = fate[j]
  BY ListFacts DEF TypeOK

\* Before the first turn of the loop.
LEMMA InitIInv == Init => IInv
  <1>1. <<>> \in Lists
    <2>1. <<>> \in [1..0 -> Metrics]
      OBVIOUS
    <2>2. 0 \in 0..MaxMetrics
      BY CollectAssumption
    <2>3. QED  BY <2>1, <2>2 DEF Lists
  <1>2. QED
    BY <1>1, CollectAssumption
    DEF Init, IInv, TypeOK, Untouched, FromEarlierTurns, SpentWithinTotal,
        OrdinaryWithinBudget, PromptOrder, ImportantKept, OmittedWouldNotFit

\* The steps outside the loop.
LEMMA OutsideSteps ==
  ASSUME IInv, UseRequested \/ UseAll \/ ListFails \/ Finish
  PROVE  IInv'
  <1> USE DEF IInv, TypeOK, Untouched, FromEarlierTurns, SpentWithinTotal,
              OrdinaryWithinBudget, PromptOrder, ImportantKept,
              OmittedWouldNotFit, Precedes, IsImportant
  <1>1. CASE UseRequested
    BY <1>1, ListFacts, CollectAssumption DEF UseRequested
  <1>2. CASE UseAll
    BY <1>2, ListFacts, CollectAssumption DEF UseAll
  <1>3. CASE ListFails
    BY <1>3 DEF ListFails
  <1>4. CASE Finish
    BY <1>4 DEF Finish
  <1>5. QED  BY <1>1, <1>2, <1>3, <1>4

\* The turns of the loop that leave the prompt alone.
LEMMA LeavingSteps ==
  ASSUME IInv, Skip \/ NoData \/ \E size \in Sizes : Drop(size)
  PROVE  IInv'
  <1> USE DEF IInv
  <1>1. /\ result' = result /\ total' = total /\ ordinary' = ordinary
        /\ i' = i + 1 /\ pc' = pc /\ requested' = requested /\ metrics' = metrics
        /\ pc = "loop" /\ i <= Len(metrics)
    BY DEF Skip, NoData, Drop, Advance, MayAsk, InLoop
  <1>2. PICK f \in Fate :
            /\ fate' = Append(fate, f)
            /\ f.kind = "skipped" => total >= MaxInputTokens /\ ~IsImportant(i)
            /\ f.kind = "dropped" =>
                  total + f.tokens > MaxInputTokens /\ ~IsImportant(i)
            /\ f.kind # "kept"
    <2>1. CASE Skip
      <3> DEFINE f == [kind |-> "skipped", tokens |-> 0]
      <3>1. f \in Fate /\ fate' = Append(fate, f)
        BY <2>1 DEF Skip, Advance, Fate
      <3>2. total >= MaxInputTokens /\ ~IsImportant(i)
        BY <2>1, CollectAssumption DEF Skip, MayAsk, InLoop, TypeOK
      <3>3. QED  BY <3>1, <3>2
    <2>2. CASE NoData
      <3> DEFINE f == [kind |-> "no_data", tokens |-> 0]
      <3>1. f \in Fate /\ fate' = Append(fate, f)
        BY <2>2 DEF NoData, Advance, Fate
      <3>2. QED  BY <3>1
    <2>3. ASSUME NEW size \in Sizes, Drop(size)
          PROVE  \E f \in Fate :
                    /\ fate' = Append(fate, f)
                    /\ f.kind = "skipped" => total >= MaxInputTokens /\ ~IsImportant(i)
                    /\ f.kind = "dropped" =>
                          total + f.tokens > MaxInputTokens /\ ~IsImportant(i)
                    /\ f.kind # "kept"
      <3> DEFINE f == [kind |-> "dropped", tokens |-> Cost(size)]
      <3>1. f \in Fate /\ fate' = Append(fate, f)
        BY <2>3, CostNat DEF Drop, Advance, Fate
      <3>2. total + f.tokens > MaxInputTokens /\ ~IsImportant(i)
        BY <2>3, CostNat, CollectAssumption DEF Drop, Fits, TypeOK
      <3>3. QED  BY <3>1, <3>2
    <2>4. QED  BY <2>1, <2>2, <2>3
  <1>3. /\ fate' \in Seq(Fate) /\ Len(fate') = i /\ DOMAIN fate' = 1..i
        /\ fate'[i] = f
        /\ \A j \in 1..(i - 1) : j \in DOMAIN fate /\ fate'[j] = fate[j]
    BY <1>2, FateGrows
  <1>4. TypeOK'
    BY <1>1, <1>3, ListFacts DEF TypeOK
  <1>5. /\ Untouched' /\ FromEarlierTurns' /\ SpentWithinTotal'
        /\ OrdinaryWithinBudget' /\ PromptOrder'
    <2>1. i \in Nat /\ \A p \in DOMAIN result : result[p].at \in Nat
      BY StateFacts
    <2>2. PromptOrder'
      BY <1>1 DEF PromptOrder, Precedes, IsImportant
    <2>3. QED
      BY <2>1, <2>2, <1>1
      DEF Untouched, FromEarlierTurns, SpentWithinTotal, OrdinaryWithinBudget
  <1>6. ASSUME NEW j \in DOMAIN fate'
        PROVE  /\ IsImportant(j) /\ fate'[j].kind # "no_data"
                      => \E p \in DOMAIN result : result[p].at = j
               /\ fate'[j].kind = "skipped" => total >= MaxInputTokens
               /\ fate'[j].kind = "dropped" => total + fate'[j].tokens > MaxInputTokens
    <2>1. CASE j = i
      <3>1. f.kind \in {"skipped", "no_data", "dropped", "kept"}
        BY DEF Fate
      <3>2. QED  BY <2>1, <3>1, <1>2, <1>3
    <2>2. CASE j # i
      <3>1. j \in DOMAIN fate /\ fate'[j] = fate[j]
        BY <2>2, <1>3, StateFacts
      <3>2. QED  BY <3>1 DEF ImportantKept, OmittedWouldNotFit
    <2>3. QED  BY <2>1, <2>2
  <1>7. ImportantKept' /\ OmittedWouldNotFit'
    BY <1>1, <1>6 DEF ImportantKept, OmittedWouldNotFit, IsImportant
  <1>8. QED  BY <1>4, <1>5, <1>7

\* The turns of the loop that put a block in the prompt: the ones before it
\* keep their order and the new one has its place.
LEMMA PlaceFirst ==
  ASSUME IInv, NEW size \in Sizes, KeepImportant(size)
  PROVE  /\ result' \in Seq(Block)
         /\ \A p \in DOMAIN result : \E q \in DOMAIN result' : result'[q] = result[p]
         /\ \E p \in DOMAIN result' : result'[p].at = i
         /\ \A p \in DOMAIN result' : result'[p].at <= i
         /\ \A p, q \in DOMAIN result' :
                p < q => Precedes(result'[p].at, result'[q].at)
  <1> DEFINE b == [at |-> i, size |-> size]
  <1>1. result' = <<b>> \o result /\ IsImportant(i) /\ i \in 1..MaxMetrics
    BY StateFacts DEF KeepImportant, MayAsk, InLoop, IInv
  <1>2. b \in Block /\ b.at = i
    BY <1>1 DEF Block
  <1> HIDE DEF b
  <1>3. /\ i \in Nat /\ Len(result) \in Nat /\ DOMAIN result = 1..Len(result)
        /\ result \in Seq(Block)
        /\ \A p \in DOMAIN result : result[p].at \in Nat
    BY StateFacts DEF IInv, TypeOK
  <1>4. /\ result' \in Seq(Block)
        /\ DOMAIN result' = 1..(Len(result) + 1)
        /\ result'[1] = b
        /\ \A p \in 1..Len(result) : result'[p + 1] = result[p]
    BY <1>1, <1>2, <1>3
  <1>5. \A p \in DOMAIN result' : p = 1 \/ (p - 1 \in DOMAIN result /\ result'[p] = result[p - 1])
    <2> SUFFICES ASSUME NEW p \in DOMAIN result', p # 1
                 PROVE  p - 1 \in DOMAIN result /\ result'[p] = result[p - 1]
      OBVIOUS
    <2>1. p - 1 \in 1..Len(result) /\ (p - 1) + 1 = p
      BY <1>3, <1>4
    <2>2. QED  BY <2>1, <1>3, <1>4
  <1>6. \A p \in DOMAIN result : \E q \in DOMAIN result' : result'[q] = result[p]
    <2> SUFFICES ASSUME NEW p \in DOMAIN result
                 PROVE  p + 1 \in DOMAIN result' /\ result'[p + 1] = result[p]
      OBVIOUS
    <2>1. QED  BY <1>3, <1>4
  <1>7. \A p \in DOMAIN result' : result'[p].at <= i
    BY <1>2, <1>3, <1>4, <1>5 DEF IInv, FromEarlierTurns
  <1>8. ASSUME NEW p \in DOMAIN result', NEW q \in DOMAIN result', p < q
        PROVE  Precedes(result'[p].at, result'[q].at)
    <2>1. q # 1 /\ q - 1 \in DOMAIN result /\ result'[q] = result[q - 1]
      BY <1>8, <1>3, <1>4, <1>5
    <2>2. CASE p = 1
      <3>1. result'[p].at = i /\ result[q - 1].at < i /\ result[q - 1].at \in Nat
        BY <2>1, <2>2, <1>2, <1>3, <1>4 DEF IInv, FromEarlierTurns
      <3>2. QED  BY <3>1, <2>1, <1>1, <1>3 DEF Precedes
    <2>3. CASE p # 1
      <3>1. p - 1 \in DOMAIN result /\ result'[p] = result[p - 1] /\ p - 1 < q - 1
        BY <2>3, <1>8, <1>3, <1>4, <1>5
      <3>2. QED  BY <3>1, <2>1 DEF IInv, PromptOrder
    <2>4. QED  BY <2>2, <2>3
  <1>9. \E p \in DOMAIN result' : result'[p].at = i
    <2>1. 1 \in DOMAIN result'
      BY <1>3, <1>4
    <2>2. QED  BY <2>1, <1>2, <1>4
  <1>10. QED  BY <1>4, <1>6, <1>7, <1>8, <1>9

\* An ordinary metric comes behind all others, each of which was asked before it.
LEMMA PlaceLast ==
  ASSUME IInv, NEW size \in Sizes, KeepOrdinary(size)
  PROVE  /\ result' \in Seq(Block)
         /\ \A p \in DOMAIN result : \E q \in DOMAIN result' : result'[q] = result[p]
         /\ \E p \in DOMAIN result' : result'[p].at = i
         /\ \A p \in DOMAIN result' : result'[p].at <= i
         /\ \A p, q \in DOMAIN result' :
                p < q => Precedes(result'[p].at, result'[q].at)
  <1> DEFINE b == [at |-> i, size |-> size]
             last == Len(result) + 1
  <1>1. result' = Append(result, b) /\ ~IsImportant(i) /\ i \in 1..MaxMetrics
    BY StateFacts DEF KeepOrdinary, MayAsk, InLoop, IInv
  <1>2. b \in Block /\ b.at = i
    BY <1>1 DEF Block
  <1> HIDE DEF b
  <1>3. /\ i \in Nat /\ Len(result) \in Nat /\ DOMAIN result = 1..Len(result)
        /\ result \in Seq(Block)
        /\ \A p \in DOMAIN result : result[p].at \in Nat
    BY StateFacts DEF IInv, TypeOK
  <1>4. /\ result' \in Seq(Block)
        /\ DOMAIN result' = 1..last
        /\ result'[last] = b
        /\ \A p \in DOMAIN result : p \in DOMAIN result' /\ result'[p] = result[p]
    BY <1>1, <1>2, <1>3
  <1>5. \A p \in DOMAIN result' : p = last \/ p \in DOMAIN result
    BY <1>3, <1>4
  <1>7. \A p \in DOMAIN result' : result'[p].at <= i
    BY <1>2, <1>3, <1>4, <1>5 DEF IInv, FromEarlierTurns
  <1>8. ASSUME NEW p \in DOMAIN result', NEW q \in DOMAIN result', p < q
        PROVE  Precedes(result'[p].at, result'[q].at)
    <2>1. p \in DOMAIN result /\ result'[p] = result[p]
      BY <1>8, <1>3, <1>4, <1>5
    <2>2. CASE q = last
      <3>1. result'[q].at = i /\ result[p].at < i /\ result[p].at \in Nat
        BY <2>1, <2>2, <1>2, <1>3, <1>4 DEF IInv, FromEarlierTurns
      <3>2. QED  BY <3>1, <2>1, <1>1, <1>3 DEF Precedes
    <2>3. CASE q # last
      <3>1. q \in DOMAIN result /\ result'[q] = result[q]
        BY <2>3, <1>4, <1>5
      <3>2. QED  BY <3>1, <2>1, <1>8 DEF IInv, PromptOrder
    <2>4. QED  BY <2>2, <2>3
  <1>9. \E p \in DOMAIN result' : result'[p].at = i
    <2>1. last \in DOMAIN result'
      BY <1>3, <1>4
    <2>2. QED  BY <2>1, <1>2, <1>4
  <1>10. QED  BY <1>4, <1>7, <1>8, <1>9

\* A turn of the loop that keeps its metric.
LEMMA KeepingSteps ==
  ASSUME IInv, NEW size \in Sizes, KeepImportant(size) \/ KeepOrdinary(size)
  PROVE  IInv'
  <1> DEFINE f == [kind |-> "kept", tokens |-> Cost(size)]
  <1>1. /\ i' = i + 1 /\ pc' = pc /\ requested' = requested /\ metrics' = metrics
        /\ pc = "loop" /\ i <= Len(metrics)
        /\ fate' = Append(fate, f) /\ total' = total + Cost(size)
    BY DEF KeepImportant, KeepOrdinary, Advance, MayAsk, InLoop
  <1>2. Cost(size) \in Nat /\ f \in Fate /\ f.kind = "kept"
    BY CostNat DEF Fate
  <1> HIDE DEF f
  <1>3. /\ fate' \in Seq(Fate) /\ Len(fate') = i /\ DOMAIN fate' = 1..i
        /\ fate'[i] = f
        /\ \A j \in 1..(i - 1) : j \in DOMAIN fate /\ fate'[j] = fate[j]
    BY <1>1, <1>2, FateGrows DEF IInv
  <1>4. /\ i \in Nat /\ total \in Nat /\ ordinary \in Nat /\ Len(metrics) \in Nat
        /\ \A j \in DOMAIN fate : fate[j].tokens \in Nat
        /\ TypeOK
    BY StateFacts DEF IInv
  <1>5. /\ result' \in Seq(Block)
        /\ \A p \in DOMAIN result : \E q \in DOMAIN result' : result'[q] = result[p]
        /\ \E p \in DOMAIN result' : result'[p].at = i
        /\ \A p \in DOMAIN result' : result'[p].at <= i
        /\ \A p, q \in DOMAIN result' : p < q => Precedes(result'[p].at, result'[q].at)
    BY PlaceFirst, PlaceLast
  <1>6. ordinary' \in Nat /\ ordinary' <= total' /\ ordinary' <= MaxInputTokens
    <2>1. CASE KeepImportant(size)
      BY <2>1, <1>1, <1>2, <1>4 DEF KeepImportant, IInv, SpentWithinTotal, OrdinaryWithinBudget
    <2>2. CASE KeepOrdinary(size)
      BY <2>2, <1>1, <1>2, <1>4, CollectAssumption
      DEF KeepOrdinary, Fits, IInv, SpentWithinTotal
    <2>3. QED  BY <2>1, <2>2
  <1>7. TypeOK'
    <2>1. /\ pc' \in {"start", "loop", "done", "failed"}
          /\ requested' \in Lists /\ metrics' \in Lists
      BY <1>1, <1>4 DEF TypeOK
    <2>2. i' \in 1..(Len(metrics') + 1) /\ Len(fate') = i' - 1
      BY <1>1, <1>3, <1>4 DEF TypeOK
    <2>3. result' \in Seq(Block) /\ total' \in Nat /\ fate' \in Seq(Fate) /\ ordinary' \in Nat
      BY <1>1, <1>2, <1>3, <1>4, <1>5, <1>6
    <2>4. QED  BY <2>1, <2>2, <2>3 DEF TypeOK
  <1>8. /\ Untouched' /\ FromEarlierTurns' /\ SpentWithinTotal' /\ OrdinaryWithinBudget'
    <2>1. \A p \in DOMAIN result' : result'[p].at \in Nat
      <3>1. \A b \in Block : b.at \in Nat
        BY CollectAssumption DEF Block
      <3>2. QED  BY <3>1, <1>5
    <2>2. QED
      BY <2>1, <1>1, <1>4, <1>5, <1>6
      DEF Untouched, FromEarlierTurns, SpentWithinTotal, OrdinaryWithinBudget
  <1>9. PromptOrder'
    BY <1>1, <1>5 DEF PromptOrder, Precedes, IsImportant
  <1>10. ImportantKept'
    <2> SUFFICES ASSUME NEW j \in DOMAIN fate', IsImportant(j), fate'[j].kind # "no_data"
                 PROVE  \E p \in DOMAIN result' : result'[p].at = j
      BY <1>1 DEF ImportantKept, IsImportant
    <2>1. CASE j = i
      BY <2>1, <1>5
    <2>2. CASE j # i
      <3>1. j \in DOMAIN fate /\ fate'[j] = fate[j]
        BY <2>2, <1>3, <1>4
      <3>2. PICK p \in DOMAIN result : result[p].at = j
        BY <3>1 DEF IInv, ImportantKept
      <3>3. QED  BY <3>2, <1>5
    <2>3. QED  BY <2>1, <2>2
  <1>11. OmittedWouldNotFit'
    <2> SUFFICES ASSUME NEW j \in DOMAIN fate'
                 PROVE  /\ fate'[j].kind = "skipped" => total' >= MaxInputTokens
                        /\ fate'[j].kind = "dropped" =>
                              total' + fate'[j].tokens > MaxInputTokens
      BY DEF OmittedWouldNotFit
    <2>1. CASE j = i
      BY <2>1, <1>2, <1>3
    <2>2. CASE j # i
      <3>1. j \in DOMAIN fate /\ fate'[j] = fate[j] /\ fate[j].tokens \in Nat
        BY <2>2, <1>3, <1>4
      <3>2. QED
        BY <3>1, <1>1, <1>2, <1>4, CollectAssumption DEF IInv, OmittedWouldNotFit
    <2>3. QED  BY <2>1, <2>2
  <1>12. QED  BY <1>7, <1>8, <1>9, <1>10, <1>11 DEF IInv

\* Every step keeps the invariant.
LEMMA NextIInv == IInv /\ [Next]_vars => IInv'
  <1> SUFFICES ASSUME IInv, [Next]_vars  PROVE  IInv'
    OBVIOUS
  <1>1. CASE UseRequested \/ UseAll \/ ListFails \/ Finish
    BY <1>1, OutsideSteps
  <1>2. CASE Skip \/ NoData
    BY <1>2, LeavingSteps
  <1>3. ASSUME NEW size \in Sizes,
               Drop(size) \/ KeepImportant(size) \/ KeepOrdinary(size)
        PROVE  IInv'
    BY <1>3, LeavingSteps, KeepingSteps
  <1>4. CASE UNCHANGED vars
    BY <1>4 DEF vars, IInv, TypeOK, Untouched, FromEarlierTurns, SpentWithinTotal,
                OrdinaryWithinBudget, PromptOrder, ImportantKept,
                OmittedWouldNotFit, Precedes, IsImportant
  <1>5. QED  BY <1>1, <1>2, <1>3, <1>4 DEF Next

-----------------------------------------------------------------------------
(* The costs.  They are sums over the blocks of the prompt, which a turn    *)
(* of the loop changes at either end.                                      *)

\* The costs are a sequence of numbers, as long as the prompt.
LEMMA CostsAreSequences ==
  ASSUME TypeOK
  PROVE  /\ result \in Seq(Block) /\ Len(result) \in Nat /\ DOMAIN result = 1..Len(result)
         /\ CostAt \in Seq(Nat) /\ Len(CostAt) = Len(result)
         /\ OrdinaryBlocks \in SUBSET (1..Len(result))
  <1>1. result \in Seq(Block) /\ Len(result) \in Nat /\ DOMAIN result = 1..Len(result)
    BY StateFacts DEF TypeOK
  <1>2. \A p \in 1..Len(result) : Cost(result[p].size) \in Nat
    <2>1. \A b \in Block : b.size \in Sizes
      BY DEF Block
    <2>2. QED  BY <1>1, <2>1, CostNat
  <1>3. CostAt \in [1..Len(result) -> Nat]
    BY <1>1, <1>2 DEF CostAt
  <1>4. QED  BY <1>1, <1>3 DEF OrdinaryBlocks

\* The costs when a block is put at the end.
LEMMA CostsAppended ==
  ASSUME TypeOK, NEW b \in Block, result' = Append(result, b)
  PROVE  CostAt' = Append(CostAt, Cost(b.size))
  <1>1. /\ result \in Seq(Block) /\ Len(result) \in Nat
        /\ CostAt \in Seq(Nat) /\ Len(CostAt) = Len(result)
    BY CostsAreSequences
  <1>2. /\ DOMAIN result = 1..Len(result) /\ DOMAIN result' = 1..(Len(result) + 1)
        /\ \A p \in 1..Len(result) : result'[p] = result[p]
        /\ result'[Len(result) + 1] = b
    BY <1>1
  <1> DEFINE t == Append(CostAt, Cost(b.size))
  <1>3. /\ t = [p \in 1..(Len(result) + 1) |-> t[p]]
        /\ \A p \in 1..Len(result) : t[p] = CostAt[p]
        /\ t[Len(result) + 1] = Cost(b.size)
    BY <1>1
  <1>4. \A p \in 1..(Len(result) + 1) : t[p] = Cost(result'[p].size)
    <2> HIDE DEF t
    <2> SUFFICES ASSUME NEW p \in 1..(Len(result) + 1)
                 PROVE  t[p] = Cost(result'[p].size)
      OBVIOUS
    <2>1. CASE p = Len(result) + 1
      BY <2>1, <1>2, <1>3
    <2>2. CASE p \in 1..Len(result)
      BY <2>2, <1>2, <1>3 DEF CostAt
    <2>3. QED  BY <1>1, <2>1, <2>2
  <1> HIDE DEF t
  <1>5. CostAt' = t
    BY <1>2, <1>3, <1>4 DEF CostAt
  <1>6. QED  BY <1>5 DEF t

\* The costs when a block is put at the front.
LEMMA CostsPrepended ==
  ASSUME TypeOK, NEW b \in Block, result' = <<b>> \o result
  PROVE  CostAt' = <<Cost(b.size)>> \o CostAt
  <1>1. /\ result \in Seq(Block) /\ Len(result) \in Nat
        /\ CostAt \in Seq(Nat) /\ Len(CostAt) = Len(result)
    BY CostsAreSequences
  <1>2. /\ DOMAIN result = 1..Len(result) /\ DOMAIN result' = 1..(Len(result) + 1)
        /\ \A p \in 2..(Len(result) + 1) : result'[p] = result[p - 1]
        /\ result'[1] = b
    BY <1>1
  <1> DEFINE t == <<Cost(b.size)>> \o CostAt
  <1>3. /\ t = [p \in 1..(Len(result) + 1) |-> t[p]]
        /\ \A p \in 2..(Len(result) + 1) : t[p] = CostAt[p - 1]
        /\ t[1] = Cost(b.size)
    BY <1>1
  <1>4. \A p \in 1..(Len(result) + 1) : t[p] = Cost(result'[p].size)
    <2> HIDE DEF t
    <2> SUFFICES ASSUME NEW p \in 1..(Len(result) + 1)
                 PROVE  t[p] = Cost(result'[p].size)
      OBVIOUS
    <2>1. CASE p = 1
      BY <2>1, <1>2, <1>3
    <2>2. CASE p \in 2..(Len(result) + 1)
      <3>1. p - 1 \in 1..Len(result)
        BY <1>1, <2>2
      <3>2. QED  BY <2>2, <3>1, <1>2, <1>3 DEF CostAt
    <2>3. QED  BY <1>1, <2>1, <2>2
  <1> HIDE DEF t
  <1>5. CostAt' = t
    BY <1>2, <1>3, <1>4 DEF CostAt
  <1>6. QED  BY <1>5 DEF t

\* The steps that leave the prompt alone.
LEMMA CostsUnchanged ==
  ASSUME TotalIsCost, UNCHANGED <<result, total, ordinary>>,
         \A p \in DOMAIN result : IsImportant(result[p].at)' = IsImportant(result[p].at)
  PROVE  TotalIsCost'
  <1>1. CostAt' = CostAt /\ OrdinaryBlocks' = OrdinaryBlocks
    BY DEF CostAt, OrdinaryBlocks
  <1>2. QED  BY <1>1 DEF TotalIsCost

\* A block in front adds its cost to the total and to no ordinary one.
LEMMA CostsOfImportant ==
  ASSUME IInv, TotalIsCost, NEW size \in Sizes, KeepImportant(size)
  PROVE  TotalIsCost'
  <1> DEFINE b == [at |-> i, size |-> size]
  <1>1. /\ result' = <<b>> \o result /\ IsImportant(i) /\ i \in 1..MaxMetrics
        /\ total' = total + Cost(size) /\ ordinary' = ordinary /\ metrics' = metrics
        /\ TypeOK /\ total \in Nat
    BY StateFacts DEF KeepImportant, Advance, MayAsk, InLoop, IInv
  <1>2. b \in Block /\ b.at = i /\ b.size = size
    BY <1>1 DEF Block
  <1> HIDE DEF b
  <1>3. CostAt' = <<Cost(size)>> \o CostAt
    BY <1>1, <1>2, CostsPrepended
  <1>4. /\ CostAt \in Seq(Nat)
        /\ DOMAIN CostAt = 1..Len(result)
        /\ OrdinaryBlocks \in SUBSET (1..Len(result))
        /\ result \in Seq(Block) /\ Len(result) \in Nat
    BY <1>1, CostsAreSequences
  <1>5. Cost(size) \in Nat
    BY CostNat
  <1>6. OrdinaryBlocks' = {p + 1 : p \in OrdinaryBlocks}
    <2>1. /\ DOMAIN result' = 1..(Len(result) + 1) /\ DOMAIN result = 1..Len(result)
          /\ result'[1] = b
          /\ \A p \in 1..Len(result) : result'[p + 1] = result[p]
      <3>1. result' = <<b>> \o result /\ b \in Block
        BY <1>1, <1>2
      <3>2. result \in Seq(Block) /\ Len(result) \in Nat
        BY <1>4
      <3>3. QED  BY <3>1, <3>2
    <2>2. OrdinaryBlocks' = {p \in 1..(Len(result) + 1) : ~IsImportant(result'[p].at)}
      BY <1>1, <2>1 DEF OrdinaryBlocks, IsImportant
    <2>3. OrdinaryBlocks = {p \in 1..Len(result) : ~IsImportant(result[p].at)}
      BY <2>1 DEF OrdinaryBlocks
    <2>4. ASSUME NEW p \in OrdinaryBlocks'  PROVE  p \in {q + 1 : q \in OrdinaryBlocks}
      <3>1. p # 1
        BY <1>1, <1>2, <2>1, <2>2, <2>4
      <3>2. p - 1 \in 1..Len(result) /\ (p - 1) + 1 = p
        BY <1>4, <2>2, <2>4, <3>1
      <3>3. p - 1 \in OrdinaryBlocks
        BY <2>1, <2>2, <2>3, <2>4, <3>2
      <3>4. QED  BY <3>2, <3>3
    <2>5. ASSUME NEW q \in OrdinaryBlocks  PROVE  q + 1 \in OrdinaryBlocks'
      BY <1>4, <2>1, <2>2, <2>3
    <2>6. QED  BY <2>4, <2>5
  <1>7. /\ SumFunction(CostAt') = Cost(size) + SumFunction(CostAt)
        /\ SumFunctionOnSet(CostAt', OrdinaryBlocks') = SumFunctionOnSet(CostAt, OrdinaryBlocks)
    BY <1>3, <1>4, <1>5, <1>6, SumPrepended
  <1>8. QED
    BY <1>1, <1>5, <1>7 DEF TotalIsCost

\* A block at the end adds its cost to the total and to that of the ordinary ones.
LEMMA CostsOfOrdinary ==
  ASSUME IInv, TotalIsCost, NEW size \in Sizes, KeepOrdinary(size)
  PROVE  TotalIsCost'
  <1> DEFINE b == [at |-> i, size |-> size]
             n == Len(result)
  <1>1. /\ result' = Append(result, b) /\ ~IsImportant(i) /\ i \in 1..MaxMetrics
        /\ total' = total + Cost(size) /\ ordinary' = ordinary + Cost(size)
        /\ metrics' = metrics /\ TypeOK /\ total \in Nat /\ ordinary \in Nat
    BY StateFacts DEF KeepOrdinary, Advance, MayAsk, InLoop, IInv
  <1>2. b \in Block /\ b.at = i /\ b.size = size
    BY <1>1 DEF Block
  <1> HIDE DEF b
  <1>3. CostAt' = Append(CostAt, Cost(size))
    BY <1>1, <1>2, CostsAppended
  <1>4. /\ CostAt \in Seq(Nat)
        /\ DOMAIN CostAt = 1..n
        /\ Len(CostAt) = n
        /\ OrdinaryBlocks \in SUBSET (1..n)
        /\ result \in Seq(Block) /\ n \in Nat
    BY <1>1, CostsAreSequences
  <1>5. Cost(size) \in Nat
    BY CostNat
  <1>6. OrdinaryBlocks' = OrdinaryBlocks \cup {n + 1}
    <2>1. /\ DOMAIN result' = 1..(n + 1) /\ DOMAIN result = 1..n
          /\ result'[n + 1] = b
          /\ \A p \in 1..n : result'[p] = result[p]
      BY <1>1, <1>2, <1>4
    <2>2. OrdinaryBlocks' = {p \in 1..(n + 1) : ~IsImportant(result'[p].at)}
      BY <1>1, <2>1 DEF OrdinaryBlocks, IsImportant
    <2>3. OrdinaryBlocks = {p \in 1..n : ~IsImportant(result[p].at)}
      BY <2>1 DEF OrdinaryBlocks
    <2>4. QED  BY <1>1, <1>2, <1>4, <2>1, <2>2, <2>3
  <1>7. /\ SumFunction(CostAt') = Cost(size) + SumFunction(CostAt)
        /\ SumFunctionOnSet(CostAt', OrdinaryBlocks')
              = Cost(size) + SumFunctionOnSet(CostAt, OrdinaryBlocks)
    <2>1. OrdinaryBlocks \in SUBSET DOMAIN CostAt
      BY <1>4
    <2>2. /\ SumFunction(CostAt') = Cost(size) + SumFunction(CostAt)
          /\ SumFunctionOnSet(CostAt', OrdinaryBlocks \cup {n + 1})
                = Cost(size) + SumFunctionOnSet(CostAt, OrdinaryBlocks)
      <3> HIDE DEF n
      <3>1. QED  BY <1>3, <1>4, <1>5, <2>1, SumAppended
    <2>3. QED  BY <1>6, <2>2
  <1>8. QED
    BY <1>1, <1>5, <1>7 DEF TotalIsCost

\* The sums over the empty prompt are 0.
LEMMA InitCosts == Init => TotalIsCost
  <1> SUFFICES ASSUME Init  PROVE  TotalIsCost
    OBVIOUS
  <1>1. DOMAIN result = {} /\ total = 0 /\ ordinary = 0
    BY DEF Init
  <1>2. DOMAIN CostAt = {} /\ OrdinaryBlocks = {}
    BY <1>1 DEF CostAt, OrdinaryBlocks
  <1>3. \A f : SumFunctionOnSet(f, {}) = 0
    BY SumStep, FS_EmptySet
  <1>4. QED
    BY <1>1, <1>2, <1>3 DEF TotalIsCost, SumFunction

\* Every step keeps the sums.
LEMMA NextCosts == IInv /\ TotalIsCost /\ [Next]_vars => TotalIsCost'
  <1> SUFFICES ASSUME IInv, TotalIsCost, [Next]_vars  PROVE  TotalIsCost'
    OBVIOUS
  <1>1. CASE UseRequested \/ UseAll
    <2>1. UNCHANGED <<result, total, ordinary>> /\ DOMAIN result = {}
      BY <1>1 DEF UseRequested, UseAll, IInv, Untouched
    <2>2. QED  BY <2>1, CostsUnchanged
  <1>2. CASE ListFails \/ Finish \/ UNCHANGED vars
    <2>1. UNCHANGED <<result, total, ordinary, metrics>>
      BY <1>2 DEF ListFails, Finish, vars
    <2>2. QED  BY <2>1, CostsUnchanged DEF IsImportant
  <1>3. CASE Skip \/ NoData \/ \E size \in Sizes : Drop(size)
    <2>1. UNCHANGED <<result, total, ordinary, metrics>>
      BY <1>3 DEF Skip, NoData, Drop, Advance
    <2>2. QED  BY <2>1, CostsUnchanged DEF IsImportant
  <1>4. ASSUME NEW size \in Sizes, KeepImportant(size) \/ KeepOrdinary(size)
        PROVE  TotalIsCost'
    BY <1>4, CostsOfImportant, CostsOfOrdinary
  <1>5. QED  BY <1>1, <1>2, <1>3, <1>4 DEF Next

-----------------------------------------------------------------------------
(* Refinement: the loop is one of the loops that Analyzer allows.          *)

\* What is left of a list when its next element is taken.
LEMMA RestOfList ==
  ASSUME NEW l \in Seq(Metrics), NEW j \in 1..Len(l)
  PROVE  /\ SubSeq(l, j, Len(l)) # <<>>
         /\ Head(SubSeq(l, j, Len(l))) = l[j]
         /\ Tail(SubSeq(l, j, Len(l))) = SubSeq(l, j + 1, Len(l))
  <1> DEFINE s == SubSeq(l, j, Len(l))
             t == SubSeq(l, j + 1, Len(l))
  <1>1. Len(l) \in Nat /\ j \in Nat /\ j >= 1 /\ j <= Len(l)
    OBVIOUS
  <1>2. /\ s \in Seq(Metrics) /\ Len(s) = Len(l) - j + 1
        /\ \A p \in 1..(Len(l) - j + 1) : s[p] = l[j + p - 1]
    BY <1>1
  <1>3. /\ t \in Seq(Metrics) /\ Len(t) = Len(l) - j
        /\ \A p \in 1..(Len(l) - j) : t[p] = l[j + 1 + p - 1]
    BY <1>1
  <1> HIDE DEF s, t
  <1>4. s # <<>> /\ Head(s) = l[j]
    BY <1>1, <1>2
  <1>5. Tail(s) \in Seq(Metrics) /\ Len(Tail(s)) = Len(l) - j
    BY <1>1, <1>2, <1>4
  <1>6. \A p \in 1..(Len(l) - j) : Tail(s)[p] = t[p]
    <2> SUFFICES ASSUME NEW p \in 1..(Len(l) - j)  PROVE  Tail(s)[p] = t[p]
      OBVIOUS
    <2>1. Tail(s)[p] = s[p + 1]
      BY <1>1, <1>2, <1>4
    <2>2. p + 1 \in 1..(Len(l) - j + 1) /\ j + (p + 1) - 1 = j + 1 + p - 1
      BY <1>1
    <2>3. QED  BY <2>1, <2>2, <1>2, <1>3
  <1>7. Tail(s) = t
    <2> DEFINE u == Tail(s)
    <2>1. u \in Seq(Metrics) /\ Len(u) = Len(l) - j
      BY <1>5
    <2> HIDE DEF u
    <2>2. DOMAIN u = 1..(Len(l) - j) /\ DOMAIN t = 1..(Len(l) - j)
      BY <2>1, <1>3
    <2>3. u = [p \in DOMAIN u |-> u[p]] /\ t = [p \in DOMAIN t |-> t[p]]
      BY <2>1, <1>3
    <2>4. \A p \in DOMAIN t : u[p] = t[p]
      BY <1>6, <2>2 DEF u
    <2>5. u = t
      BY <2>2, <2>3, <2>4
    <2>6. QED  BY <2>5 DEF u
  <1>8. QED  BY <1>4, <1>7 DEF s, t

\* A turn of the loop takes a metric, with its data or without.
LEMMA TurnChooses ==
  ASSUME IInv, pc = "loop", i <= Len(metrics), i' = i + 1, UNCHANGED <<pc, metrics>>,
         \/ Sampled' = Sampled
         \/ Sampled' = Sampled \cup {[metric |-> metrics[i], at |-> 0]}
  PROVE  Handler!CollectMetric("h")
  <1>1. metrics \in Seq(Metrics) /\ i \in 1..Len(metrics)
    BY ListFacts DEF IInv, TypeOK
  <1>2. Left = SubSeq(metrics, i, Len(metrics)) /\ Left' = SubSeq(metrics, i + 1, Len(metrics))
    BY DEF Left
  <1>3. Left # <<>> /\ Head(Left) = metrics[i] /\ Left' = Tail(Left)
    BY <1>1, <1>2, RestOfList
  <1>4. Place = "collect" /\ Place' = Place /\ Reply' = Reply
    BY DEF Place, Reply
  <1> HIDE DEF Left, Place, Reply, Sampled
  <1>5. QED  BY <1>3, <1>4 DEF Of, Handler!CollectMetric, Handler!cacheVars

\* A block that is put in the prompt adds its metric.
LEMMA KeptSampled ==
  ASSUME IInv, NEW size \in Sizes, KeepImportant(size) \/ KeepOrdinary(size)
  PROVE  Sampled' = Sampled \cup {[metric |-> metrics[i], at |-> 0]}
  <1> DEFINE b == [at |-> i, size |-> size]
  <1>1. /\ result' = <<b>> \o result \/ result' = Append(result, b)
        /\ i \in 1..MaxMetrics /\ UNCHANGED metrics
    BY StateFacts DEF KeepImportant, KeepOrdinary, MayAsk, InLoop, Advance, IInv
  <1>2. b \in Block /\ b.at = i
    BY <1>1 DEF Block
  <1>3. result \in Seq(Block) /\ Len(result) \in Nat /\ DOMAIN result = 1..Len(result)
    BY StateFacts DEF IInv, TypeOK
  <1> HIDE DEF b
  <1>4. /\ \A q \in DOMAIN result' : result'[q] = b \/ \E p \in DOMAIN result : result'[q] = result[p]
        /\ \E q \in DOMAIN result' : result'[q] = b
        /\ \A p \in DOMAIN result : \E q \in DOMAIN result' : result'[q] = result[p]
    <2>1. CASE result' = Append(result, b)
      <3>1. /\ DOMAIN result' = 1..(Len(result) + 1) /\ result'[Len(result) + 1] = b
            /\ \A p \in 1..Len(result) : result'[p] = result[p]
        BY <2>1, <1>2, <1>3
      <3>2. \A q \in DOMAIN result' : q = Len(result) + 1 \/ q \in 1..Len(result)
        BY <3>1, <1>3
      <3>3. Len(result) + 1 \in DOMAIN result' /\ 1..Len(result) \subseteq DOMAIN result'
        BY <3>1, <1>3
      <3>4. QED  BY <3>1, <3>2, <3>3, <1>3
    <2>2. CASE result' = <<b>> \o result
      <3>1. /\ DOMAIN result' = 1..(Len(result) + 1) /\ result'[1] = b
            /\ \A p \in 1..Len(result) : result'[p + 1] = result[p]
        BY <2>2, <1>2, <1>3
      <3>2. \A q \in DOMAIN result' : q = 1 \/ (q - 1 \in 1..Len(result) /\ (q - 1) + 1 = q)
        BY <3>1, <1>3
      <3>3. 1 \in DOMAIN result' /\ \A p \in 1..Len(result) : p + 1 \in DOMAIN result'
        BY <3>1, <1>3
      <3>4. \A q \in DOMAIN result' : q = 1 \/ (q - 1 \in DOMAIN result /\ result'[q] = result[q - 1])
        BY <3>1, <3>2, <1>3
      <3>5. QED  BY <3>1, <3>3, <3>4, <1>3
    <2>3. QED  BY <1>1, <2>1, <2>2
  <1>5. metrics' = metrics
    BY <1>1
  <1>6. \A q \in DOMAIN result' : metrics[result'[q].at] = metrics[i]
              \/ \E p \in DOMAIN result : metrics[result'[q].at] = metrics[result[p].at]
    BY <1>2, <1>4
  <1>7. Sampled' = {[metric |-> metrics[result'[q].at], at |-> 0] : q \in DOMAIN result'}
    BY <1>5 DEF Sampled
  <1>8. ASSUME NEW x \in Sampled'
        PROVE  x \in Sampled \cup {[metric |-> metrics[i], at |-> 0]}
    BY <1>6, <1>7, <1>8 DEF Sampled
  <1>9. ASSUME NEW x \in Sampled \cup {[metric |-> metrics[i], at |-> 0]}
        PROVE  x \in Sampled'
    BY <1>2, <1>4, <1>7, <1>9 DEF Sampled
  <1>10. QED  BY <1>8, <1>9

\* Every step of the loop is a choice of the analyzer, or none.
LEMMA NextChooses ==
  IInv /\ [Next]_vars => [Chooses]_<<Place, Left, Sampled, Reply>>
  <1> SUFFICES ASSUME IInv, [Next]_vars
               PROVE  [Chooses]_<<Place, Left, Sampled, Reply>>
    OBVIOUS
  <1>1. CASE UseRequested
    <2>1. /\ pc = "start" /\ pc' = "loop" /\ requested # <<>> /\ metrics' = requested
          /\ i' = 1 /\ UNCHANGED result /\ DOMAIN result = {}
      BY <1>1 DEF UseRequested, IInv, Untouched
    <2>2. SubSeq(requested, 1, Len(requested)) = requested
      BY ListFacts DEF IInv, TypeOK
    <2>3. QED  BY <2>1, <2>2 DEF Place, Left, Sampled, Reply
  <1>2. CASE UseAll
    <2>1. PICK all \in Lists : metrics' = all
      BY <1>2 DEF UseAll
    <2>2. /\ pc = "start" /\ pc' = "loop" /\ requested = <<>> /\ i' = 1
          /\ UNCHANGED result /\ DOMAIN result = {}
      BY <1>2 DEF UseAll, IInv, Untouched
    <2>3. SubSeq(all, 1, Len(all)) = all
      BY ListFacts
    <2>4. Left' = all /\ Place = "list" /\ Place' = "collect" /\ Sampled' = Sampled /\ Reply' = Reply
      BY <2>1, <2>2, <2>3 DEF Place, Left, Sampled, Reply
    <2> HIDE DEF Left, Place, Reply, Sampled
    <2>5. Handler!ListMetrics("h")
      BY <2>4 DEF Of, Handler!ListMetrics, Handler!Goto, Handler!cacheVars
    <2>6. QED  BY <2>5 DEF Chooses
  <1>3. CASE ListFails
    <2>1. /\ pc = "start" /\ pc' = "failed" /\ requested = <<>> /\ DOMAIN result = {}
          /\ metrics = <<>> /\ i = 1 /\ UNCHANGED <<requested, metrics, i, result>>
      BY <1>3 DEF ListFails, IInv, Untouched
    <2>2. SubSeq(metrics, 1, Len(metrics)) = metrics
      BY ListFacts DEF IInv, TypeOK
    <2>3. /\ Place = "list" /\ Place' = "reply" /\ Left' = Left /\ Sampled' = Sampled
          /\ Reply' = [status |-> 500, answer |-> "none"]
      BY <2>1, <2>2 DEF Place, Left, Sampled, Reply
    <2> HIDE DEF Left, Place, Reply, Sampled
    <2>4. Handler!ListFails("h")
      BY <2>3 DEF Of, Handler!ListFails, Handler!Answered, Handler!Goto, Handler!cacheVars
    <2>5. QED  BY <2>4 DEF Chooses
  <1>4. CASE Skip \/ NoData \/ \E size \in Sizes : Drop(size)
    <2>1. /\ pc = "loop" /\ i <= Len(metrics) /\ i' = i + 1
          /\ UNCHANGED <<pc, metrics, result>>
      BY <1>4 DEF Skip, NoData, Drop, Advance, MayAsk, InLoop
    <2>2. Sampled' = Sampled
      BY <2>1 DEF Sampled
    <2>3. QED  BY <2>1, <2>2, TurnChooses DEF Chooses
  <1>5. ASSUME NEW size \in Sizes, KeepImportant(size) \/ KeepOrdinary(size)
        PROVE  Chooses
    <2>1. /\ pc = "loop" /\ i <= Len(metrics) /\ i' = i + 1 /\ UNCHANGED <<pc, metrics>>
      BY <1>5 DEF KeepImportant, KeepOrdinary, Advance, MayAsk, InLoop
    <2>2. QED  BY <1>5, <2>1, KeptSampled, TurnChooses DEF Chooses
  <1>6. CASE Finish
    <2>1. /\ pc = "loop" /\ pc' = "done" /\ i > Len(metrics)
          /\ UNCHANGED <<requested, metrics, i, result>>
      BY <1>6 DEF Finish
    <2>2. SubSeq(metrics, i, Len(metrics)) = <<>>
      BY <2>1, ListFacts DEF IInv, TypeOK
    <2>3. /\ Place = "collect" /\ Place' = "complete" /\ Left = <<>> /\ Left' = Left
          /\ Sampled' = Sampled /\ Reply' = Reply
      BY <2>1, <2>2 DEF Place, Left, Sampled, Reply
    <2> HIDE DEF Left, Place, Reply, Sampled
    <2>4. Handler!Prompt("h")
      BY <2>3 DEF Of, Handler!Prompt, Handler!Goto, Handler!cacheVars, Handler!locals
    <2>5. QED  BY <2>4 DEF Chooses
  <1>7. CASE UNCHANGED vars
    BY <1>7 DEF vars, Place, Left, Sampled, Reply
  <1>8. QED  BY <1>1, <1>2, <1>3, <1>4, <1>5, <1>6, <1>7 DEF Next

-----------------------------------------------------------------------------
\* The variables keep their types and the loop stays within its list.
THEOREM TypeCorrect == Spec => []TypeOK
  <1>1. IInv => TypeOK
    BY DEF IInv
  <1>2. QED  BY InitIInv, NextIInv, <1>1, PTL DEF Spec

\* The metrics that are not important stay within the budget.
THEOREM Budget == Spec => []OrdinaryWithinBudget
  <1>1. IInv => OrdinaryWithinBudget
    BY DEF IInv
  <1>2. QED  BY InitIInv, NextIInv, <1>1, PTL DEF Spec

\* The prompt has the important metrics first, each group in its order.
THEOREM Ordered == Spec => []PromptOrder
  <1>1. IInv => PromptOrder
    BY DEF IInv
  <1>2. QED  BY InitIInv, NextIInv, <1>1, PTL DEF Spec

\* No important metric that has data is missing from the prompt.
THEOREM Complete == Spec => []ImportantKept
  <1>1. IInv => ImportantKept
    BY DEF IInv
  <1>2. QED  BY InitIInv, NextIInv, <1>1, PTL DEF Spec

\* Nothing is left out that would still fit beside the rest of the prompt.
THEOREM NoneOmittedInVain == Spec => []OmittedWouldNotFit
  <1>1. IInv => OmittedWouldNotFit
    BY DEF IInv
  <1>2. QED  BY InitIInv, NextIInv, <1>1, PTL DEF Spec

\* The running total of the loop is the cost of the prompt it has made.
THEOREM Accounted == Spec => []TotalIsCost
  BY InitIInv, NextIInv, InitCosts, NextCosts, PTL DEF Spec

\* What the loop does with its metrics, a handler of Analyzer may do: Analyzer
\* leaves nothing out by not knowing the budget.
THEOREM Choice == Spec => ImplementsAnalyzer
  <1>1. Init => Sampled = {} /\ Left = requested
    BY DEF Init, Sampled, Left
  <1>2. QED  BY <1>1, InitIInv, NextIInv, NextChooses, PTL DEF Spec, ImplementsAnalyzer
=============================================================================
