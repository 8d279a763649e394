\* The code's own numbers.  The texts cost 200, 9800, 20000 (the whole budget)
\* and 20001 tokens (one more than the budget).
SPECIFICATION Spec
CONSTANTS
    Metrics = {cpu, memory, up, http}
    Important = {cpu, memory}
    Sizes = {291, 29091, 59691, 59694}
    BaseTokens = 100
    MaxInputTokens = 20000
    MaxMetrics = 4
SYMMETRY Symmetric
CHECK_DEADLOCK FALSE
INVARIANTS
    TypeOK
    OrdinaryWithinBudget
    PromptOrder
    ImportantKept
    OmittedWouldNotFit
    TotalIsCost
PROPERTY ImplementsAnalyzer
