\* Two handlers that ask the same question about two time ranges, entries
\* that expire while they run, upstream calls that fail but are answered, and
\* one restart.
SPECIFICATION LiveSpec
CONSTANTS
    Handlers = {h1, h2}
    Bodies <- Overlapping
    Listings <- NoMetric
    TTL = 1
    MaxTime = 2
    MaxRestarts = 1
    None = None
    q = q
    utc = utc
    a = a
    b = b
INVARIANTS
    TypeOK
    AnswerMatchesKey
    AnswerFitsRequest
    DuplicateOnlyWhenRacing
PROPERTY RequestsEnd
