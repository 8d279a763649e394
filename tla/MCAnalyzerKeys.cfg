\* Two lists of metrics whose names run together to the same text.
SPECIFICATION Spec
CONSTANTS
    Handlers = {h1}
    Bodies <- MixedBodies
    Listings = {}
    TTL = 1
    MaxTime = 1
    MaxRestarts = 0
    None = None
    q = q
    utc = utc
    a = a
    b = b
INVARIANT AnswerForSameMetrics
