\* Prometheus or the model never answers: the configured query timeout is not
\* used, nor any other.
SPECIFICATION FairSpec
CONSTANTS
    Handlers = {h1}
    Bodies <- OneBody
    Listings = {}
    TTL = 1
    MaxTime = 2
    MaxRestarts = 0
    None = None
    q = q
    utc = utc
    a = a
    b = b
PROPERTY RequestsEnd
