\* A question about the past.
SPECIFICATION Spec
CONSTANTS
    Handlers = {h1}
    Bodies <- OneBody
    Listings = {}
    TTL = 1
    MaxTime = 2
    MaxRestarts = 0
    None = None
    q = q
    utc = utc
    a = a
    b = b
INVARIANT DataFromTimeRange
