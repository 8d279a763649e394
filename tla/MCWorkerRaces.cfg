\* Two calls under way at once: those that a client has given up, or that its
\* predecessor has sent, go on beside the next ones, before and after a kill.
SPECIFICATION WorkerSpec
CONSTANTS
    Clients = {c1}
    Handlers = {h1, h2}
    Operators = {}
    Requests <- Calls
    Commands <- NoOrders
    MaxKills = 1
    MaxStops = 1
    Names = {red, blue}
    Members = {ann, bob}
    Solutions = {sol}
    BestTeam = red
    BestMembers = ann
    BestSolution = sol
    Empty = Empty
    None = None
    red = red
    blue = blue
    ann = ann
    bob = bob
    sol = sol
SYMMETRY Symmetric
INVARIANT MembersAsCreated
