\* A client with two teams whose calls time out, an operator who plays with the
\* switches, panics that end the server, and one stop of the client.
SPECIFICATION FairWorkerSpec
CONSTANTS
    Clients = {c1}
    Handlers = {h1}
    Operators = {o1}
    Requests <- Calls
    Commands <- Orders
    MaxKills = 0
    MaxStops = 1
    Names = {red, blue}
    Members = {ann, bob}
    Solutions = {sol}
    BestTeam = red
    BestMembers = ann
    BestSolution = sol
    Empty = Empty
    None = None
    red = red
    blue = blue
    ann = ann
    bob = bob
    sol = sol
INVARIANT WorkerTypeOK
PROPERTIES
    HandlersEnd
    Heals
