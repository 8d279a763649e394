\* The operator orders panics, and a second call is sent after the first one
\* has ended the process.
SPECIFICATION Spec
CONSTANTS
    Clients = {c1}
    Handlers = {h1}
    Operators = {o1}
    Requests <- JustBoard
    Commands <- PanicOnly
    MaxKills = 0
    Names = {red}
    Members = {ann, bob}
    Solutions = {sol}
    Empty = Empty
    None = None
    red = red
    ann = ann
    bob = bob
    sol = sol
INVARIANT PanicWhileOrdered
