\* One client whose calls time out and are overtaken, two of them under way at
\* once, an operator who turns all switches on, panics, and one kill.
SPECIFICATION Spec
CONSTANTS
    Clients = {c1}
    Handlers = {h1, h2}
    Operators = {o1}
    Requests <- Rivals
    Commands <- AllOn
    MaxKills = 1
    Names = {red}
    Members = {ann, bob}
    Solutions = {sol}
    Empty = Empty
    None = None
    red = red
    ann = ann
    bob = bob
    sol = sol
SYMMETRY Symmetric
INVARIANTS
    TypeOK
    RepliesRespectConfirmed
PROPERTY TeamLostOnlyToRegisterRace
