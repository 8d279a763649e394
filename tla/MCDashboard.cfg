\* Three questions and three errors, answered and hidden in every order.
SPECIFICATION FairSpec
CONSTANTS
    MaxClicks = 3
    MaxErrors = 3
    None = None
CHECK_DEADLOCK FALSE
INVARIANTS
    TypeOK
    BusyTellsPending
    VisibleErrorTimed
PROPERTIES
    OlderOnlyInRace
    PageSettles
