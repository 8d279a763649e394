\* Every reply of up to five tokens.
SPECIFICATION Spec
CONSTANTS
    Numbers = {percent, dots}
    Parsed <- Reading
    Default = Default
    Words = {}
    Alphabet <- Tokens
    MaxTokens = 5
    None = None
    percent = percent
    dots = dots
CHECK_DEADLOCK FALSE
INVARIANTS
    TypeOK
    MentionsCovered
    ValueFromOwnLine
    FindsAllMatches
    LineByLine
    FirstNumberCounts
