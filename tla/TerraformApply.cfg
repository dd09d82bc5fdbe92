SPECIFICATION FairSpec
CONSTANTS
    one = one
    two = two
    stranger = stranger
    Kinds <- AllKinds
    Owners <- Two
    First = one
    Stranger = stranger
    MaxId = 6
    MaxEvents = 2
INVARIANTS
    TypeOK
    
    RestKept
    NoDuplicateRows
    NoDanglingRule
    DestroyedIsGone
PROPERTIES
    OwnRowsOnly
    
