SPECIFICATION Spec
CONSTANTS
    Params <- MCParams
    Values <- MCValues
    Default = "v0"
INVARIANTS
    TypeOK
    LibraryGuarded
    Balanced
PROPERTIES
    SavedSurvive
    
    RequestEnds
