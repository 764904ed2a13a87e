SPECIFICATION Spec
CONSTANTS
    Nodes = {a, b}
    Configs <- MCConfigs
    Lengths <- MCLengths
SYMMETRY MCSymmetry
INVARIANTS
    TypeOK
    AlikeHear
    HearAlike
