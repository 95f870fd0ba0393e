SPECIFICATION RememberingSpec
CONSTANTS
    Length = 4
    MaxHits = 2
    MaxAnalysed = 1
    MaxWhite = 1
    MaxBlack = 1
    MaxEntities = 3
INVARIANTS SecretsMasked
