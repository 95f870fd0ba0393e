SPECIFICATION Spec
CONSTANTS
    Length = 4
    MaxHits = 4
    MaxAnalysed = 1
    MaxWhite = 1
    MaxBlack = 2
    MaxEntities = 3
INVARIANTS TypeOK KeptDisjoint LostToLonger RewrittenExactly WhitelistKeepsSecrets
