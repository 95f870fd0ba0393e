SPECIFICATION Spec
CONSTANTS
    MaxBytes = 3
    Texts <- SomeTexts
    Chunk = 2
    MaxChanges = 3
INVARIANTS TypeOK WholeFile
PROPERTIES ReadEnds
