SPECIFICATION Spec
CONSTANTS
    Types <- TwoTypes
    NameLength <- MCNameLength
    MaxText = 4
    MaxPrompt = 3
    MaxEdit = 2
INVARIANTS TypeOK OnePlaceholderPerValue RoundTripExact RestoredAtOnce
