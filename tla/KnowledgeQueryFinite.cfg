SPECIFICATION Spec
CONSTANTS
    alpha = alpha
    beta = beta
    gamma = gamma
    Projects <- TheProjects
    MaxTopK = 3
    Sizes <- SmallSizes
    FieldLimit = 2
    ResultLimit = 4
    Numbers <- SmallNumbers
    Closeness <- Rounding
SYMMETRY Symmetric
INVARIANTS NonFiniteRefused
