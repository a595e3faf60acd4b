CONSTANTS
    w1 = w1  w2 = w2  w3 = w3
    Writers <- MCWriters
    Old = old
    Torn = torn
SPECIFICATION Spec
SYMMETRY MCSymmetry
INVARIANTS TypeOK OnlyFinishedFilesShow ErrorMeansUntouched OkMeansDurable
PROPERTIES ImplementsRegister
\* Every call has returned or died.
CHECK_DEADLOCK FALSE
