SPECIFICATION Spec
CONSTANT p1 = p1
CONSTANT p2 = p2
CONSTANT NoProc = NoProc
CONSTANT Procs = {p1, p2}
CONSTANT Images <- MCImages
CONSTANT Unfit <- MCUnfit
CONSTANT Dull <- MCDull
CONSTANT Admit <- Best
CONSTANT MaxFaults = 1
CONSTANT MaxRetries = 1
INVARIANT TurnedDownStaysOut
INVARIANT NoImageLost
INVARIANT ResultsAreCurrent
PROPERTY ScoresAreKept
CHECK_DEADLOCK FALSE
SYMMETRY ProcSymmetry
