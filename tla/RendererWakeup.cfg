SPECIFICATION Spec
CONSTANT MaxConds = 2
INVARIANT SignalIsMapped
