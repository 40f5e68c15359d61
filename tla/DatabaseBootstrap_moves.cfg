SPECIFICATION Spec
CONSTANTS
    None = None
    MaxCuts = 3
INVARIANTS MovesTogether
