SPECIFICATION Spec
CONSTANT MaxOps = 1
INVARIANT SlotIsCaptured
