SPECIFICATION Spec
CONSTANT NEndpoints = 1
INVARIANT NoHandlerOutlives
