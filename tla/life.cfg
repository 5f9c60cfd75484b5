SPECIFICATION Spec
CONSTANTS
    NumWqs = 2
    NumEngines = 2
    NumGroups = 1
INVARIANT Balanced
INVARIANT QueuesBalanced
