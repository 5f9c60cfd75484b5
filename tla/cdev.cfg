SPECIFICATION Spec
CONSTANTS
    NumFiles = 2
    NumPasids = 2
    Batchers = {1}
    EvlSize = 3
    MaxBinds = 2
INVARIANT EvlServiced
INVARIANT RecordsRight
 
CHECK_DEADLOCK FALSE
