SPECIFICATION Spec
CHECK_DEADLOCK FALSE
CONSTANTS
    Calls = {c1}
    Asks <- MCAsks
    NoPlugin = NoPlugin
INVARIANTS AcceptedComplete ChainComplete ConflictsPosted
