SPECIFICATION InboxSpec
CHECK_DEADLOCK FALSE
CONSTANTS
    Requests = {q1, q2, q3}
    Decisions = {d1}
    NoRequest = NoRequest
    Keys <- MCKeys
    EmptyKey = EmptyKey
    NoKey = NoKey
    key1 = key1
    Pubkeys = {}
    NoOwner = NoOwner
    HubKey = HubKey
    MaxTime = 1
    MaxFaults = 0
    Inputs <- InboxInputs
    Verdicts <- InboxVerdicts
    Users = {u1}
    Limit = 1
SYMMETRY InboxSymmetry
PROPERTY LeavesForAReason
