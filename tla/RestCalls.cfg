SPECIFICATION RestSpec
CHECK_DEADLOCK FALSE
CONSTANTS
    Requests = {q1, q2}
    Decisions = {d1, d2}
    NoRequest = NoRequest
    Keys <- MCKeys
    EmptyKey = EmptyKey
    NoKey = NoKey
    key1 = key1
    Pubkeys <- MCPubkeys
    alice = alice
    NoOwner = NoOwner
    HubKey = HubKey
    MaxTime = 1
    MaxFaults = 1
    Inputs <- MCInputs
    Verdicts <- MCVerdicts
    Bodies <- MCBodies
    Resolutions <- MCResolutions
    DefaultTimeout = 300
SYMMETRY RestSymmetry
INVARIANTS RefusedLeavesNothing AcceptedIsDone RetryFindsRow ApprovedExplicitly
