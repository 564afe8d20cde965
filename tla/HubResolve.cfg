SPECIFICATION Spec
CHECK_DEADLOCK FALSE
CONSTANTS
    Requests = {q1}
    Decisions = {d1, d2, d3}
    NoRequest = NoRequest
    Keys <- MCKeys
    EmptyKey = EmptyKey
    NoKey = NoKey
    key1 = key1
    key2 = key2
    Pubkeys <- MCPubkeys
    alice = alice
    bob = bob
    NoOwner = NoOwner
    HubKey = HubKey
    MaxTime = 1
    MaxFaults = 1
    Inputs <- ResolveInputs
    Verdicts <- FewVerdicts
SYMMETRY RequestSymmetry
INVARIANTS OwnerDecides LateRefused DecisionMatchesPayload MemoriumAgrees
PROPERTIES SettledForGood ImplementsConfirmation
