SPECIFICATION Spec
CHECK_DEADLOCK FALSE
CONSTANTS
    Requests = {q1, q2, q3}
    Decisions = {}
    NoRequest = NoRequest
    Keys <- MCKeys
    EmptyKey = EmptyKey
    NoKey = NoKey
    key1 = key1
    key2 = key2
    Pubkeys <- MCPubkeys
    alice = alice
    bob = bob
    NoOwner = NoOwner
    HubKey = HubKey
    MaxTime = 1
    MaxFaults = 1
    Inputs <- RetryInputs
    Verdicts <- NoVerdicts
SYMMETRY RequestSymmetry
INVARIANTS TypeOK OneRequestPerKey InboxMatchesTable PublishedUnlessFault
PROPERTY ImplementsRegistry
