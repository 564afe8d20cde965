SPECIFICATION FairSpec
CHECK_DEADLOCK FALSE
CONSTANTS
    Requests = {q1}
    Decisions = {d1, d2}
    NoRequest = NoRequest
    Keys <- MCKeys
    EmptyKey = EmptyKey
    NoKey = NoKey
    key1 = key1
    key2 = key2
    Pubkeys <- MCPubkeys
    alice = alice
    bob = bob
    NoOwner = NoOwner
    HubKey = HubKey
    MaxTime = 1
    MaxFaults = 1
    Inputs <- LiveInputs
    Verdicts <- FewVerdicts
PROPERTIES EveryCallReturns PendingSettles OwnerAnswerCounts EffectsFollow
