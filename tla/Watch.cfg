SPECIFICATION FairWatchSpec
CHECK_DEADLOCK FALSE
CONSTANTS
    Requests = {q1}
    Decisions = {d1}
    Watchers = {w1, w2}
    NoRequest = NoRequest
    Keys <- MCKeys
    EmptyKey = EmptyKey
    NoKey = NoKey
    key1 = key1
    Pubkeys <- MCPubkeys
    alice = alice
    NoOwner = NoOwner
    HubKey = HubKey
    MaxTime = 1
    MaxFaults = 0
    Inputs <- MCInputs
    Verdicts <- MCVerdicts
    Questions <- MCQuestions
INVARIANTS ToldTheDecision ToldThePayload
PROPERTIES AnswersAge EveryWaitEnds
