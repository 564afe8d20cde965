SPECIFICATION FairSpec
CHECK_DEADLOCK FALSE
CONSTANTS
    Calls = {c1, c2, c3}
    NoCall = NoCall
    MaxFaults = 3
INVARIANTS OneEngine SchemaReady PoolsBounded NotifyReady
PROPERTIES HubComesUp ImplementsSingleton
