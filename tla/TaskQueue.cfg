SPECIFICATION FairSpec
CONSTANTS
    Clients = {c1, c2}
    Capacity = 2
    MaxCrashes = 1
    None = None
    Configs <- MCConfigs
INVARIANTS TypeOK OutcomeIsOwn AtMostOnce SessionWasServed
PROPERTIES Responded QueueDrains ImplementsService
CHECK_DEADLOCK FALSE
