SPECIFICATION FairSpec
CONSTANTS
    Client = {c1, c2}
    Asks <- PlainReads
    MaxClients = 2
    CompactGenerations = 1
    QuietPolls = 2
    MaxFaults = 1
    None = None
INVARIANTS
    NoLostUpdate
    StoreIsLog
    ImageIsDurablePrefix
    ShownIsDurable
PROPERTIES
    PoisonFences
    ImplementsAtomicHistory
    Drains
    SlotsReturn
    QuietServerCompacts
