SPECIFICATION FairSpec
CONSTANTS
    NSlots = 3
    Parts = {osc, params, mods}
    Producers = {ui, host}
    NoProducer = NoProducer
    MaxRestores = 4
INVARIANTS
    TypeOK
    OneOwnerPerSlot
    RenderSeesWholeCanonicalRoot
    NewestNeverLost
PROPERTIES
    RestoresInOrder
    NewestEventuallyLive
    ImplementsLatestValue
CHECK_DEADLOCK FALSE
