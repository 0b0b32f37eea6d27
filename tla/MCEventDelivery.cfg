CONSTANTS
    Entity = {pr, commit}
    Recrawled = {pr}
    MaxDeliver = 2
    Persistent = TRUE
    MaxVersion = 2
    MaxPending = 2
    MaxFaults = 3
SPECIFICATION Spec
INVARIANTS TypeOK NothingLostInDelivery
PROPERTIES PublishedIsStored RecrawledConverges
