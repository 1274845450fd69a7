\* Two servers poll a store; up to three rows, in batches of two.
SPECIFICATION FairSpec
CONSTANTS
    data = data
    receipt = receipt
    s1 = s1
    s2 = s2
    Event <- MC_Event
    Receipt <- MC_Receipt
    Server <- MC_Server
    BatchLimit = 2
    ReceiptCap = 1
    MaxRows = 3
    MaxFaults = 2
INVARIANTS
    TypeOK
    NothingDroppedUnpublished
    FirstPublishInOrder
    RepeatOnlyAfterFailedMark
PROPERTIES
    ImplementsOrderedDelivery
    EveryRowPublished
CHECK_DEADLOCK FALSE
