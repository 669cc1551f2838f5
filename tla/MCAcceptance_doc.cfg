CONSTANTS
    a = a
    b = b
    Root = {a, b}
    Offers <- SomeOffers
    V1Receipts <- OldReceipts
SPECIFICATION Spec
PROPERTIES
    PinnedUntilAcknowledged
