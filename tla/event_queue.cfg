SPECIFICATION FairSpec
CONSTANTS
    Clients = {c1, c2}
    QueueLen = 3
    Codes = {k1}
    Texts = {t1, t2, t3}
    Nothing = Nothing
INVARIANTS
    TextsHaveOneOwner
PROPERTIES
    IsFifo
    TextIsDelivered
