SPECIFICATION FairSpec
CONSTANTS
    Id = {i1}
    n1 = n1
    n2 = n2
    Node = {n1, n2}
    Name = {a}
    Blank = Blank
    TooLong = TooLong
    NoDiagram = NoDiagram
    Caller = {w1, w2}
    Nobody = Nobody
    Sent <- MCSent
    OnDisk <- MCOnDisk
    MaxWrites = 3
    IoErrors = TRUE
INVARIANTS TypeOK WriterHasLatest TagIdentifiesVersion
PROPERTIES ConditionalPutReplacesItsVersion VersionsAdvance DeletedStaysDeleted NoNewDanglingEdge ServiceIsAtomic EveryCallReturns
