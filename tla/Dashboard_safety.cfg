SPECIFICATION FairSpec
INVARIANTS
    PageInv
    FetchedIsDrawn
PROPERTY Settles
CONSTANTS
    None = None
    Units <- MCUnits
    Ranges <- MCRanges
    ShortRanges <- MCShort
    Requests <- MCRequests
    MaxLate = 1
    MaxActs = 2
    MaxFailures = 1
