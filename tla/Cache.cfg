CONSTANTS
    f1 = f1
    f2 = f2
    Worker = {w1, w2}
    File <- MCFile
    Reads <- MCReads
    Versions <- MCVersions
    MaxImages = 2
    MaxEncoded = 4
    MaxDecoded = 3
    MaxSequences = 1
    Bound = 2
    Pixels = 1
    Derived = 1
    NoOne = NoOne
    NoEntry = NoEntry
    MaxReads = 2
    MaxDecodes = 2
    MaxLeases = 2
SPECIFICATION Spec
SYMMETRY Symmetry
INVARIANTS
    ServesContent
    BudgetsKept
    PixelsOfBytes
PROPERTIES
    KeepsPinned
