\* Two processes share <dest>.tmp; nothing fails.
CONSTANTS
    Processes = {p1, p2}
    Inodes = {i1, i2, i3, i4, i5, i6, i7, i8, i9}
    Nil = Nil
    Chunks = 2
    MaxTries = 1
    IoMayFail = FALSE
    FlushMayFail = FALSE
    MaxDeaths = 0
SPECIFICATION AssetsSpec
INVARIANT DestIsWhole
