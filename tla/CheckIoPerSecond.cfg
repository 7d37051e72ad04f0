SPECIFICATION Spec
CONSTANTS
    sda = sda
    sdb = sdb
    Disks <- MCDisks
    Args <- MCArgs
    Starts <- MCFromZero
    Work <- MCWork
    Size <- MCSize
    MaxSize <- MCMaxSize
    BusyPerSecond <- MCBusyPerSecond
SYMMETRY MCSymmetry
INVARIANTS
    ThresholdsPerSecond
CHECK_DEADLOCK FALSE
