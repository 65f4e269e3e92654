SPECIFICATION FairSpec
CONSTANTS
    File = {f1, f2}
    Fd = {0, 1, 2, 3, 4}
    None = None
    Std = Std
    Versions = {"2.27", "2.32"}
INVARIANTS OwnPipe TableClean SealedWhenOpen
PROPERTY PcloseReturns
