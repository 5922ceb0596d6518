\* No import uses an original that another one is making; handlers run to their end and
\* clients repeat.
SPECIFICATION FairSpec
CONSTANTS
    Uploads = {u1, u2}
    Chunks = {"x", "y"}
    Zero = "x"
    MaxSize = 2
    Exts = {"jpg", "mov"}
    ImageExts = {"jpg"}
    DeviceAssets = {"d"}
    Requests <- MCRequests
    Sends <- MCSends
    MaxTrouble = 1
    Nil = Nil
INVARIANTS
    OriginalsAreWhole
    NoLostOriginal
    AckedBytesSurvive
    CompletedIsWhole
PROPERTIES
    ImplementsArchive
    SessionProgress
    Settles
CHECK_DEADLOCK FALSE
