SPECIFICATION Spec
CONSTANTS
    Uploads = {u1, u2}
    Chunks = {"x", "y"}
    Zero = "x"
    MaxSize = 2
    Exts = {"jpg", "mov"}
    ImageExts = {"jpg"}
    DeviceAssets = {"d"}
    Requests <- MCRequests
    Sends <- MCSends
    MaxTrouble = 0
    Nil = Nil
INVARIANT NoLostOriginal
CHECK_DEADLOCK FALSE
