\* Requests of up to two items on a small tree over two devices.
SPECIFICATION Spec
CONSTANTS
    Dirs = {"a", "b", "c"}
    DeviceOf <- MCDeviceOf
    Names <- MCNames
    CopyOf <- MCCopyOf
    Inner = {"f", "g"}
    Self = "self"
    Contents = {"s", "u", "v", "w", "y", "z"}
    Links = {"link", "near", "top", "lost"}
    LeadsTo <- MCLeadsTo
    Trees <- MCTrees
    MaxSources = 2
    MaxJobs = 1
INVARIANTS ItemStaysWhole TheRestIsUntouched DoneMeansDone
PROPERTIES EveryRequestEnds
CHECK_DEADLOCK FALSE
