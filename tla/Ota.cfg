\* Every fault, at every step of every handler, and devices without some.
CONSTANTS
    v1 = v1
    v2 = v2
    k1 = k1
    junk = junk
    Images <- MCImages
    Values <- MCValues
    Keys <- MCKeys
    AuthEnabled = TRUE
    NoImage = NoImage
    NoKey = NoKey
    FaultSets <- MCFaultSets
SPECIFICATION LiveSpec
INVARIANTS TypeOK SomeImageBoots RunningImageIntact
PROPERTIES AcceptedImageBoots AnswersAreFollowedByRestart AbortedDeviceReachable
