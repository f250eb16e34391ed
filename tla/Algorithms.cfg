\* Every text of six tokens, every byte of a signature, every value of the clock.
CONSTANTS
    Base64 <- MCBase64
    Quantum = 2
    KeyLen = 2
    KeyPrefix <- MCKeyPrefix
    Capacity = 3
    MaxText = 6
    SignatureSize = 64
    ClockMod = 5296
    Phases = {0, 500, 3110}
    RoundTimes = {20, 30, 60}
SPECIFICATION Spec
INVARIANTS AcceptedKeyIsWhole LayoutDoesNotMatter SignatureArrives LightsFollowPattern
PROPERTY NoFlashMissed
