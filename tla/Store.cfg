\* One reader and a queue of two: each of store.c's preemption points with
\* each type of update, behind and ahead of another.
CONSTANTS
    Texts <- MCTexts
    IdTypes <- MCIdTypes
    Coordinates <- MCCoordinates
    LocationTypes <- MCLocationTypes
    Areas <- MCAreas
    Configurations <- MCConfigurations
    Inputs <- MCInputs
    Readers = {r1}
    QueueLen = 2
SPECIFICATION LiveSpec
INVARIANTS TypeOK ReadyBitAgrees IInv
PROPERTIES ImplementsAtomicStore AcceptedUpdatesApplied
