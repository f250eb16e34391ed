\* The identity goes away between the test of the bit and the snapshot.
CONSTANTS
    Texts <- MCTexts
    IdTypes <- MCIdTypes
    Coordinates <- MCCoordinates
    LocationTypes <- MCLocationTypes
    Areas <- MCAreas
    Configurations <- MCConfigurations
    Inputs <- MCIdentityInputs
    Readers = {ble4}
    QueueLen = 1
    AuthEnabled = FALSE
    EncodableIdTypes <- MCEncodableIdTypes
    EncodableCoordinates <- MCEncodableCoordinates
    AdvResults = {"ok"}
    CounterMod = 1
SPECIFICATION Spec
INVARIANT OnlyUsableIdentityOnAir
