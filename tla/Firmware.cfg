\* From the link to the air: identities and positions that come and go.
CONSTANTS
    Texts <- MCTexts
    IdTypes <- MCIdTypes
    Coordinates <- MCCoordinates
    LocationTypes <- MCLocationTypes
    Areas <- MCAreas
    Configurations <- MCConfigurations
    Inputs <- MCInputs
    Readers = {ble4}
    QueueLen = 1
    AuthEnabled = FALSE
    EncodableIdTypes <- MCIdTypes
    EncodableCoordinates <- MCEncodableCoordinates
    AdvResults = {"ok"}
    CounterMod = 1
    TargetSystem = 1
    TargetComponent = 1
    Vehicles <- MCVehicles
    Aircraft = 1
    OdidMessages <- MCMessages
    Traffics <- MCTraffics
    UartLen = 1
    MaxArmings = 0
SPECIFICATION FirmwareSpec
PROPERTIES EverySlotKeepsAiring OutageSilences AirFollowsState LinkIdentityAirs
