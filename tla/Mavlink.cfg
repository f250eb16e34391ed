\* Two autopilots, fixes that come and go: when a takeoff is captured, and which.
CONSTANTS
    Texts <- MCTexts
    IdTypes <- MCIdTypes
    Coordinates <- MCCoordinates
    LocationTypes <- MCLocationTypes
    Areas <- MCAreas
    Configurations <- MCConfigurations
    Inputs <- MCInputs
    Readers = {}
    QueueLen = 2
    TargetSystem = 1
    TargetComponent = 1
    Vehicles <- MCVehicles
    Aircraft = 1
    OdidMessages <- MCMessages
    UartLen = 1
    MaxArmings = 2
SPECIFICATION MavlinkSpec
INVARIANTS MavlinkTypeOK CapturesNeedArmings
PROPERTY TakeoffCapturesArmPosition
