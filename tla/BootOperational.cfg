\* Nothing fails at all.
CONSTANTS
    Ble = {ble}
    Outputs <- MCOutputs
    MaxFaults = 0
SPECIFICATION Spec
INVARIANT OperationalMeansStarted
