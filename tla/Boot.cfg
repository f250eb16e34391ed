\* One BLE transport; two faults of the start, the host or a transport.
CONSTANTS
    Ble = {ble}
    Outputs <- MCOutputs
    MaxFaults = 2
SPECIFICATION LiveSpec
INVARIANTS TypeOK ContextsAreSound LightsWaitForIdentity
PROPERTIES LightsGoOut TransportsComeUp
