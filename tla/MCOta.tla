-------------------------------- MODULE MCOta --------------------------------
(* Two images, so that an update can be told from what it replaces, a key *)
(* and a value that is none; devices with no fault, with some, with all.   *)
EXTENDS OtaServer

CONSTANTS v1, v2, k1, junk

MCImages == {v1, v2}
MCValues == {k1, junk}
MCKeys == {k1}

MCFaultSets ==
    {{}, {"nvs_erase"}, {"power"}, {"power", "timer", "nvs_erase", "server"}}

=============================================================================
