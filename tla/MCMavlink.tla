------------------------------ MODULE MCMavlink ------------------------------
(* The aircraft is system 1; another autopilot, system 2, shares the link.  *)
EXTENDS MavlinkInput

MCTexts == {"", "CHANGE_ME_UAS_ID", "CHANGE_ME_OP_ID", "ID"}
MCIdTypes == {1}
MCCoordinates == {0, 5, 7}
MCLocationTypes == {"TAKEOFF", "LIVE_GNSS"}
MCAreas == {1, 2}

MCConfigurations ==
    {ModelInit("ID", "ID", 1, FALSE, 0, 0), ModelInit("ID", "ID", 1, TRUE, 7, 7)}

MCInputs == Updates
MCVehicles == {1, 2}

LocationMsg(ts, lat) ==
    [msgid |-> "LOCATION", target_system |-> ts, target_component |-> 1,
     latitude |-> lat, longitude |-> lat]

SystemMsg ==
    [msgid |-> "SYSTEM", target_system |-> 0, target_component |-> 0,
     operator_latitude |-> 7, operator_longitude |-> 0,
     operator_location_type |-> "LIVE_GNSS", area_count |-> 2]

Attitude == [msgid |-> "ATTITUDE"]

\* Two messages the unit ignores: another system's, and an unknown one.
MCMessages ==
    {LocationMsg(1, 5), LocationMsg(0, 0), LocationMsg(2, 7), SystemMsg, Attitude}

=============================================================================
