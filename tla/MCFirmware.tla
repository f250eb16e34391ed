----------------------------- MODULE MCFirmware -----------------------------
(* One transport behind a link that keeps its queue of one full at times.  *)
EXTENDS Firmware

MCTexts == {"", "CHANGE_ME_UAS_ID", "CHANGE_ME_OP_ID", "ID", "ID2"}
MCIdTypes == {1}
MCCoordinates == {0, 5, 91}
MCEncodableCoordinates == {0, 5}
MCLocationTypes == {"TAKEOFF"}
MCAreas == {1}

MCConfigurations == {ModelInit("ID", "ID", 1, FALSE, 0, 0)}

BasicIdMsg(text) ==
    [msgid |-> "BASIC_ID", target_system |-> 0, target_component |-> 0,
     uas_id |-> text, id_type |-> 1]

LocationMsg(lat) ==
    [msgid |-> "LOCATION", target_system |-> 1, target_component |-> 1,
     latitude |-> lat, longitude |-> 0]

\* An identity that comes and goes; a new identity and a position; positions
\* of which one cannot be encoded.
MCTraffics ==
    {{BasicIdMsg("ID"), BasicIdMsg("")}, {BasicIdMsg("ID2"), LocationMsg(5)},
     {LocationMsg(5), LocationMsg(91)}}
MCMessages == UNION MCTraffics
MCInputs == {OdidUpdate(m) : m \in MCMessages} \cup {Takeoff}
MCVehicles == {1}

=============================================================================
