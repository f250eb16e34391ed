-------------------------------- MODULE MCBle --------------------------------
(* One transport, for the transports share nothing but the store; each run *)
(* takes the updates its question is about.                                *)
EXTENDS BleTransport

MCTexts == {"", "CHANGE_ME_UAS_ID", "CHANGE_ME_OP_ID", "ID", "ID2"}
MCIdTypes == {1, 16}
MCEncodableIdTypes == {1}
MCCoordinates == {0, 5, 91}
MCEncodableCoordinates == {0, 5}
MCLocationTypes == {"TAKEOFF"}
MCAreas == {1}

\* Placeholders in flash, to be replaced over MAVLink; and a complete build.
Placeholders == ModelInit("CHANGE_ME_UAS_ID", "ID", 1, FALSE, 0, 0)
Complete == ModelInit("ID", "ID", 1, FALSE, 0, 0)
MCConfigurations == {Placeholders, Complete}
MCCompleteOnly == {Complete}

BasicId(text, id_type) == [type |-> "BASIC_ID", uas_id |-> text, id_type |-> id_type]
Location(lat) ==
    [type |-> "LOCATION", has_position |-> lat # 0, latitude |-> lat, longitude |-> 0]

MCOutageInputs == {BasicId("ID", 1), BasicId("", 16)}
MCAuthInputs == {BasicId("", 1), BasicId("ID2", 1), Location(5), Takeoff}
MCIdentityInputs == {BasicId("ID", 1), BasicId("", 1)}
MCFailingIdentity == {BasicId("ID", 16)}

=============================================================================
