-------------------------------- MODULE MCWifi --------------------------------
(* Either task alone, for the two share nothing but the store. *)
EXTENDS WifiTransport

MCTexts == {"", "CHANGE_ME_UAS_ID", "CHANGE_ME_OP_ID", "ID"}
MCIdTypes == {1}
MCCoordinates == {0, 5, 91}
MCEncodableCoordinates == {0, 5}
MCLocationTypes == {"TAKEOFF"}
MCAreas == {1}

MCConfigurations == {ModelInit("CHANGE_ME_UAS_ID", "ID", 1, FALSE, 0, 0)}

BasicId(text) == [type |-> "BASIC_ID", uas_id |-> text, id_type |-> 1]
Location(lat) ==
    [type |-> "LOCATION", has_position |-> lat # 0, latitude |-> lat, longitude |-> 0]

\* 91: a latitude the encoder refuses.
MCInputs == {BasicId("ID"), BasicId(""), Location(5), Location(91)}

MCReaders == {"beacon", "nan"}
MCBuilds == {{"beacon"}, {"nan"}}

=============================================================================
