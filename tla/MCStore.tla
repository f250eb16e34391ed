------------------------------- MODULE MCStore -------------------------------
(* One reader that may always be reading, and one update of each type,     *)
(* with a second Basic ID and Operator ID that are not usable.             *)
EXTENDS Store

MCTexts == {"", "CHANGE_ME_UAS_ID", "CHANGE_ME_OP_ID", "ID"}
MCIdTypes == {1, 2}
MCCoordinates == {0, 5}
MCLocationTypes == {"TAKEOFF", "LIVE_GNSS"}
MCAreas == {1, 2}

MCConfigurations ==
    {ModelInit("CHANGE_ME_UAS_ID", "ID", 1, FALSE, 0, 0),
     ModelInit("ID", "ID", 2, TRUE, 5, 5)}

MCInputs ==
    {[type |-> "BASIC_ID", uas_id |-> "ID", id_type |-> 2],
     [type |-> "BASIC_ID", uas_id |-> "", id_type |-> 1],
     [type |-> "OPERATOR_ID", operator_id |-> "CHANGE_ME_OP_ID"],
     [type |-> "OPERATOR_ID", operator_id |-> "ID"],
     [type |-> "LOCATION", has_position |-> TRUE, latitude |-> 5, longitude |-> 5],
     [type |-> "SYSTEM", has_operator_position |-> FALSE,
      operator_latitude |-> 0, operator_longitude |-> 0,
      operator_location_type |-> "LIVE_GNSS", area_count |-> 2],
     Takeoff}

=============================================================================
