------------------------------- MODULE Encoding -------------------------------
(***************************************************************************)
(* src/remoteid/remoteid/encode.c: the four OpenDroneID messages made from *)
(* a copy of the state, singly for the bundle of a BLE task and together   *)
(* for the message pack of a Wi-Fi frame.  The encoders of the OpenDroneID *)
(* library are external: they refuse a value out of its field's range.     *)
(***************************************************************************)
EXTENDS StoreData

CONSTANTS
    EncodableIdTypes,       \* the id_type values encodeBasicIDMessage accepts
    EncodableCoordinates    \* likewise for Location and System messages

ASSUME EncodingAssumption ==
    /\ EncodableIdTypes \subseteq IdTypes
    /\ EncodableCoordinates \subseteq Coordinates
    /\ 0 \in EncodableCoordinates

MessageSlots == {"BASIC_ID", "LOCATION", "SYSTEM", "OPERATOR_ID"}

(* A bundle starts zeroed, and the type nibble of a zeroed message is that *)
(* of a Basic ID.                                                          *)
Zeroed == [type |-> "BASIC_ID"]

BasicIdMessage(s) ==
    [type |-> "BASIC_ID", uas_id |-> s.uas_id, id_type |-> s.id_type]

OperatorIdMessage(s) ==
    [type |-> "OPERATOR_ID", operator_id |-> s.operator_id]

LocationMessage(s) ==
    [type |-> "LOCATION", latitude |-> s.latitude, longitude |-> s.longitude]

SystemMessage(s) ==
    [type |-> "SYSTEM",
     operator_latitude |->
         IF s.has_operator_position THEN s.operator_latitude ELSE 0,
     operator_longitude |->
         IF s.has_operator_position THEN s.operator_longitude ELSE 0,
     operator_location_type |-> s.operator_location_type,
     area_count |-> s.area_count]

Message(s, slot) ==
    CASE slot = "BASIC_ID" -> BasicIdMessage(s)
      [] slot = "LOCATION" -> LocationMessage(s)
      [] slot = "SYSTEM" -> SystemMessage(s)
      [] slot = "OPERATOR_ID" -> OperatorIdMessage(s)

(* The only Basic ID field out of range is a MAVLink id_type above 15; a   *)
(* text always fits its field.                                             *)
StaticEncodable(s) == s.id_type \in EncodableIdTypes

DynamicEncodable(s, slot) ==
    CASE slot = "LOCATION" ->
           {s.latitude, s.longitude} \subseteq EncodableCoordinates
      [] slot = "SYSTEM" ->
           {SystemMessage(s).operator_latitude,
            SystemMessage(s).operator_longitude} \subseteq EncodableCoordinates
      [] OTHER -> TRUE

Encodable(s, slot) ==
    IF slot = "BASIC_ID" THEN StaticEncodable(s) ELSE DynamicEncodable(s, slot)

Messages ==
    {Zeroed}
    \cup [type : {"BASIC_ID"}, uas_id : Texts, id_type : IdTypes]
    \cup [type : {"OPERATOR_ID"}, operator_id : Texts]
    \cup [type : {"LOCATION"}, latitude : Coordinates, longitude : Coordinates]
    \cup [type : {"SYSTEM"},
          operator_latitude : Coordinates, operator_longitude : Coordinates,
          operator_location_type : LocationTypes, area_count : Areas]

=============================================================================
