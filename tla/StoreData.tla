------------------------------ MODULE StoreData ------------------------------
(***************************************************************************)
(* The data of src/remoteid/remoteid/store.c and model.c: the Remote ID    *)
(* state (remoteid_state_t), the updates the input sources submit          *)
(* (remoteid_store_update_t) and the functions of them the store computes. *)
(*                                                                         *)
(* The fields of remoteid_state_t are abstracted to those the properties   *)
(* tell apart.  Each group of fields that one update writes keeps a field  *)
(* written first and one written last, so that a half-written group is     *)
(* visible: uas_id / id_type (and ua_type), latitude / longitude (and the  *)
(* rest of the Location group), operator_latitude / operator_longitude,    *)
(* operator_location_type, area_count (and the rest of the System group).  *)
(***************************************************************************)
EXTENDS Integers

CONSTANTS
    Texts,          \* values of uas_id and operator_id
    IdTypes,        \* values of id_type, 0 .. 255 on the MAVLink wire
    Coordinates,    \* values of latitude, longitude, in the wire's integers
    LocationTypes,  \* values of operator_location_type
    Areas           \* values of area_count and of the fields written after it

UasPlaceholder == "CHANGE_ME_UAS_ID"
OperatorPlaceholder == "CHANGE_ME_OP_ID"

ASSUME StoreDataAssumption ==
    /\ {"", UasPlaceholder, OperatorPlaceholder} \subseteq Texts
    /\ Coordinates \subseteq Int
    /\ 0 \in Coordinates
    /\ "TAKEOFF" \in LocationTypes
    /\ 1 \in Areas

-----------------------------------------------------------------------------
(* remoteid_state_t *)

States ==
    [uas_id : Texts, id_type : IdTypes, operator_id : Texts,
     has_position : BOOLEAN, latitude : Coordinates, longitude : Coordinates,
     has_operator_position : BOOLEAN,
     operator_latitude : Coordinates, operator_longitude : Coordinates,
     operator_location_type : LocationTypes, area_count : Areas]

(* remoteid_store_update_t: one arm of the union for each type *)

BasicIdUpdates ==
    [type : {"BASIC_ID"}, uas_id : Texts, id_type : IdTypes]

OperatorIdUpdates ==
    [type : {"OPERATOR_ID"}, operator_id : Texts]

LocationUpdates ==
    [type : {"LOCATION"}, has_position : BOOLEAN,
     latitude : Coordinates, longitude : Coordinates]

SystemUpdates ==
    [type : {"SYSTEM"}, has_operator_position : BOOLEAN,
     operator_latitude : Coordinates, operator_longitude : Coordinates,
     operator_location_type : LocationTypes, area_count : Areas]

Takeoff == [type |-> "TAKEOFF"]

Updates ==
    BasicIdUpdates \cup OperatorIdUpdates \cup LocationUpdates
        \cup SystemUpdates \cup {Takeoff}

-----------------------------------------------------------------------------
(* The identity test of store.c *)

UsableText(value, placeholder) == value # "" /\ value # placeholder

BasicIdUsable(s) == UsableText(s.uas_id, UasPlaceholder)

OperatorIdUsable(s) == UsableText(s.operator_id, OperatorPlaceholder)

IdentityUsable(s) == BasicIdUsable(s) /\ OperatorIdUsable(s)

-----------------------------------------------------------------------------
(* apply_update_locked as one step, and as the two halves a preempted      *)
(* store task leaves behind: the first field it writes, then the others.   *)

(* mutant: the fix is not looked at *)
CaptureTakeoff_IgnoresFix(s) ==
    [s EXCEPT !.has_operator_position = TRUE,
              !.operator_latitude = s.latitude,
              !.operator_longitude = s.longitude,
              !.operator_location_type = "TAKEOFF"]

CaptureTakeoff(s) ==
    IF s.has_position
    THEN [s EXCEPT !.has_operator_position = TRUE,
                   !.operator_latitude = s.latitude,
                   !.operator_longitude = s.longitude,
                   !.operator_location_type = "TAKEOFF"]
    ELSE s

Apply(s, u) ==
    CASE u.type = "BASIC_ID" ->
           [s EXCEPT !.uas_id = u.uas_id, !.id_type = u.id_type]
      [] u.type = "OPERATOR_ID" ->
           [s EXCEPT !.operator_id = u.operator_id]
      [] u.type = "LOCATION" ->
           [s EXCEPT !.has_position = u.has_position,
                     !.latitude = u.latitude, !.longitude = u.longitude]
      [] u.type = "SYSTEM" ->
           [s EXCEPT !.has_operator_position = u.has_operator_position,
                     !.operator_latitude = u.operator_latitude,
                     !.operator_longitude = u.operator_longitude,
                     !.operator_location_type = u.operator_location_type,
                     !.area_count = u.area_count]
      [] u.type = "TAKEOFF" -> CaptureTakeoff(s)

WriteFirst(s, u) ==
    CASE u.type = "BASIC_ID" -> [s EXCEPT !.uas_id = u.uas_id]
      [] u.type = "OPERATOR_ID" -> [s EXCEPT !.operator_id = u.operator_id]
      [] u.type = "LOCATION" ->
           [s EXCEPT !.has_position = u.has_position, !.latitude = u.latitude]
      [] u.type = "SYSTEM" ->
           [s EXCEPT !.has_operator_position = u.has_operator_position,
                     !.operator_latitude = u.operator_latitude]
      [] u.type = "TAKEOFF" /\ s.has_position ->
           [s EXCEPT !.has_operator_position = TRUE,
                     !.operator_latitude = s.latitude]
      [] OTHER -> s

WriteRest(s, u) ==
    CASE u.type = "BASIC_ID" -> [s EXCEPT !.id_type = u.id_type]
      [] u.type = "LOCATION" -> [s EXCEPT !.longitude = u.longitude]
      [] u.type = "SYSTEM" ->
           [s EXCEPT !.operator_longitude = u.operator_longitude,
                     !.operator_location_type = u.operator_location_type,
                     !.area_count = u.area_count]
      [] u.type = "TAKEOFF" /\ s.has_position ->
           [s EXCEPT !.operator_longitude = s.longitude,
                     !.operator_location_type = "TAKEOFF"]
      [] OTHER -> s

(* *out = s_state, likewise in two halves *)

CopyHead(out, s) ==
    [out EXCEPT !.uas_id = s.uas_id, !.operator_id = s.operator_id,
                !.has_position = s.has_position, !.latitude = s.latitude,
                !.has_operator_position = s.has_operator_position,
                !.operator_latitude = s.operator_latitude]

CopyRest(out, s) ==
    [out EXCEPT !.id_type = s.id_type, !.longitude = s.longitude,
                !.operator_longitude = s.operator_longitude,
                !.operator_location_type = s.operator_location_type,
                !.area_count = s.area_count]

-----------------------------------------------------------------------------
(* remoteid_model_init: the state the Kconfig options give.  With          *)
(* CONFIG_REMOTEID_HAS_POSITION the configured takeoff point is both the   *)
(* aircraft's and the operator's position.                                 *)

ModelInit(uas_id, operator_id, id_type, has_position, latitude, longitude) ==
    [uas_id |-> uas_id, id_type |-> id_type, operator_id |-> operator_id,
     has_position |-> has_position,
     latitude |-> latitude, longitude |-> longitude,
     has_operator_position |-> has_position,
     operator_latitude |-> latitude, operator_longitude |-> longitude,
     operator_location_type |-> "TAKEOFF", area_count |-> 1]

InitialStates ==
    {s \in States :
        /\ s = ModelInit(s.uas_id, s.operator_id, s.id_type,
                         s.has_position, s.latitude, s.longitude)
        /\ ~s.has_position => s.latitude = 0 /\ s.longitude = 0}

=============================================================================
