----------------------------- MODULE MavlinkInput -----------------------------
(***************************************************************************)
(* src/remoteid/remoteid/mavlink.c: the MAVLink input task, which turns    *)
(* the messages on its UART into updates of the store, with the aircraft   *)
(* and the other senders on the link around it.                            *)
(***************************************************************************)
EXTENDS AtomicStore

CONSTANTS
    TargetSystem,       \* CONFIG_REMOTEID_MAVLINK_TARGET_SYSTEM
    TargetComponent,    \* CONFIG_REMOTEID_MAVLINK_TARGET_COMPONENT
    Vehicles,           \* system ids of the autopilots on the link
    Aircraft,           \* the system id of the aircraft that carries this unit
    OdidMessages,       \* the OPEN_DRONE_ID messages and others on the link
    UartLen,            \* messages the UART's receive buffer holds
    MaxArmings          \* bound: how often the aircraft may arm

ASSUME MavlinkAssumption ==
    /\ TargetSystem \in Nat
    /\ TargetComponent \in Nat
    /\ Vehicles \subseteq Nat \ {0}
    /\ Aircraft \in Vehicles
    /\ UartLen \in Nat \ {0}
    /\ MaxArmings \in Nat

VARIABLES
    vehicle_armed,  \* the autopilots: whether each vehicle is armed
    uart,           \* the messages received and not parsed yet
    s_was_armed,
    mav_pc,         \* "read" the UART, or blocked in "submit"
    mav_update,     \* the local update that is being submitted, if there is one
    armings,        \* history: how often the aircraft has armed
    captures,       \* history: how many takeoffs the store has accepted
    last_fix,       \* history: the position accepted last
    fixes           \* history: for each update in pending the position
                    \* accepted last before it

mavVars == <<vehicle_armed, uart, s_was_armed, mav_pc, mav_update, armings,
             captures, last_fix, fixes>>
inputVars == <<storeVars, mavVars>>

-----------------------------------------------------------------------------
Fix(r) == [has_position |-> r.has_position,
           latitude |-> r.latitude, longitude |-> r.longitude]

NoUpdate == [type |-> "none"]

MavlinkInit ==
    /\ StoreInit
    /\ vehicle_armed \in [Vehicles -> BOOLEAN]
    /\ uart = <<>>
    /\ s_was_armed = FALSE
    /\ mav_pc = "read"
    /\ mav_update = NoUpdate
    /\ armings = IF vehicle_armed[Aircraft] THEN 1 ELSE 0
    /\ captures = 0
    /\ last_fix = Fix(state)
    /\ fixes = <<>>

(* A pilot arms or disarms a vehicle. *)
ToggleArmed(v) ==
    /\ v = Aircraft /\ ~vehicle_armed[v] => armings < MaxArmings
    /\ vehicle_armed' = [vehicle_armed EXCEPT ![v] = ~@]
    /\ armings' = IF v = Aircraft /\ ~vehicle_armed[v] THEN armings + 1
                  ELSE armings
    /\ UNCHANGED <<storeVars, uart, s_was_armed, mav_pc, mav_update, captures,
                   last_fix, fixes>>

Heartbeat(v) ==
    [msgid |-> "HEARTBEAT", sysid |-> v, autopilot |-> "VALID",
     armed |-> vehicle_armed[v]]

(* A ground station or a camera: MAV_AUTOPILOT_INVALID. *)
OtherHeartbeat ==
    [msgid |-> "HEARTBEAT", sysid |-> Aircraft, autopilot |-> "INVALID",
     armed |-> FALSE]

(* A message reaches the receive buffer; one that does not fit is lost,    *)
(* as is one that is never sent.                                           *)
Receive(m) ==
    /\ Len(uart) < UartLen
    /\ uart' = Append(uart, m)
    /\ UNCHANGED <<storeVars, vehicle_armed, s_was_armed, mav_pc, mav_update,
                   armings, captures, last_fix, fixes>>

-----------------------------------------------------------------------------
TargetMatches(target_system, target_component) ==
    /\ TargetSystem = 0 \/ target_system \in {0, TargetSystem}
    /\ TargetComponent = 0 \/ target_component \in {0, TargetComponent}

(* The update of a message of an accepted target; 0 in both halves is how  *)
(* MAVLink says that a position is unknown.                                *)
OdidUpdate(m) ==
    CASE m.msgid = "BASIC_ID" ->
           [type |-> "BASIC_ID", uas_id |-> m.uas_id, id_type |-> m.id_type]
      [] m.msgid = "OPERATOR_ID" ->
           [type |-> "OPERATOR_ID", operator_id |-> m.operator_id]
      [] m.msgid = "LOCATION" ->
           [type |-> "LOCATION",
            has_position |-> m.latitude # 0 \/ m.longitude # 0,
            latitude |-> m.latitude, longitude |-> m.longitude]
      [] m.msgid = "SYSTEM" ->
           [type |-> "SYSTEM",
            has_operator_position |->
                m.operator_latitude # 0 \/ m.operator_longitude # 0,
            operator_latitude |-> m.operator_latitude,
            operator_longitude |-> m.operator_longitude,
            operator_location_type |-> m.operator_location_type,
            area_count |-> m.area_count]

HandledMsgids == {"BASIC_ID", "OPERATOR_ID", "LOCATION", "SYSTEM"}

(* The task is an input source of the store, and the heartbeats on the     *)
(* link are those of the vehicles.                                         *)
ASSUME MessagesAssumption ==
    /\ Takeoff \in Inputs
    /\ \A m \in OdidMessages :
          /\ m.msgid # "HEARTBEAT"
          /\ m.msgid \in HandledMsgids => OdidUpdate(m) \in Inputs

Parsed == mav_pc = "read" /\ uart # <<>> /\ uart' = Tail(uart)

BeginSubmit(u) ==
    /\ mav_update' = u
    /\ mav_pc' = "submit"
    /\ UNCHANGED <<storeVars, vehicle_armed, s_was_armed, armings, captures,
                   last_fix, fixes>>

(* submit_basic_id, _operator_id, _location, _system; handle_message's     *)
(* default arm                                                             *)
HandleOdid ==
    /\ Parsed
    /\ Head(uart).msgid \in HandledMsgids
    /\ TargetMatches(Head(uart).target_system, Head(uart).target_component)
    /\ BeginSubmit(OdidUpdate(Head(uart)))

IgnoreMessage ==
    /\ Parsed
    /\ Head(uart).msgid # "HEARTBEAT"
    /\ Head(uart).msgid \in HandledMsgids =>
          ~TargetMatches(Head(uart).target_system, Head(uart).target_component)
    /\ UNCHANGED <<storeVars, vehicle_armed, s_was_armed, mav_pc, mav_update,
                   armings, captures, last_fix, fixes>>

(* mutant: the heartbeats of any system count *)
HeartbeatAccepted_AnySystem(m) == m.autopilot # "INVALID"

(* submit_heartbeat *)
HeartbeatAccepted(m) ==
    /\ m.autopilot # "INVALID"
    /\ TargetSystem # 0 => m.sysid = TargetSystem

HandleArming ==
    /\ Parsed
    /\ Head(uart).msgid = "HEARTBEAT"
    /\ HeartbeatAccepted(Head(uart))
    /\ Head(uart).armed
    /\ ~s_was_armed
    /\ BeginSubmit(Takeoff)

HandleHeartbeat ==
    /\ Parsed
    /\ Head(uart).msgid = "HEARTBEAT"
    /\ s_was_armed' = IF HeartbeatAccepted(Head(uart)) THEN Head(uart).armed
                      ELSE s_was_armed
    /\ HeartbeatAccepted(Head(uart)) /\ Head(uart).armed => s_was_armed
    /\ UNCHANGED <<storeVars, vehicle_armed, mav_pc, mav_update, armings,
                   captures, last_fix, fixes>>

(* What follows remoteid_store_submit: s_was_armed is set whether or not   *)
(* the takeoff was accepted.                                               *)
SubmitReturns ==
    /\ mav_pc = "submit"
    /\ mav_pc' = "read"
    /\ mav_update' = NoUpdate
    /\ s_was_armed' = (s_was_armed \/ mav_update = Takeoff)
    /\ UNCHANGED <<vehicle_armed, uart, armings>>

SubmitAccepted ==
    /\ SubmitReturns
    /\ Submit(mav_update)
    /\ captures' = IF mav_update = Takeoff THEN captures + 1 ELSE captures
    /\ last_fix' = IF mav_update.type = "LOCATION" THEN Fix(mav_update)
                   ELSE last_fix
    /\ fixes' = Append(fixes, last_fix)

SubmitDropped ==
    /\ SubmitReturns
    /\ SubmitTimesOut
    /\ UNCHANGED <<captures, last_fix, fixes>>

MavlinkStoreApplies ==
    /\ ApplyUpdate
    /\ fixes' = Tail(fixes)
    /\ UNCHANGED <<vehicle_armed, uart, s_was_armed, mav_pc, mav_update,
                   armings, captures, last_fix>>

Environment ==
    \/ \E v \in Vehicles : ToggleArmed(v)
    \/ \E v \in Vehicles : Receive(Heartbeat(v))
    \/ Receive(OtherHeartbeat)
    \/ \E m \in OdidMessages : Receive(m)

MavlinkTask ==
    \/ HandleOdid
    \/ IgnoreMessage
    \/ HandleArming
    \/ HandleHeartbeat
    \/ SubmitAccepted
    \/ SubmitDropped

MavlinkNext == Environment \/ MavlinkTask \/ MavlinkStoreApplies

MavlinkSpec == MavlinkInit /\ [][MavlinkNext]_inputVars

-----------------------------------------------------------------------------
Fixes == [has_position : BOOLEAN, latitude : Coordinates, longitude : Coordinates]

LinkMessages ==
    OdidMessages \cup {OtherHeartbeat}
    \cup [msgid : {"HEARTBEAT"}, sysid : Vehicles, autopilot : {"VALID"},
          armed : BOOLEAN]

MavlinkTypeOK ==
    /\ StoreTypeOK
    /\ vehicle_armed \in [Vehicles -> BOOLEAN]
    /\ uart \in Seq(LinkMessages)
    /\ Len(uart) <= UartLen
    /\ s_was_armed \in BOOLEAN
    /\ mav_pc \in {"read", "submit"}
    /\ mav_update \in IF mav_pc = "submit" THEN Inputs ELSE {NoUpdate}
    /\ armings \in 0 .. MaxArmings + 1
    /\ captures \in Nat
    /\ last_fix \in Fixes
    /\ fixes \in Seq(Fixes)
    /\ Len(fixes) = Len(pending)

(* With a target system configured a takeoff is captured once for each     *)
(* time the aircraft arms, or once for a unit that restarts in the air:    *)
(* never because of another autopilot, a ground station or a repeated      *)
(* heartbeat, however messages are lost or delayed (mavlink.c:58-82).      *)
CapturesNeedArmings == captures <= armings

(* The operator position a takeoff sets is the aircraft position accepted  *)
(* last before the takeoff, however many updates are queued ahead of it or *)
(* behind it; without a fix it stays what it was (store.c:111-123).        *)
TakeoffCapturesArmPosition ==
    [][pending # <<>> /\ pending' = Tail(pending) /\ Head(pending) = Takeoff
         => LET fix == Head(fixes)
            IN  IF fix.has_position
                THEN /\ state'.operator_latitude = fix.latitude
                     /\ state'.operator_longitude = fix.longitude
                     /\ state'.operator_location_type = "TAKEOFF"
                ELSE /\ state'.operator_latitude = state.operator_latitude
                     /\ state'.operator_longitude = state.operator_longitude
                     /\ state'.has_operator_position = state.has_operator_position
      ]_inputVars

=============================================================================
