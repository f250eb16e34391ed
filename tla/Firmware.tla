------------------------------- MODULE Firmware -------------------------------
(***************************************************************************)
(* The way of the data through the firmware: the MAVLink input task        *)
(* (module MavlinkInput), the store and a BLE transport (module            *)
(* BleTransport) as they run together.  The two tasks know each other only *)
(* through the store, and each is slower than the other at times: the link *)
(* keeps delivering while the queue is full, and the store changes while a *)
(* message is on its way to the air.                                       *)
(***************************************************************************)
EXTENDS BleTransport, MavlinkInput

CONSTANT Traffics       \* the sets of messages a link may carry

ASSUME FirmwareAssumption == Traffics \subseteq SUBSET OdidMessages

VARIABLE traffic        \* what the autopilot on this link sends; never changes

firmwareVars == <<traffic, vars, mavVars>>

-----------------------------------------------------------------------------
FirmwareInit ==
    /\ traffic \in Traffics
    /\ Init
    /\ MavlinkInit
    /\ vehicle_armed = [v \in Vehicles |-> FALSE]

(* The link delivers an OPEN_DRONE_ID message; vehicles stay disarmed, for *)
(* what arming does is the subject of module MavlinkInput.                 *)
LinkDelivers ==
    /\ \E m \in traffic : Receive(m)
    /\ UNCHANGED <<traffic, bleVars>>

InputTask == MavlinkTask /\ UNCHANGED <<traffic, bleVars>>

StoreTask == StoreApplies /\ MavlinkStoreApplies /\ UNCHANGED traffic

TransportTask(t) == Transport(t) /\ UNCHANGED <<traffic, mavVars>>

FirmwareNext ==
    \/ LinkDelivers
    \/ InputTask
    \/ StoreTask
    \/ \E t \in Transports : TransportTask(t)

(* What modules MavlinkInput and BleTransport say of their tasks.          *)
FirmwareSpec ==
    /\ FirmwareInit /\ [][FirmwareNext]_firmwareVars
    /\ WF_firmwareVars(InputTask)
    /\ WF_firmwareVars(StoreTask)
    /\ \A t \in Transports : WF_firmwareVars(TransportTask(t))

-----------------------------------------------------------------------------
(* The task that was given an update for the store says so. *)
IdentityAccepted ==
    SubmitAccepted /\ mav_update.type = "BASIC_ID"

OtherIdentityAccepted(id) == IdentityAccepted /\ mav_update.uas_id # id

(* An autopilot that goes on sending one identity is broadcast under it,   *)
(* and in the end under no other, however many of its messages are lost on *)
(* the link or dropped at a full queue and whatever the transport was in   *)
(* the middle of (mavlink.c:85-108; store.c:60-68, 184-193; ble.c:160-204).  *)
LinkIdentityAirs ==
    \A id \in {m.uas_id : m \in {n \in OdidMessages : n.msgid = "BASIC_ID"}} :
        /\ UsableText(id, UasPlaceholder)
        /\ <>[]OperatorIdUsable(state)
        /\ []<><<IdentityAccepted>>_firmwareVars
        /\ <>[][~OtherIdentityAccepted(id)]_firmwareVars
        => \A t \in Transports :
              /\ []<>OnAir(t, "BASIC_ID")
              /\ <>[](OnAir(t, "BASIC_ID") => adv_data[t].message.uas_id = id)

=============================================================================
