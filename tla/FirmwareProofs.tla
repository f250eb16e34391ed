---------------------------- MODULE FirmwareProofs ----------------------------
(***************************************************************************)
(* Proofs about the MAVLink input task (module MavlinkInput) for every     *)
(* link, every queue length and every loss of messages: a takeoff is       *)
(* captured only when the aircraft armed, and where it was then.  About    *)
(* the firmware (module Firmware): for the transports its input task and   *)
(* its store task are the input and the store task of module BleTransport, *)
(* so that what is proved there holds of the firmware.                     *)
(***************************************************************************)
EXTENDS Firmware, BleProofs

-----------------------------------------------------------------------------
(* Types *)

(* A message that is handled as an update is one of the link's, and its    *)
(* update one that an input source may submit.                             *)
LEMMA HandledTyped ==
    ASSUME NEW m \in LinkMessages, m.msgid \in HandledMsgids
    PROVE  OdidUpdate(m) \in Inputs
  BY MessagesAssumption DEF LinkMessages, OtherHeartbeat, HandledMsgids

(* What is received is a message of the link. *)
LEMMA ReceiveTyped ==
    ASSUME MavlinkTypeOK, NEW m \in LinkMessages, Receive(m)
    PROVE  MavlinkTypeOK'
  <1>1. uart' \in Seq(LinkMessages) /\ Len(uart') <= UartLen
    BY MavlinkAssumption DEF MavlinkTypeOK, Receive
  <1>2. StoreTypeOK'
    BY DEF Receive, storeVars, MavlinkTypeOK, StoreTypeOK
  <1>. QED
    BY <1>1, <1>2 DEF Receive, storeVars, MavlinkTypeOK

(* What the parser takes from the receive buffer. *)
LEMMA ParsedTyped ==
    ASSUME MavlinkTypeOK, Parsed
    PROVE  /\ Head(uart) \in LinkMessages
           /\ uart' \in Seq(LinkMessages)
           /\ Len(uart') <= UartLen
           /\ mav_update = NoUpdate
  BY MavlinkAssumption DEF MavlinkTypeOK, Parsed

(* The task starts with nothing received and nothing to submit. *)
LEMMA MavlinkTypeInit == MavlinkInit => MavlinkTypeOK
  <1> SUFFICES ASSUME MavlinkInit PROVE MavlinkTypeOK
    OBVIOUS
  <1>1. StoreTypeOK
    BY StoreInitTyped DEF MavlinkInit
  <1>2. Fix(state) \in Fixes
    BY <1>1 DEF StoreTypeOK, States, Fix, Fixes
  <1>3. armings \in 0 .. MaxArmings + 1
    BY MavlinkAssumption DEF MavlinkInit
  <1>4. pending = <<>>
    BY DEF MavlinkInit, StoreInit
  <1>5. /\ mav_update \in IF mav_pc = "submit" THEN Inputs ELSE {NoUpdate}
        /\ mav_pc \in {"read", "submit"}
    BY DEF MavlinkInit
  <1>6. /\ uart \in Seq(LinkMessages)
        /\ Len(uart) <= UartLen
        /\ fixes \in Seq(Fixes)
        /\ Len(fixes) = Len(pending)
    BY <1>4, MavlinkAssumption DEF MavlinkInit
  <1>. QED
    BY <1>1, <1>2, <1>3, <1>5, <1>6 DEF MavlinkInit, MavlinkTypeOK

(* Every step of the link, the task and the store keeps the types. *)
LEMMA MavlinkTypeStep == MavlinkTypeOK /\ [MavlinkNext]_inputVars => MavlinkTypeOK'
  <1> SUFFICES ASSUME MavlinkTypeOK, [MavlinkNext]_inputVars PROVE MavlinkTypeOK'
    OBVIOUS
  <1>1. ASSUME NEW v \in Vehicles, ToggleArmed(v) PROVE MavlinkTypeOK'
    <2>1. StoreTypeOK'
      BY <1>1 DEF ToggleArmed, storeVars, MavlinkTypeOK, StoreTypeOK
    <2>2. armings' \in 0 .. MaxArmings + 1
      BY <1>1, MavlinkAssumption DEF ToggleArmed, MavlinkTypeOK
    <2>. QED
      BY <1>1, <2>1, <2>2 DEF ToggleArmed, storeVars, MavlinkTypeOK
  <1>2. ASSUME NEW v \in Vehicles, Receive(Heartbeat(v)) PROVE MavlinkTypeOK'
    <2>1. Heartbeat(v) \in LinkMessages
      BY DEF MavlinkTypeOK, LinkMessages, Heartbeat
    <2>. QED
      BY <1>2, <2>1, ReceiveTyped
  <1>3. CASE Receive(OtherHeartbeat)
    BY <1>3, ReceiveTyped DEF LinkMessages
  <1>4. ASSUME NEW m \in OdidMessages, Receive(m) PROVE MavlinkTypeOK'
    BY <1>4, ReceiveTyped DEF LinkMessages
  <1>5. ASSUME Parsed, NEW u \in Inputs, BeginSubmit(u) PROVE MavlinkTypeOK'
    <2>1. StoreTypeOK'
      BY <1>5 DEF BeginSubmit, storeVars, MavlinkTypeOK, StoreTypeOK
    <2>. QED
      BY <1>5, <2>1, ParsedTyped DEF BeginSubmit, storeVars, MavlinkTypeOK
  <1>6. CASE HandleOdid
    BY <1>5, <1>6, ParsedTyped, HandledTyped DEF HandleOdid
  <1>7. CASE HandleArming
    BY <1>5, <1>7, MessagesAssumption DEF HandleArming
  <1>8. CASE IgnoreMessage
    <2>1. StoreTypeOK'
      BY <1>8 DEF IgnoreMessage, storeVars, MavlinkTypeOK, StoreTypeOK
    <2>. QED
      BY <1>8, <2>1, ParsedTyped DEF IgnoreMessage, storeVars, MavlinkTypeOK
  <1>9. CASE HandleHeartbeat
    <2>1. StoreTypeOK'
      BY <1>9 DEF HandleHeartbeat, storeVars, MavlinkTypeOK, StoreTypeOK
    <2>2. s_was_armed' \in BOOLEAN
      <3>1. HeartbeatAccepted(Head(uart)) => Head(uart) \notin OdidMessages
        BY <1>9, MessagesAssumption DEF HandleHeartbeat
      <3>2. HeartbeatAccepted(Head(uart)) => Head(uart).armed \in BOOLEAN
        BY <1>9, <3>1, ParsedTyped
           DEF HandleHeartbeat, HeartbeatAccepted, LinkMessages, OtherHeartbeat
      <3>. QED
        BY <1>9, <3>2 DEF HandleHeartbeat, MavlinkTypeOK
    <2>. QED
      BY <1>9, <2>1, <2>2, ParsedTyped DEF HandleHeartbeat, storeVars, MavlinkTypeOK
  <1>10. CASE SubmitAccepted
    <2>1. mav_update \in Inputs
      BY <1>10 DEF SubmitAccepted, SubmitReturns, MavlinkTypeOK
    <2>2. StoreTypeOK'
      BY <1>10, <2>1, SubmitTyped DEF SubmitAccepted, MavlinkTypeOK
    <2>3. last_fix' \in Fixes
      BY <1>10, <2>1, AtomicStoreAssumption
         DEF SubmitAccepted, MavlinkTypeOK, Fix, Fixes, Updates, BasicIdUpdates,
             OperatorIdUpdates, LocationUpdates, SystemUpdates, Takeoff
    <2>4. fixes' \in Seq(Fixes) /\ Len(fixes') = Len(pending')
      BY <1>10, AtomicStoreAssumption
         DEF SubmitAccepted, Submit, MavlinkTypeOK, StoreTypeOK
    <2>. QED
      BY <1>10, <2>2, <2>3, <2>4 DEF SubmitAccepted, SubmitReturns, MavlinkTypeOK
  <1>11. CASE SubmitDropped
    <2>1. StoreTypeOK'
      BY <1>11 DEF SubmitDropped, SubmitTimesOut, storeVars, MavlinkTypeOK, StoreTypeOK
    <2>. QED
      BY <1>11, <2>1
         DEF SubmitDropped, SubmitTimesOut, SubmitReturns, storeVars, MavlinkTypeOK
  <1>12. CASE MavlinkStoreApplies
    <2>1. StoreTypeOK'
      BY <1>12, ApplyUpdateTyped DEF MavlinkStoreApplies, MavlinkTypeOK
    <2>2. fixes' \in Seq(Fixes) /\ Len(fixes') = Len(pending')
      BY <1>12 DEF MavlinkStoreApplies, ApplyUpdate, MavlinkTypeOK, StoreTypeOK
    <2>. QED
      BY <1>12, <2>1, <2>2 DEF MavlinkStoreApplies, MavlinkTypeOK
  <1>13. CASE UNCHANGED inputVars
    BY <1>13 DEF inputVars, mavVars, storeVars, MavlinkTypeOK, StoreTypeOK
  <1>. QED
    BY <1>1, <1>2, <1>3, <1>4, <1>6, <1>7, <1>8, <1>9, <1>10, <1>11, <1>12, <1>13
       DEF MavlinkNext, Environment, MavlinkTask

(* Every variable of the MAVLink task keeps its type: what it submits is   *)
(* an update the store knows, whatever is on the link                      *)
(* (mavlink.c:58-262).                                                     *)
THEOREM MavlinkTypes == MavlinkSpec => []MavlinkTypeOK
BY MavlinkTypeInit, MavlinkTypeStep, PTL DEF MavlinkSpec

-----------------------------------------------------------------------------
(* The takeoff that is captured is that of the arming *)

(* Without its head a sequence is one shorter. *)
LEMMA TailShorter ==
    ASSUME NEW S, NEW s \in Seq(S), s # <<>>
    PROVE  /\ Len(s) \in Nat \ {0}
           /\ Len(Tail(s)) = Len(s) - 1
           /\ \A i \in 1 .. Len(s) - 1 : Tail(s)[i] = s[i + 1]
           /\ Tail(s) = <<>> <=> Len(s) = 1
           /\ Tail(s) # s
           /\ \A e \in S : Tail(s) # Append(s, e)
  <1> DEFINE tl == Tail(s)
  <1>1. /\ tl \in Seq(S)
        /\ Len(s) \in Nat \ {0}
        /\ Len(tl) = Len(s) - 1
        /\ \A i \in 1 .. Len(s) - 1 : tl[i] = s[i + 1]
    OBVIOUS
  <1> HIDE DEF tl
  <1>2. tl = <<>> <=> Len(s) = 1
    BY <1>1
  <1>3. tl # s
    BY <1>1
  <1>4. \A e \in S : tl # Append(s, e)
    <2>1. \A e \in S : Len(Append(s, e)) = Len(s) + 1
      OBVIOUS
    <2>. QED
      BY <1>1, <2>1
  <1>. QED
    BY <1>1, <1>2, <1>3, <1>4 DEF tl

(* The fix after an update. *)
FixAfter(fix, u) == IF u.type = "LOCATION" THEN Fix(u) ELSE fix

(* Position and updates of the store follow each other as they did when    *)
(* the updates were accepted: the first fix is that of the state, each of  *)
(* the others that after the update before it.                             *)
FixInv ==
    /\ pending # <<>> => fixes[1] = Fix(state)
    /\ \A i \in 1 .. Len(pending) - 1 : fixes[i + 1] = FixAfter(fixes[i], pending[i])
    /\ last_fix = IF pending = <<>> THEN Fix(state)
                  ELSE FixAfter(fixes[Len(pending)], pending[Len(pending)])

(* Of the updates only a Location changes the fix of a state. *)
LEMMA FixOfApply ==
    ASSUME NEW s \in States, NEW u \in Updates
    PROVE  Fix(Apply(s, u)) = FixAfter(Fix(s), u)
  <1> USE DEF FixAfter, Fix, States
  <1>1. CASE u \in BasicIdUpdates
    BY <1>1 DEF BasicIdUpdates, Apply
  <1>2. CASE u \in OperatorIdUpdates
    BY <1>2 DEF OperatorIdUpdates, Apply
  <1>3. CASE u \in LocationUpdates
    BY <1>3 DEF LocationUpdates, Apply
  <1>4. CASE u \in SystemUpdates
    BY <1>4 DEF SystemUpdates, Apply
  <1>5. CASE u = Takeoff
    BY <1>5 DEF Takeoff, Apply, CaptureTakeoff
  <1>. QED
    BY <1>1, <1>2, <1>3, <1>4, <1>5 DEF Updates

(* An accepted update joins the queue with the fix it was accepted after,  *)
(* an applied one leaves it.                                               *)
LEMMA FixStep == MavlinkTypeOK /\ FixInv /\ [MavlinkNext]_inputVars => FixInv'
  <1> SUFFICES ASSUME MavlinkTypeOK, FixInv, [MavlinkNext]_inputVars PROVE FixInv'
    OBVIOUS
  <1> DEFINE n == Len(pending)
  <1>1. /\ pending \in Seq(Inputs)
        /\ fixes \in Seq(Fixes)
        /\ Len(fixes) = n
        /\ n \in Nat
        /\ pending = <<>> <=> n = 0
    BY DEF MavlinkTypeOK, StoreTypeOK
  <1>2. CASE UNCHANGED <<state, pending, fixes, last_fix>>
    BY <1>2 DEF FixInv
  <1>3. CASE SubmitAccepted
    <2>1. mav_update \in Inputs /\ last_fix \in Fixes
      BY <1>3 DEF SubmitAccepted, SubmitReturns, MavlinkTypeOK
    <2>2. /\ state' = state
          /\ pending' = Append(pending, mav_update)
          /\ fixes' = Append(fixes, last_fix)
          /\ last_fix' = FixAfter(last_fix, mav_update)
      BY <1>3 DEF SubmitAccepted, Submit, FixAfter
    <2>3. /\ Len(pending') = n + 1
          /\ \A i \in 1 .. n : pending'[i] = pending[i] /\ fixes'[i] = fixes[i]
          /\ pending'[n + 1] = mav_update
          /\ fixes'[n + 1] = last_fix
      BY <1>1, <2>1, <2>2
    <2> HIDE DEF n
    <2>4. CASE n = 0
      BY <1>1, <2>2, <2>3, <2>4 DEF FixInv
    <2>5. CASE n # 0
      <3>1. fixes'[1] = Fix(state')
        BY <1>1, <2>2, <2>3, <2>5 DEF FixInv
      <3>2. ASSUME NEW i \in 1 .. n
            PROVE  fixes'[i + 1] = FixAfter(fixes'[i], pending'[i])
        <4>1. CASE i = n
          BY <1>1, <2>3, <2>5, <4>1 DEF FixInv, n
        <4>2. CASE i # n
          BY <1>1, <2>3, <4>2 DEF FixInv, n
        <4>. QED
          BY <4>1, <4>2
      <3>3. pending' # <<>>
        BY <1>1, <2>3
      <3>. QED
        BY <1>1, <2>2, <2>3, <3>1, <3>2, <3>3 DEF FixInv
    <2>. QED
      BY <2>4, <2>5
  <1>4. CASE MavlinkStoreApplies
    <2>1. /\ pending # <<>>
          /\ state' = Apply(state, pending[1])
          /\ pending' = Tail(pending)
          /\ fixes' = Tail(fixes)
          /\ last_fix' = last_fix
      BY <1>1, <1>4 DEF MavlinkStoreApplies, ApplyUpdate
    <2>2. /\ state \in States
          /\ pending[1] \in Updates
      BY <1>1, <2>1, AtomicStoreAssumption DEF MavlinkTypeOK, StoreTypeOK
    <2>3. Fix(state') = FixAfter(fixes[1], pending[1])
      BY <2>1, <2>2, FixOfApply DEF FixInv
    <2>4. /\ n \in Nat \ {0}
          /\ pending' = <<>> <=> n = 1
          /\ \A i \in 1 .. n - 1 :
                pending'[i] = pending[i + 1] /\ fixes'[i] = fixes[i + 1]
          /\ Len(pending') = n - 1
      <3>1. fixes # <<>>
        BY <1>1, <2>1
      <3>2. \A i \in 1 .. n - 1 : Tail(fixes)[i] = fixes[i + 1]
        BY <1>1, <3>1, TailShorter
      <3>. QED
        BY <1>1, <2>1, <3>2, TailShorter
    <2>5. n \in Nat \ {0}
      BY <2>4
    <2> HIDE DEF n
    <2>6. CASE n = 1
      BY <2>1, <2>3, <2>4, <2>6 DEF FixInv, n
    <2>7. CASE n # 1
      <3>1. fixes'[1] = Fix(state')
        BY <2>3, <2>4, <2>5, <2>7 DEF FixInv, n
      <3>2. ASSUME NEW i \in 1 .. n - 2
            PROVE  fixes'[i + 1] = FixAfter(fixes'[i], pending'[i])
        <4>1. i \in 1 .. n - 1 /\ i + 1 \in 1 .. n - 1
          BY <2>5
        <4>. QED
          BY <2>4, <4>1 DEF FixInv, n
      <3>3. last_fix' = FixAfter(fixes'[n - 1], pending'[n - 1])
        <4>1. n - 1 \in 1 .. n - 1 /\ (n - 1) + 1 = n
          BY <2>5, <2>7
        <4>2. fixes'[n - 1] = fixes[n] /\ pending'[n - 1] = pending[n]
          BY <2>4, <4>1
        <4>3. last_fix = FixAfter(fixes[n], pending[n])
          BY <2>1 DEF FixInv, n
        <4>. QED
          BY <2>1, <4>2, <4>3
      <3>. QED
        BY <2>4, <2>5, <2>7, <3>1, <3>2, <3>3 DEF FixInv
    <2>. QED
      BY <2>6, <2>7
  <1>. QED
    BY <1>2, <1>3, <1>4
       DEF MavlinkNext, Environment, MavlinkTask, ToggleArmed, Receive,
           HandleOdid, HandleArming, BeginSubmit, IgnoreMessage,
           HandleHeartbeat, SubmitDropped, SubmitTimesOut, inputVars, mavVars,
           storeVars

(* A takeoff sets the operator position to the aircraft position accepted  *)
(* last before it, however many updates are queued around it               *)
(* (store.c:111-123, mavlink.c:58-82).                                     *)
THEOREM TakeoffsCapturePosition == MavlinkSpec => TakeoffCapturesArmPosition
  <1> DEFINE Captured ==
                LET fix == Head(fixes)
                IN  IF fix.has_position
                    THEN /\ state'.operator_latitude = fix.latitude
                         /\ state'.operator_longitude = fix.longitude
                         /\ state'.operator_location_type = "TAKEOFF"
                    ELSE /\ state'.operator_latitude = state.operator_latitude
                         /\ state'.operator_longitude = state.operator_longitude
                         /\ state'.has_operator_position =
                               state.has_operator_position
             Captures ==
                pending # <<>> /\ pending' = Tail(pending) /\ Head(pending) = Takeoff
                => Captured
  <1>1. MavlinkInit => FixInv
    BY DEF MavlinkInit, StoreInit, FixInv
  <1>2. MavlinkTypeOK /\ FixInv /\ [MavlinkNext]_inputVars => [Captures]_inputVars
    <2> SUFFICES ASSUME MavlinkTypeOK, FixInv, [MavlinkNext]_inputVars,
                        pending # <<>>, pending' = Tail(pending),
                        Head(pending) = Takeoff
                 PROVE  Captured
      OBVIOUS
    <2>1. /\ pending \in Seq(Inputs)
          /\ fixes \in Seq(Fixes)
          /\ Len(fixes) = Len(pending)
          /\ state \in States
      BY DEF MavlinkTypeOK, StoreTypeOK
    <2> HIDE DEF Captured
    <2>2. Tail(pending) # pending /\ \A u \in Inputs : Tail(pending) # Append(pending, u)
      BY <2>1, TailShorter
    <2>3. pending' # pending
      BY <2>2, Zenon
    <2>4. ~SubmitAccepted
      <3>1. SubmitAccepted => mav_update \in Inputs /\ pending' = Append(pending, mav_update)
        BY DEF SubmitAccepted, Submit, SubmitReturns, MavlinkTypeOK
      <3>. QED
        BY <2>2, <3>1, Zenon
    <2>5. CASE MavlinkStoreApplies
      <3>1. state' = CaptureTakeoff(state)
        BY <2>5 DEF MavlinkStoreApplies, ApplyUpdate, Apply, Takeoff
      <3>2. Head(fixes) = Fix(state)
        BY <2>1 DEF FixInv
      <3>. QED
        <4>1. /\ Head(fixes).has_position = state.has_position
              /\ Head(fixes).latitude = state.latitude
              /\ Head(fixes).longitude = state.longitude
          BY <3>2 DEF Fix
        <4>2. CASE state.has_position
          <5>1. /\ state'.operator_latitude = state.latitude
                /\ state'.operator_longitude = state.longitude
                /\ state'.operator_location_type = "TAKEOFF"
            BY <2>1, <3>1, <4>2 DEF CaptureTakeoff, States
          <5>. QED
            BY <4>1, <4>2, <5>1 DEF Captured
        <4>3. CASE ~state.has_position
          <5>1. state' = state
            BY <3>1, <4>3 DEF CaptureTakeoff
          <5>. QED
            BY <4>1, <4>3, <5>1 DEF Captured
        <4>. QED
          BY <4>2, <4>3
    <2>. QED
      BY <2>3, <2>4, <2>5
         DEF MavlinkNext, Environment, MavlinkTask, ToggleArmed, Receive,
             HandleOdid, HandleArming, BeginSubmit, IgnoreMessage,
             HandleHeartbeat, SubmitDropped, SubmitTimesOut, inputVars, mavVars,
             storeVars
  <1> HIDE DEF Captured, Captures
  <1>3. MavlinkSpec => [][Captures]_inputVars
    BY <1>1, <1>2, FixStep, MavlinkTypes, PTL DEF MavlinkSpec
  <1>. QED
    BY <1>3 DEF Captured, Captures, TakeoffCapturesArmPosition

-----------------------------------------------------------------------------
(* A takeoff is captured for each arming, once *)

IsHeartbeat(m) == m.msgid = "HEARTBEAT" /\ HeartbeatAccepted(m)

(* The messages q in the receive buffer can be numbered, each with how     *)
(* often the aircraft had armed when it was received (high is how often it *)
(* has armed by now, low how many takeoffs are captured by now): what is   *)
(* seen armed after it was seen disarmed is of a later arming.             *)
Numbering(q, tag, low, seen, armed, high) ==
    /\ \A i \in 1 .. Len(q) : IsHeartbeat(q[i]) =>
          /\ low <= tag[i] /\ tag[i] <= high
          /\ q[i].armed /\ ~seen => low < tag[i]
          /\ ~q[i].armed /\ armed => tag[i] < high
    /\ \A i, j \in 1 .. Len(q) :
          IsHeartbeat(q[i]) /\ IsHeartbeat(q[j]) /\ i < j =>
             /\ tag[i] <= tag[j]
             /\ ~q[i].armed /\ q[j].armed => tag[i] < tag[j]

Numbered(q, low, seen, armed, high) ==
    \E tag \in [1 .. Len(q) -> Nat] : Numbering(q, tag, low, seen, armed, high)

(* Whether the task takes the aircraft for armed, and the takeoffs         *)
(* captured with the one that is being submitted.                          *)
ArmedSeen == s_was_armed \/ mav_update = Takeoff

Capturing == captures + (IF mav_update = Takeoff THEN 1 ELSE 0)

(* What is captured is never more than what was armed, and less while an   *)
(* arming is on its way to the task.                                       *)
ArmingInv ==
    /\ Capturing <= armings
    /\ ~ArmedSeen /\ vehicle_armed[Aircraft] => Capturing < armings
    /\ Numbered(uart, Capturing, ArmedSeen, vehicle_armed[Aircraft], armings)

(* The heartbeats of the receive buffer say armed or not. *)
LEMMA HeartbeatArmed ==
    ASSUME NEW m \in LinkMessages, IsHeartbeat(m)
    PROVE  m.armed \in BOOLEAN
  BY MessagesAssumption
     DEF LinkMessages, IsHeartbeat, HeartbeatAccepted, OtherHeartbeat

(* A message of now takes the number of now. *)
LEMMA NumberedAppend ==
    ASSUME NEW q \in Seq(LinkMessages), NEW m \in LinkMessages,
           NEW low \in Nat, NEW high \in Nat,
           NEW seen \in BOOLEAN, NEW armed \in BOOLEAN,
           Numbered(q, low, seen, armed, high),
           low <= high, ~seen /\ armed => low < high,
           IsHeartbeat(m) => m.armed = armed
    PROVE  Numbered(Append(q, m), low, seen, armed, high)
  <1>1. PICK tag \in [1 .. Len(q) -> Nat] : Numbering(q, tag, low, seen, armed, high)
    BY DEF Numbered
  <1> DEFINE r == Append(q, m)
             n == Len(q)
             new == [i \in 1 .. n + 1 |-> IF i <= n THEN tag[i] ELSE high]
  <1>2. /\ Len(r) = n + 1 /\ n \in Nat
        /\ \A i \in 1 .. n : r[i] = q[i] /\ r[i] \in LinkMessages
        /\ r[n + 1] = m
    OBVIOUS
  <1>3. /\ new \in [1 .. n + 1 -> Nat]
        /\ \A i \in 1 .. n : new[i] = tag[i]
        /\ new[n + 1] = high
    OBVIOUS
  <1> HIDE DEF r, new
  <1>4. Numbering(r, new, low, seen, armed, high)
    <2>1. ASSUME NEW i \in 1 .. Len(r), IsHeartbeat(r[i])
          PROVE  /\ low <= new[i] /\ new[i] <= high
                 /\ r[i].armed /\ ~seen => low < new[i]
                 /\ ~r[i].armed /\ armed => new[i] < high
      <3>1. CASE i = n + 1
        BY <1>2, <1>3, <2>1, <3>1
      <3>2. CASE i \in 1 .. n
        BY <1>1, <1>2, <1>3, <2>1, <3>2 DEF Numbering
      <3>. QED
        BY <1>2, <3>1, <3>2
    <2>2. ASSUME NEW i \in 1 .. Len(r), NEW j \in 1 .. Len(r),
                 IsHeartbeat(r[i]), IsHeartbeat(r[j]), i < j
          PROVE  /\ new[i] <= new[j]
                 /\ ~r[i].armed /\ r[j].armed => new[i] < new[j]
      <3>0. i \in 1 .. n
        BY <1>2, <2>2
      <3>1. CASE j = n + 1
        BY <1>1, <1>2, <1>3, <2>2, <3>0, <3>1 DEF Numbering
      <3>2. CASE j \in 1 .. n
        BY <1>1, <1>2, <1>3, <2>2, <3>0, <3>2 DEF Numbering
      <3>. QED
        BY <1>2, <3>1, <3>2
    <2>. QED
      BY <2>1, <2>2 DEF Numbering
  <1>. QED
    BY <1>2, <1>3, <1>4 DEF Numbered, r

(* The others keep their numbers when the first is parsed.  After a        *)
(* heartbeat that was disarmed the next armed one is of a later arming,    *)
(* and one that was armed is of an arming not captured yet.                *)
LEMMA NumberedTail ==
    ASSUME NEW q \in Seq(LinkMessages), q # <<>>,
           NEW low \in Nat, NEW high \in Nat,
           NEW seen \in BOOLEAN, NEW armed \in BOOLEAN,
           Numbered(q, low, seen, armed, high)
    PROVE  /\ Numbered(Tail(q), low, seen, armed, high)
           /\ IsHeartbeat(Head(q)) /\ ~Head(q).armed =>
                 /\ Numbered(Tail(q), low, FALSE, armed, high)
                 /\ armed => low < high
           /\ IsHeartbeat(Head(q)) /\ Head(q).armed /\ ~seen =>
                 /\ Numbered(Tail(q), low + 1, TRUE, armed, high)
                 /\ low + 1 <= high
  <1>1. PICK tag \in [1 .. Len(q) -> Nat] : Numbering(q, tag, low, seen, armed, high)
    BY DEF Numbered
  <1> DEFINE r == Tail(q)
             n == Len(q) - 1
             new == [i \in 1 .. n |-> tag[i + 1]]
  <1>2. /\ Len(r) = n /\ n \in Nat
        /\ Len(q) = n + 1
        /\ \A i \in 1 .. n : r[i] = q[i + 1]
        /\ Head(q) = q[1]
    BY TailShorter
  <1>3. /\ new \in [1 .. n -> Nat]
        /\ \A i \in 1 .. n : new[i] = tag[i + 1] /\ i + 1 \in 1 .. n + 1
        /\ tag[1] \in Nat
    BY <1>2
  <1> HIDE DEF r, n, new
  <1>4. /\ \A i \in 1 .. Len(q) : IsHeartbeat(q[i]) =>
              /\ low <= tag[i] /\ tag[i] <= high
              /\ q[i].armed /\ ~seen => low < tag[i]
              /\ ~q[i].armed /\ armed => tag[i] < high
        /\ \A i, j \in 1 .. Len(q) :
              IsHeartbeat(q[i]) /\ IsHeartbeat(q[j]) /\ i < j =>
                 /\ tag[i] <= tag[j]
                 /\ ~q[i].armed /\ q[j].armed => tag[i] < tag[j]
    BY <1>1 DEF Numbering
  <1>5. \A i, j \in 1 .. n :
           IsHeartbeat(r[i]) /\ IsHeartbeat(r[j]) /\ i < j =>
              /\ new[i] <= new[j]
              /\ ~r[i].armed /\ r[j].armed => new[i] < new[j]
    <2> SUFFICES ASSUME NEW i \in 1 .. n, NEW j \in 1 .. n,
                        IsHeartbeat(r[i]), IsHeartbeat(r[j]), i < j
                 PROVE  /\ new[i] <= new[j]
                        /\ ~r[i].armed /\ r[j].armed => new[i] < new[j]
      OBVIOUS
    <2>1. i + 1 \in 1 .. Len(q) /\ j + 1 \in 1 .. Len(q) /\ i + 1 < j + 1
      BY <1>2, <1>3
    <2>. QED
      BY <1>2, <1>3, <1>4, <2>1
  <1>6. ASSUME NEW i \in 1 .. n, IsHeartbeat(r[i])
        PROVE  /\ low <= new[i] /\ new[i] <= high
               /\ r[i].armed /\ ~seen => low < new[i]
               /\ ~r[i].armed /\ armed => new[i] < high
               /\ IsHeartbeat(q[1]) => tag[1] <= new[i]
               /\ IsHeartbeat(q[1]) /\ ~q[1].armed /\ r[i].armed => tag[1] < new[i]
    <2>1. i + 1 \in 1 .. Len(q) /\ 1 \in 1 .. Len(q) /\ 1 < i + 1
      BY <1>2, <1>3
    <2>. QED
      BY <1>2, <1>3, <1>4, <1>6, <2>1
  <1>7. 1 \in 1 .. Len(q)
    BY <1>2
  <1>8. Numbering(r, new, low, seen, armed, high)
    BY <1>2, <1>5, <1>6 DEF Numbering
  <1>9. ASSUME IsHeartbeat(q[1]), ~q[1].armed
        PROVE  Numbering(r, new, low, FALSE, armed, high) /\ (armed => low < high)
    <2>1. low <= tag[1] /\ (armed => tag[1] < high)
      BY <1>4, <1>7, <1>9
    <2>2. armed => low < high
      BY <1>3, <2>1
    <2>3. \A i \in 1 .. n : IsHeartbeat(r[i]) /\ r[i].armed => low < new[i]
      BY <1>3, <1>6, <1>9, <2>1
    <2>. QED
      BY <1>2, <1>5, <1>6, <2>2, <2>3 DEF Numbering
  <1>10. ASSUME IsHeartbeat(q[1]), q[1].armed, ~seen
         PROVE  Numbering(r, new, low + 1, TRUE, armed, high) /\ low + 1 <= high
    <2>1. low < tag[1] /\ tag[1] <= high
      BY <1>4, <1>7, <1>10
    <2>2. low + 1 <= high
      BY <1>3, <2>1
    <2>3. \A i \in 1 .. n : IsHeartbeat(r[i]) => low + 1 <= new[i]
      BY <1>3, <1>6, <1>10, <2>1
    <2>. QED
      BY <1>2, <1>5, <1>6, <2>2, <2>3 DEF Numbering
  <1>. QED
    BY <1>2, <1>3, <1>8, <1>9, <1>10 DEF Numbered, r

(* When the aircraft arms no number changes, and the armings are one more; *)
(* when it disarms there is less to say.                                   *)
LEMMA NumberedToggle ==
    ASSUME NEW q \in Seq(LinkMessages), NEW low \in Nat, NEW high \in Nat,
           NEW seen \in BOOLEAN
    PROVE  /\ Numbered(q, low, seen, FALSE, high) =>
                 Numbered(q, low, seen, TRUE, high + 1)
           /\ Numbered(q, low, seen, TRUE, high) =>
                 Numbered(q, low, seen, FALSE, high)
  <1>1. ASSUME NEW tag \in [1 .. Len(q) -> Nat],
               Numbering(q, tag, low, seen, FALSE, high)
        PROVE  Numbering(q, tag, low, seen, TRUE, high + 1)
    BY <1>1 DEF Numbering
  <1>2. ASSUME NEW tag \in [1 .. Len(q) -> Nat],
               Numbering(q, tag, low, seen, TRUE, high)
        PROVE  Numbering(q, tag, low, seen, FALSE, high)
    BY <1>2 DEF Numbering
  <1>. QED
    BY <1>1, <1>2 DEF Numbered

(* A takeoff that was dropped leaves room for another. *)
LEMMA NumberedLess ==
    ASSUME NEW q \in Seq(LinkMessages), NEW low \in Nat, NEW high \in Nat,
           NEW armed \in BOOLEAN, Numbered(q, low + 1, TRUE, armed, high)
    PROVE  Numbered(q, low, TRUE, armed, high)
  <1>1. PICK tag \in [1 .. Len(q) -> Nat] :
              Numbering(q, tag, low + 1, TRUE, armed, high)
    BY DEF Numbered
  <1>2. Numbering(q, tag, low, TRUE, armed, high)
    BY <1>1 DEF Numbering
  <1>. QED
    BY <1>2 DEF Numbered

(* A message is received: a heartbeat of the aircraft says what it is now, *)
(* and of the other autopilots none is accepted.                           *)
LEMMA ArmingReceive ==
    ASSUME TargetSystem = Aircraft, MavlinkTypeOK, ArmingInv,
           NEW m \in LinkMessages, Receive(m),
           IsHeartbeat(m) => m.armed = vehicle_armed[Aircraft]
    PROVE  ArmingInv'
  <1>1. /\ uart \in Seq(LinkMessages)
        /\ Capturing \in Nat
        /\ armings \in Nat
        /\ ArmedSeen \in BOOLEAN
        /\ vehicle_armed[Aircraft] \in BOOLEAN
    BY MavlinkAssumption DEF MavlinkTypeOK, Capturing, ArmedSeen
  <1>2. Numbered(Append(uart, m), Capturing, ArmedSeen, vehicle_armed[Aircraft], armings)
    BY <1>1, NumberedAppend DEF ArmingInv
  <1>3. /\ uart' = Append(uart, m)
        /\ UNCHANGED <<vehicle_armed, armings, captures, mav_update, s_was_armed>>
    BY DEF Receive
  <1>. QED
    BY <1>2, <1>3 DEF ArmingInv, Capturing, ArmedSeen

(* Every step of the link, the task and the store keeps the count. *)
LEMMA ArmingStep ==
    ASSUME TargetSystem = Aircraft
    PROVE  MavlinkTypeOK /\ ArmingInv /\ [MavlinkNext]_inputVars => ArmingInv'
  <1> SUFFICES ASSUME MavlinkTypeOK, ArmingInv, [MavlinkNext]_inputVars
               PROVE  ArmingInv'
    OBVIOUS
  <1> DEFINE armed == vehicle_armed[Aircraft]
  <1>1. /\ uart \in Seq(LinkMessages)
        /\ Capturing \in Nat
        /\ armings \in Nat
        /\ captures \in Nat
        /\ ArmedSeen \in BOOLEAN
        /\ armed \in BOOLEAN
    BY MavlinkAssumption DEF MavlinkTypeOK, Capturing, ArmedSeen
  <1>2. /\ Capturing <= armings
        /\ ~ArmedSeen /\ armed => Capturing < armings
        /\ Numbered(uart, Capturing, ArmedSeen, armed, armings)
    BY DEF ArmingInv
  <1>3. CASE UNCHANGED mavVars
    BY <1>3 DEF mavVars, ArmingInv, Capturing, ArmedSeen
  <1>4. ASSUME NEW v \in Vehicles, ToggleArmed(v) PROVE ArmingInv'
    <2>1. /\ vehicle_armed' = [vehicle_armed EXCEPT ![v] = ~@]
          /\ armings' = IF v = Aircraft /\ ~armed THEN armings + 1 ELSE armings
          /\ UNCHANGED <<uart, captures, mav_update, s_was_armed>>
      BY <1>4 DEF ToggleArmed
    <2>2. Capturing' = Capturing /\ ArmedSeen' = ArmedSeen
      BY <2>1 DEF Capturing, ArmedSeen
    <2>3. CASE v # Aircraft
      <3>1. vehicle_armed'[Aircraft] = armed /\ armings' = armings
        BY <2>1, <2>3, MavlinkAssumption DEF MavlinkTypeOK
      <3>. QED
        BY <1>2, <2>1, <2>2, <3>1 DEF ArmingInv
    <2>4. CASE v = Aircraft /\ ~armed
      <3>1. vehicle_armed'[Aircraft] = TRUE /\ armings' = armings + 1
        BY <2>1, <2>4, MavlinkAssumption DEF MavlinkTypeOK
      <3>2. armed = FALSE
        BY <1>1, <2>4
      <3>3. Numbered(uart, Capturing, ArmedSeen, TRUE, armings + 1)
        BY <1>1, <1>2, <3>2, NumberedToggle
      <3>4. Numbered(uart', Capturing', ArmedSeen', vehicle_armed'[Aircraft], armings')
        BY <2>1, <2>2, <3>1, <3>3, Zenon
      <3>. QED
        BY <1>1, <1>2, <2>2, <3>1, <3>4 DEF ArmingInv
    <2>5. CASE v = Aircraft /\ armed
      <3>1. vehicle_armed'[Aircraft] = FALSE /\ armings' = armings
        BY <2>1, <2>5, MavlinkAssumption DEF MavlinkTypeOK
      <3>2. armed = TRUE
        BY <1>1, <2>5
      <3>3. Numbered(uart, Capturing, ArmedSeen, FALSE, armings)
        BY <1>1, <1>2, <3>2, NumberedToggle
      <3>4. Numbered(uart', Capturing', ArmedSeen', vehicle_armed'[Aircraft], armings')
        BY <2>1, <2>2, <3>1, <3>3, Zenon
      <3>. QED
        BY <1>2, <2>2, <3>1, <3>4 DEF ArmingInv
    <2>. QED
      BY <2>3, <2>4, <2>5
  <1>5. ASSUME NEW v \in Vehicles, Receive(Heartbeat(v)) PROVE ArmingInv'
    <2>1. Heartbeat(v) \in LinkMessages
      BY DEF MavlinkTypeOK, LinkMessages, Heartbeat
    <2>2. IsHeartbeat(Heartbeat(v)) => Heartbeat(v).armed = armed
      BY MavlinkAssumption DEF IsHeartbeat, HeartbeatAccepted, Heartbeat
    <2>. QED
      BY <1>5, <2>1, <2>2, ArmingReceive
  <1>6. CASE Receive(OtherHeartbeat)
    BY <1>6, ArmingReceive
       DEF LinkMessages, IsHeartbeat, HeartbeatAccepted, OtherHeartbeat
  <1>7. ASSUME NEW m \in OdidMessages, Receive(m) PROVE ArmingInv'
    BY <1>7, MessagesAssumption, ArmingReceive DEF LinkMessages, IsHeartbeat
  <1>8. ASSUME Parsed
        PROVE  /\ mav_update = NoUpdate
               /\ uart # <<>>
               /\ Head(uart) \in LinkMessages
               /\ uart' = Tail(uart)
               /\ Capturing = captures
               /\ ArmedSeen = s_was_armed
    BY <1>8, ParsedTyped DEF Parsed, Capturing, ArmedSeen, NoUpdate, Takeoff, MavlinkTypeOK
  <1>9. ASSUME Parsed, UNCHANGED <<vehicle_armed, armings, captures, s_was_armed>>,
               mav_update' # Takeoff
        PROVE  ArmingInv'
    <2>1. Numbered(Tail(uart), Capturing, ArmedSeen, armed, armings)
      BY <1>1, <1>2, <1>8, <1>9, NumberedTail
    <2>2. Capturing' = Capturing /\ ArmedSeen' = ArmedSeen
      BY <1>1, <1>8, <1>9 DEF Capturing, ArmedSeen
    <2>. QED
      BY <1>2, <1>8, <1>9, <2>1, <2>2 DEF ArmingInv
  <1>10. CASE HandleOdid
    <2>1. OdidUpdate(Head(uart)).type # "TAKEOFF"
      BY <1>10 DEF HandleOdid, HandledMsgids, OdidUpdate
    <2>. QED
      BY <1>9, <1>10, <2>1 DEF HandleOdid, BeginSubmit, Takeoff
  <1>11. CASE IgnoreMessage
    BY <1>8, <1>9, <1>11 DEF IgnoreMessage, NoUpdate, Takeoff
  <1>12. CASE HandleArming
    <2>1. /\ Parsed
          /\ IsHeartbeat(Head(uart)) /\ Head(uart).armed
          /\ ~s_was_armed
      BY <1>12 DEF HandleArming, IsHeartbeat
    <2>2. /\ mav_update' = Takeoff
          /\ UNCHANGED <<vehicle_armed, armings, captures, s_was_armed>>
      BY <1>12 DEF HandleArming, BeginSubmit
    <2>3. /\ Numbered(Tail(uart), Capturing + 1, TRUE, armed, armings)
          /\ Capturing + 1 <= armings
      BY <1>1, <1>2, <1>8, <2>1, NumberedTail
    <2>4. Capturing' = Capturing + 1 /\ ArmedSeen' = TRUE
      BY <1>1, <1>8, <2>1, <2>2 DEF Capturing, ArmedSeen
    <2>. QED
      BY <1>8, <2>1, <2>2, <2>3, <2>4 DEF ArmingInv
  <1>13. CASE HandleHeartbeat
    <2>1. /\ Parsed
          /\ UNCHANGED <<vehicle_armed, armings, captures, mav_update>>
          /\ Capturing' = Capturing
      BY <1>13 DEF HandleHeartbeat, Capturing
    <2>2. CASE s_was_armed' = s_was_armed
      BY <1>8, <1>9, <2>1, <2>2 DEF NoUpdate, Takeoff
    <2>3. CASE s_was_armed' # s_was_armed
      <3>1. /\ IsHeartbeat(Head(uart))
            /\ s_was_armed' = Head(uart).armed
            /\ Head(uart).armed => s_was_armed
        BY <1>13, <2>3 DEF HandleHeartbeat, IsHeartbeat
      <3>2. Head(uart).armed \in BOOLEAN
        BY <1>8, <2>1, <3>1, HeartbeatArmed
      <3>3. ~Head(uart).armed /\ s_was_armed' = FALSE
        BY <2>3, <3>1, <3>2 DEF MavlinkTypeOK
      <3>4. /\ Numbered(Tail(uart), Capturing, FALSE, armed, armings)
            /\ armed => Capturing < armings
        BY <1>1, <1>2, <1>8, <2>1, <3>1, <3>3, NumberedTail
      <3>5. ArmedSeen' = FALSE
        BY <1>8, <2>1, <3>3 DEF ArmedSeen, NoUpdate, Takeoff
      <3>. QED
        BY <1>2, <1>8, <2>1, <3>4, <3>5 DEF ArmingInv
    <2>. QED
      BY <2>2, <2>3
  <1>14. ASSUME SubmitReturns PROVE ArmedSeen' = ArmedSeen
    BY <1>14 DEF SubmitReturns, ArmedSeen, NoUpdate, Takeoff, MavlinkTypeOK
  <1>15. CASE SubmitAccepted
    <2>1. /\ Capturing' = Capturing
          /\ ArmedSeen' = ArmedSeen
          /\ UNCHANGED <<vehicle_armed, uart, armings>>
      BY <1>1, <1>14, <1>15
         DEF SubmitAccepted, SubmitReturns, Capturing, NoUpdate, Takeoff
    <2>. QED
      BY <1>2, <2>1 DEF ArmingInv
  <1>16. CASE SubmitDropped
    <2>1. /\ Capturing' = captures
          /\ ArmedSeen' = ArmedSeen
          /\ UNCHANGED <<vehicle_armed, uart, armings>>
      BY <1>1, <1>14, <1>16
         DEF SubmitDropped, SubmitReturns, Capturing, NoUpdate, Takeoff
    <2>2. CASE mav_update = Takeoff
      <3>1. Capturing = captures + 1 /\ ArmedSeen = TRUE
        BY <2>2 DEF Capturing, ArmedSeen
      <3>2. Numbered(uart, captures, TRUE, armed, armings)
        BY <1>1, <1>2, <3>1, NumberedLess
      <3>3. Numbered(uart', Capturing', ArmedSeen', vehicle_armed'[Aircraft], armings')
        BY <2>1, <3>1, <3>2, Zenon
      <3>. QED
        BY <1>1, <1>2, <2>1, <3>1, <3>3 DEF ArmingInv
    <2>3. CASE mav_update # Takeoff
      <3>1. Capturing = captures
        BY <1>1, <2>3 DEF Capturing
      <3>. QED
        BY <1>2, <2>1, <3>1 DEF ArmingInv
    <2>. QED
      BY <2>2, <2>3
  <1>17. CASE MavlinkStoreApplies
    BY <1>17 DEF MavlinkStoreApplies, ArmingInv, Capturing, ArmedSeen
  <1>. QED
    BY <1>3, <1>4, <1>5, <1>6, <1>7, <1>10, <1>11, <1>12, <1>13, <1>15, <1>16, <1>17
       DEF MavlinkNext, Environment, MavlinkTask, inputVars

(* With the aircraft's system configured as the target, a takeoff is       *)
(* captured at most once for each time the aircraft arms, whatever other   *)
(* autopilots and ground stations say and whichever heartbeats are lost or *)
(* late (mavlink.c:58-82).                                                 *)
THEOREM CapturesFollowArmings ==
    ASSUME TargetSystem = Aircraft
    PROVE  MavlinkSpec => []CapturesNeedArmings
  <1>1. MavlinkInit => ArmingInv
    <2> SUFFICES ASSUME MavlinkInit PROVE ArmingInv
      OBVIOUS
    <2>1. Capturing = 0
      BY DEF MavlinkInit, Capturing, NoUpdate, Takeoff
    <2>2. Numbered(uart, Capturing, ArmedSeen, vehicle_armed[Aircraft], armings)
      <3>1. Len(uart) = 0
        BY DEF MavlinkInit
      <3>2. Numbering(uart, [i \in 1 .. Len(uart) |-> 0], Capturing, ArmedSeen,
                      vehicle_armed[Aircraft], armings)
        BY <3>1 DEF Numbering
      <3>. QED
        BY <3>2 DEF Numbered
    <2>. QED
      BY <2>1, <2>2 DEF MavlinkInit, ArmingInv
  <1>2. MavlinkTypeOK /\ ArmingInv => CapturesNeedArmings
    BY MavlinkAssumption
       DEF ArmingInv, Capturing, MavlinkTypeOK, CapturesNeedArmings
  <1>. QED
    BY <1>1, <1>2, ArmingStep, MavlinkTypes, PTL DEF MavlinkSpec

-----------------------------------------------------------------------------
(* The firmware *)

FirmwareInv ==
    /\ traffic \in Traffics
    /\ TypeOK
    /\ MavlinkTypeOK

(* A step of a transport changes nothing of the store but its own copy. *)
LEMMA TransportKeepsStore ==
    ASSUME NEW t \in Transports, Transport(t)
    PROVE  UNCHANGED <<state, ready, pending>>
  BY DEF Transport, FirstWait, CheckReady, Pause, Resume, TakeSnapshot,
         GetSnapshot, SkipUnencodable, Send, storeVars

(* For the transports a step of the input task is that of an input source  *)
(* or nothing at all, and the store task is what it is for them.           *)
LEMMA FirmwareStep ==
    FirmwareInv /\ [FirmwareNext]_firmwareVars => FirmwareInv' /\ [Next]_vars
  <1> SUFFICES ASSUME FirmwareInv, [FirmwareNext]_firmwareVars
               PROVE  FirmwareInv' /\ [Next]_vars
    OBVIOUS
  <1> USE DEF FirmwareInv
  <1>1. ASSUME traffic' = traffic, [Next]_vars, [MavlinkNext]_inputVars
        PROVE  FirmwareInv' /\ [Next]_vars
    BY <1>1, TypeStep, MavlinkTypeStep
  <1>2. CASE LinkDelivers
    <2>1. PICK m \in OdidMessages : Receive(m)
      BY <1>2, FirmwareAssumption DEF LinkDelivers
    <2>2. MavlinkNext
      BY <2>1 DEF MavlinkNext, Environment
    <2>3. UNCHANGED vars
      BY <1>2, <2>1 DEF LinkDelivers, Receive, vars
    <2>. QED
      BY <1>1, <1>2, <2>2, <2>3 DEF LinkDelivers
  <1>3. CASE InputTask
    <2>1. MavlinkNext /\ UNCHANGED <<traffic, bleVars>>
      BY <1>3 DEF InputTask, MavlinkNext
    <2>2. CASE SubmitAccepted
      <3>1. \E u \in Inputs : Submit(u)
        BY <2>2 DEF SubmitAccepted, SubmitReturns, MavlinkTypeOK
      <3>. QED
        BY <1>1, <2>1, <3>1 DEF Next, InputSubmits
    <2>3. CASE ~SubmitAccepted
      <3>1. UNCHANGED storeVars
        BY <1>3, <2>3
           DEF InputTask, MavlinkTask, HandleOdid, IgnoreMessage, HandleArming,
               HandleHeartbeat, BeginSubmit, SubmitDropped, SubmitTimesOut
      <3>. QED
        BY <1>1, <2>1, <3>1 DEF vars
    <2>. QED
      BY <2>2, <2>3
  <1>4. CASE StoreTask
    BY <1>1, <1>4 DEF StoreTask, Next, MavlinkNext
  <1>5. ASSUME NEW t \in Transports, TransportTask(t)
        PROVE  FirmwareInv' /\ [Next]_vars
    <2>1. Next /\ UNCHANGED <<traffic, mavVars, pending>>
      BY <1>5, TransportKeepsStore DEF TransportTask, Next
    <2>2. TypeOK' /\ StoreTypeOK'
      BY <2>1, TypeStep DEF TypeOK
    <2>3. MavlinkTypeOK'
      BY <2>1, <2>2 DEF MavlinkTypeOK, mavVars
    <2>. QED
      BY <2>1, <2>2, <2>3
  <1>6. CASE UNCHANGED firmwareVars
    <2>1. traffic' = traffic /\ UNCHANGED vars /\ UNCHANGED inputVars
      BY <1>6 DEF firmwareVars, vars, inputVars
    <2>. QED
      BY <1>1, <2>1
  <1>. QED
    BY <1>2, <1>3, <1>4, <1>5, <1>6 DEF FirmwareNext

(* The firmware starts as its tasks do. *)
LEMMA FirmwareStarts == FirmwareInit => FirmwareInv
  BY TypeInit, MavlinkTypeInit DEF FirmwareInit, FirmwareInv

(* The types of all tasks that run together. *)
LEMMA FirmwareTypes == FirmwareSpec => []FirmwareInv
  BY FirmwareStarts, FirmwareStep, PTL DEF FirmwareSpec

(* To the transports the input task behind its link, which blocks, drops   *)
(* and overtakes nothing, is an input source that may submit anything, as  *)
(* module BleTransport has it: the firmware implements it, and what is     *)
(* proved of the transports there holds of the firmware                    *)
(* (mavlink.c:255-262, store.c:135-193, ble.c:151-207).                    *)
THEOREM FirmwareImplementsTransports == FirmwareSpec => Spec
  <1>1. FirmwareInit => Init
    BY DEF FirmwareInit
  <1>2. FirmwareInv /\ [FirmwareNext]_firmwareVars => [Next]_vars
    BY FirmwareStep
  <1>. QED
    BY <1>1, <1>2, FirmwareTypes, PTL DEF FirmwareSpec, Spec

(* Fed from the link a transport that waits for an identity is off the     *)
(* air, sees one unusable state of an outage at most, and numbers its      *)
(* frames without a gap (ble.c:112-149, 157-168).                          *)
THEOREM FirmwareTransportsSafe ==
    FirmwareSpec => /\ []PausedMeansSilent
                    /\ []OneLeakPerOutage
                    /\ []CountersConsecutive
  BY FirmwareImplementsTransports, PausedSilent, LeaksBounded, CountersFollow, PTL

=============================================================================
