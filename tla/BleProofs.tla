------------------------------ MODULE BleProofs ------------------------------
(***************************************************************************)
(* Proofs about the gate of module BleTransport for every set of           *)
(* transports, every schedule, every input and every outcome of            *)
(* advertise_ble: a paused transport is silent, and of one outage a        *)
(* transport sees at most one unusable state.                              *)
(***************************************************************************)
EXTENDS BleTransport, AtomicStoreProofs

GateTypeOK ==
    /\ ready \in BOOLEAN
    /\ pc \in [Transports -> {"start", "check", "wait", "snapshot", "send"}]
    /\ started \in [Transports -> BOOLEAN]
    /\ advertising \in [Transports -> BOOLEAN]
    /\ leaks \in [Transports -> Nat]

GateInv == GateTypeOK /\ PausedMeansSilent /\ OneLeakPerOutage /\ LeakInv

(* Before the first wait_ready every transport is silent. *)
LEMMA GateInit == Init => GateInv
BY UsableBoolean
   DEF Init, StoreInit, BleInit, GateInv, GateTypeOK, PausedMeansSilent,
       OneLeakPerOutage, LeakInv

(* advertise_ble puts its instance on the air exactly when it says so. *)
LEMMA AdvertiseGate ==
    ASSUME GateTypeOK, NEW t \in Transports, NEW slot, NEW message, NEW result,
           started[t] = advertising[t],
           Advertise(t, slot, message, result)
    PROVE  /\ started' \in [Transports -> BOOLEAN]
           /\ advertising' \in [Transports -> BOOLEAN]
           /\ started'[t] = advertising'[t]
           /\ \A u \in Transports \ {t} :
                 started'[u] = started[u] /\ advertising'[u] = advertising[u]
<1>1. CASE result \in {"no_data", "no_start"}
  BY <1>1 DEF Advertise, GateTypeOK
<1>2. CASE result = "ok"
  <2>1. /\ started' = [started EXCEPT ![t] = TRUE]
        /\ advertising' = [advertising EXCEPT
                              ![t] = IF started[t] THEN advertising[t] ELSE TRUE]
    BY <1>2 DEF Advertise
  <2>2. QED
    BY <2>1 DEF GateTypeOK
<1>3. QED
  BY <1>1, <1>2 DEF Advertise

(* Every step of the input, the store task or a transport keeps the gate. *)
LEMMA GateStep == GateInv /\ [Next]_vars => GateInv'
<1> SUFFICES ASSUME GateInv, [Next]_vars PROVE GateInv'
  OBVIOUS
<1> USE DEF GateInv, GateTypeOK, PausedMeansSilent, OneLeakPerOutage, LeakInv,
            Transports
<1>1. CASE InputSubmits
  BY <1>1 DEF InputSubmits, Submit, bleVars
<1>2. CASE StoreApplies
  <2>1. ready' \in BOOLEAN
    BY <1>2, UsableBoolean DEF StoreApplies, ApplyUpdate
  <2>2. QED
    BY <1>2, <2>1 DEF StoreApplies
<1>3. ASSUME NEW t \in Transports, FirstWait(t) PROVE GateInv'
  BY <1>3 DEF FirstWait, storeVars
<1>4. ASSUME NEW t \in Transports, CheckReady(t) PROVE GateInv'
  BY <1>4 DEF CheckReady, storeVars
<1>5. ASSUME NEW t \in Transports, Pause(t) PROVE GateInv'
  BY <1>5 DEF Pause, storeVars
<1>6. ASSUME NEW t \in Transports, Resume(t) PROVE GateInv'
  BY <1>6 DEF Resume, storeVars
<1>7. ASSUME NEW t \in Transports, TakeSnapshot(t) PROVE GateInv'
  <2> USE <1>7 DEF TakeSnapshot, GetSnapshot, MaxLeaks
  <2>1. ~ready => leaks[t] = 0
    OBVIOUS
  <2>2. leaks' = [leaks EXCEPT ![t] = IF ready THEN leaks[t] ELSE 1]
    <3>1. leaks[t] # 2
      BY SMT
    <3>2. CASE ready
      BY <3>2
    <3>3. CASE ~ready
      BY <2>1, <3>1, <3>3
    <3>4. QED
      BY <3>2, <3>3
  <2>3. QED
    BY <2>2
<1>8. ASSUME NEW t \in Transports, SkipUnencodable(t) PROVE GateInv'
  BY <1>8 DEF SkipUnencodable, storeVars
<1>9. ASSUME NEW t \in Transports, Send(t) PROVE GateInv'
  <2>1. PICK slot, message, result : Advertise(t, slot, message, result)
    BY <1>9 DEF Send
  <2>2. /\ started' \in [Transports -> BOOLEAN]
        /\ advertising' \in [Transports -> BOOLEAN]
        /\ started'[t] = advertising'[t]
        /\ \A u \in Transports \ {t} :
              started'[u] = started[u] /\ advertising'[u] = advertising[u]
    BY <2>1, AdvertiseGate
  <2>3. /\ pc' = [pc EXCEPT ![t] = "check"]
        /\ UNCHANGED <<ready, leaks>>
    BY <1>9 DEF Send, storeVars
  <2>4. QED
    BY <1>9, <2>2, <2>3 DEF Send
<1>10. CASE UNCHANGED vars
  BY <1>10 DEF vars, storeVars, bleVars
<1>11. QED
  BY <1>1, <1>2, <1>3, <1>4, <1>5, <1>6, <1>7, <1>8, <1>9, <1>10
     DEF Next, Transport

(* The gate's invariant holds throughout. *)
LEMMA GateCorrect == Spec => []GateInv
BY GateInit, GateStep, PTL DEF Spec

(* A transport that waits for an identity is off the air, and started is   *)
(* true exactly when the controller advertises (ble.c:138-145, 157-165).   *)
THEOREM PausedSilent == Spec => []PausedMeansSilent
<1>1. GateInv => PausedMeansSilent
  BY DEF GateInv
<1>2. QED
  BY <1>1, GateCorrect, PTL

(* Of one outage of the identity a transport copies at most one unusable   *)
(* state (ble.c:161-168).                                                  *)
THEOREM LeaksBounded == Spec => []OneLeakPerOutage
<1>1. GateInv => OneLeakPerOutage
  BY DEF GateInv
<1>2. QED
  BY <1>1, GateCorrect, PTL

-----------------------------------------------------------------------------
(* Types *)

(* The four messages of a state are messages. *)
LEMMA MessagesTyped ==
    ASSUME NEW s \in States
    PROVE  /\ BasicIdMessage(s) \in Messages
           /\ OperatorIdMessage(s) \in Messages
           /\ LocationMessage(s) \in Messages
           /\ SystemMessage(s) \in Messages
  <1> USE DEF States, Messages
  <1>1. BasicIdMessage(s) \in Messages
    BY DEF BasicIdMessage
  <1>2. OperatorIdMessage(s) \in Messages
    BY DEF OperatorIdMessage
  <1>3. LocationMessage(s) \in Messages
    BY DEF LocationMessage
  <1>4. SystemMessage(s) \in Messages
    BY StoreDataAssumption DEF SystemMessage
  <1>. QED
    BY <1>1, <1>2, <1>3, <1>4

(* Of every message there is a counter. *)
LEMMA TypesOfMessages ==
    \A message \in Messages \cup Pages : message.type \in MessageTypes
  BY DEF Messages, Pages, Zeroed, MessageTypes, MessageSlots

(* The schedule is of slots; its first eight are those of messages.        *)
LEMMA ScheduleTyped ==
    /\ Len(Schedule) = IF AuthEnabled THEN 12 ELSE 8
    /\ \A i \in 1 .. Len(Schedule) : Schedule[i] \in Slots
    /\ \A i \in 1 .. 8 : Schedule[i] \in MessageSlots
    /\ \A i \in 1 .. Len(Schedule) :
          Schedule[i] \in AuthSlots <=> i > 8
    /\ \A i \in 1 .. Len(Schedule) : Schedule[i] = "AUTH_0" <=> i = 9
    /\ Schedule[2] = "LOCATION" /\ Schedule[5] = "SYSTEM"
  <1> DEFINE msgs == <<"BASIC_ID", "LOCATION", "BASIC_ID", "LOCATION", "SYSTEM",
                       "LOCATION", "OPERATOR_ID", "LOCATION">>
             auth == <<"AUTH_0", "AUTH_1", "AUTH_2", "AUTH_3">>
  <1>1. CASE AuthEnabled
    <2>1. /\ msgs \in Seq(Slots)
          /\ auth \in Seq(Slots)
          /\ Len(msgs) = 8
          /\ Len(auth) = 4
      BY DEF Slots, MessageSlots, AuthSlots
    <2>2. Schedule = msgs \o auth
      BY <1>1 DEF Schedule
    <2> DEFINE cat == msgs \o auth
    <2> HIDE DEF msgs, auth
    <2>3. /\ Len(cat) = Len(msgs) + Len(auth)
          /\ \A i \in 1 .. Len(msgs) + Len(auth) :
                cat[i] = IF i <= Len(msgs) THEN msgs[i] ELSE auth[i - Len(msgs)]
      BY <2>1, ConcatProperties, Zenon
    <2> HIDE DEF cat
    <2>4. /\ Len(cat) = 12
          /\ \A i \in 1 .. 12 : cat[i] = IF i <= 8 THEN msgs[i] ELSE auth[i - 8]
      BY <2>1, <2>3
    <2>. QED
      BY <1>1, <2>2, <2>4 DEF msgs, auth, cat, Slots, MessageSlots, AuthSlots
  <1>2. CASE ~AuthEnabled
    <2>1. Schedule = msgs
      BY <1>2 DEF Schedule
    <2>. QED
      BY <1>2, <2>1 DEF Slots, MessageSlots, AuthSlots
  <1>. QED
    BY <1>1, <1>2, BleAssumption

(* What the encoder and the signer make of a bundle is a bundle. *)
LEMMA EncodeTyped ==
    ASSUME NEW s \in States, NEW b \in Bundles, NEW slot \in Slots
    PROVE  /\ EncodeStatic(s, b) \in Bundles
           /\ EncodeDynamic(s, b, slot) \in Bundles
           /\ AuthBundle(s, b, slot) \in Bundles
  <1>1. /\ BasicIdMessage(s) \in Messages
        /\ OperatorIdMessage(s) \in Messages
        /\ LocationMessage(s) \in Messages
        /\ SystemMessage(s) \in Messages
    BY MessagesTyped
  <1> USE DEF Bundles, Slots, MessageSlots
  <1>2. EncodeStatic(s, b) \in Bundles
    BY <1>1 DEF EncodeStatic
  <1>3. EncodeDynamic(s, b, slot) \in Bundles
    BY <1>1 DEF EncodeDynamic
  <1>4. SignBundle(b) \in Bundles
    <2>1. Signed(b) \in [MessageSlots -> Messages]
      BY DEF Signed
    <2>2. MessageSlots \cap AuthSlots = {}
      BY DEF AuthSlots
    <2>. QED
      BY <2>1, <2>2 DEF SignBundle, Pages
  <1>. QED
    BY <1>2, <1>3, <1>4 DEF AuthBundle

(* The bundle one iteration of the loop sends from, and keeps. *)
StaticBundle(t) == EncodeStatic(snapshot[t], bundle[t])

SentBundle(t) ==
    IF Slot(t) \in AuthSlots
    THEN AuthBundle(snapshot[t], StaticBundle(t), Slot(t))
    ELSE EncodeDynamic(snapshot[t], StaticBundle(t), Slot(t))

(* An iteration sends what a slot of the schedule holds. *)
LEMMA SentTyped ==
    ASSUME TypeOK, NEW t \in Transports
    PROVE  /\ Slot(t) \in Slots
           /\ snapshot[t] \in States
           /\ bundle[t] \in Bundles
           /\ StaticBundle(t) \in Bundles
           /\ SentBundle(t) \in Bundles
           /\ SentBundle(t)[Slot(t)] \in Messages \cup Pages
  <1>1. Slot(t) \in Slots
    BY ScheduleTyped DEF TypeOK, Slot
  <1>2. snapshot[t] \in States /\ bundle[t] \in Bundles
    BY DEF TypeOK, StoreTypeOK, Transports
  <1>3. StaticBundle(t) \in Bundles /\ SentBundle(t) \in Bundles
    BY <1>1, <1>2, EncodeTyped DEF StaticBundle, SentBundle
  <1>. QED
    BY <1>1, <1>2, <1>3 DEF Bundles

(* Send, in these terms. *)
LEMMA SendBundle ==
    ASSUME NEW t \in Transports, Send(t)
    PROVE  /\ bundle' = [bundle EXCEPT ![t] = SentBundle(t)]
           /\ schedule_index' = [schedule_index EXCEPT ![t] = NextIndex(@)]
           /\ \E result \in AdvResults :
                 Advertise(t, Slot(t), SentBundle(t)[Slot(t)], result)
  BY DEF Send, SentBundle, StaticBundle

(* advertise_ble keeps the types: a counter wraps like a uint8_t. *)
LEMMA AdvertiseTyped ==
    ASSUME TypeOK, NEW t \in Transports, NEW slot \in Slots,
           NEW message \in Messages \cup Pages, NEW result,
           Advertise(t, slot, message, result)
    PROVE  /\ started' \in [Transports -> BOOLEAN]
           /\ counters' \in [Transports -> [MessageTypes -> 0 .. CounterMod - 1]]
           /\ adv_data' \in [Transports -> Frames \cup {NoFrame}]
           /\ advertising' \in [Transports -> BOOLEAN]
           /\ aired' \in [Transports -> [Slots -> Frames \cup {NoFrame}]]
           /\ heard' \in [Transports ->
                             [MessageTypes -> 0 .. CounterMod - 1 \cup {NoCounter}]]
  <1> USE DEF TypeOK
  <1>1. message.type \in MessageTypes
    BY TypesOfMessages
  <1> DEFINE n == (counters[t][message.type] + 1) % CounterMod
             frame == [slot |-> slot, message |-> message,
                       counter |-> counters[t][message.type]]
             up == IF started[t] THEN advertising[t] ELSE TRUE
  <1>2. frame \in Frames
    BY <1>1 DEF Frames
  <1>3. n \in 0 .. CounterMod - 1
    BY <1>1, BleAssumption
  <1>4. frame.counter \in 0 .. CounterMod - 1
    BY <1>1
  <1>5. up \in BOOLEAN
    OBVIOUS
  <1>6. CASE result = "no_data"
    BY <1>6 DEF Advertise
  <1>7. CASE result = "no_start"
    <2>1. /\ adv_data' = [adv_data EXCEPT ![t] = frame]
          /\ UNCHANGED <<started, counters, advertising, aired, heard>>
      BY <1>7 DEF Advertise
    <2> HIDE DEF frame
    <2>. QED
      BY <1>2, <2>1
  <1>8. CASE result = "ok"
    <2>1. /\ adv_data' = [adv_data EXCEPT ![t] = frame]
          /\ advertising' = [advertising EXCEPT ![t] = up]
          /\ started' = [started EXCEPT ![t] = TRUE]
          /\ counters' = [counters EXCEPT ![t][message.type] = n]
          /\ aired' = IF up THEN [aired EXCEPT ![t][slot] = frame] ELSE aired
          /\ heard' = IF up THEN [heard EXCEPT ![t][message.type] = frame.counter]
                      ELSE heard
      BY <1>8 DEF Advertise
    <2> HIDE DEF frame, n, up
    <2>2. counters' \in [Transports -> [MessageTypes -> 0 .. CounterMod - 1]]
      BY <1>1, <1>3, <2>1
    <2>3. /\ aired' \in [Transports -> [Slots -> Frames \cup {NoFrame}]]
          /\ adv_data' \in [Transports -> Frames \cup {NoFrame}]
      BY <1>2, <2>1
    <2>4. heard' \in [Transports ->
                         [MessageTypes -> 0 .. CounterMod - 1 \cup {NoCounter}]]
      BY <1>1, <1>4, <2>1
    <2>. QED
      BY <1>5, <2>1, <2>2, <2>3, <2>4
  <1>. QED
    BY <1>6, <1>7, <1>8 DEF Advertise

(* Every task starts with a zeroed context. *)
LEMMA TypeInit == Init => TypeOK
  <1> SUFFICES ASSUME Init PROVE TypeOK
    OBVIOUS
  <1>1. StoreTypeOK
    BY StoreInitTyped DEF Init
  <1>2. bundle \in [Transports -> Bundles]
    <2>1. [slot \in Slots |-> Zeroed] \in Bundles
      BY DEF Bundles, Messages, Slots
    <2>. QED
      BY <2>1 DEF Init, BleInit
  <1>3. /\ schedule_index \in [Transports -> 0 .. Len(Schedule) - 1]
        /\ counters \in [Transports -> [MessageTypes -> 0 .. CounterMod - 1]]
        /\ leaks \in [Transports -> 0 .. MaxLeaks]
    BY ScheduleTyped, BleAssumption DEF Init, BleInit, MaxLeaks
  <1>. QED
    BY <1>1, <1>2, <1>3 DEF Init, BleInit, TypeOK

(* Every step of the input, the store task or a transport keeps the types. *)
LEMMA TypeStep == TypeOK /\ [Next]_vars => TypeOK'
  <1> SUFFICES ASSUME TypeOK, [Next]_vars PROVE TypeOK'
    OBVIOUS
  <1>1. CASE InputSubmits
    <2>1. StoreTypeOK'
      BY <1>1, SubmitTyped DEF InputSubmits, TypeOK
    <2>. QED
      BY <1>1, <2>1 DEF InputSubmits, bleVars, TypeOK
  <1>2. CASE StoreApplies
    <2>1. StoreTypeOK'
      BY <1>2, ApplyUpdateTyped DEF StoreApplies, TypeOK
    <2>. QED
      BY <1>2, <2>1 DEF StoreApplies, TypeOK, MaxLeaks
  <1>3. ASSUME NEW t \in Transports,
               \/ FirstWait(t) \/ CheckReady(t) \/ Pause(t) \/ Resume(t)
               \/ SkipUnencodable(t)
        PROVE  TypeOK'
    <2>1. StoreTypeOK'
      BY <1>3 DEF FirstWait, CheckReady, Pause, Resume, SkipUnencodable,
                  storeVars, TypeOK, StoreTypeOK
    <2>. QED
      BY <1>3, <2>1
         DEF FirstWait, CheckReady, Pause, Resume, SkipUnencodable, TypeOK
  <1>4. ASSUME NEW t \in Transports, TakeSnapshot(t) PROVE TypeOK'
    <2>1. StoreTypeOK'
      BY <1>4, GetSnapshotTyped DEF TakeSnapshot, TypeOK, Transports
    <2>2. leaks' \in [Transports -> 0 .. MaxLeaks]
      BY <1>4 DEF TakeSnapshot, TypeOK, MaxLeaks
    <2>. QED
      BY <1>4, <2>1, <2>2 DEF TakeSnapshot, TypeOK
  <1>5. ASSUME NEW t \in Transports, Send(t) PROVE TypeOK'
    <2> DEFINE slot == Slot(t)
               b == SentBundle(t)
    <2>1. slot \in Slots /\ b \in Bundles /\ b[slot] \in Messages \cup Pages
      BY SentTyped
    <2>2. PICK result : Advertise(t, slot, b[slot], result)
      BY <1>5, SendBundle
    <2>3. /\ bundle' = [bundle EXCEPT ![t] = b]
          /\ schedule_index' = [schedule_index EXCEPT ![t] = NextIndex(@)]
      BY <1>5, SendBundle
    <2>4. /\ pc' = [pc EXCEPT ![t] = "check"]
          /\ UNCHANGED <<storeVars, leaks>>
      BY <1>5 DEF Send
    <2> HIDE DEF slot, b
    <2>5. /\ started' \in [Transports -> BOOLEAN]
          /\ counters' \in [Transports -> [MessageTypes -> 0 .. CounterMod - 1]]
          /\ adv_data' \in [Transports -> Frames \cup {NoFrame}]
          /\ advertising' \in [Transports -> BOOLEAN]
          /\ aired' \in [Transports -> [Slots -> Frames \cup {NoFrame}]]
          /\ heard' \in [Transports ->
                            [MessageTypes -> 0 .. CounterMod - 1 \cup {NoCounter}]]
      BY <2>1, <2>2, AdvertiseTyped
    <2>6. schedule_index' \in [Transports -> 0 .. Len(Schedule) - 1]
      BY <2>3, ScheduleTyped DEF TypeOK, NextIndex
    <2>7. StoreTypeOK'
      BY <2>4 DEF storeVars, TypeOK, StoreTypeOK
    <2>. QED
      BY <2>1, <2>3, <2>4, <2>5, <2>6, <2>7 DEF TypeOK
  <1>6. CASE UNCHANGED vars
    BY <1>6 DEF vars, storeVars, bleVars, TypeOK, StoreTypeOK
  <1>. QED
    BY <1>1, <1>2, <1>3, <1>4, <1>5, <1>6 DEF Next, Transport

(* Every variable of a transport keeps its type: the schedule's index      *)
(* stays within the schedule and a counter within uint8_t                  *)
(* (ble.c:112-149, 160-204).                                               *)
THEOREM BleTypes == Spec => []TypeOK
BY TypeInit, TypeStep, PTL DEF Spec

-----------------------------------------------------------------------------
(* The counters receivers see *)

(* A frame that goes on the air carries the counter that follows the last  *)
(* one of its type, and only such a frame counts.                          *)
LEMMA AdvertiseCounts ==
    ASSUME TypeOK, CountersConsecutive,
           NEW t \in Transports, started[t] = advertising[t],
           NEW slot \in Slots, NEW message \in Messages \cup Pages, NEW result,
           Advertise(t, slot, message, result)
    PROVE  CountersConsecutive'
  <1> DEFINE type == message.type
             n == counters[t][type]
  <1>1. type \in MessageTypes
    BY TypesOfMessages
  <1>2. CASE UNCHANGED <<counters, heard>>
    BY <1>2 DEF CountersConsecutive
  <1>3. CASE result = "ok"
    <2>1. /\ counters' = [counters EXCEPT ![t][type] = (n + 1) % CounterMod]
          /\ heard' = [heard EXCEPT ![t][type] = n]
      BY <1>3 DEF Advertise
    <2>2. n \in 0 .. CounterMod - 1
      BY <1>1 DEF TypeOK
    <2> HIDE DEF type, n
    <2>3. ASSUME NEW u \in Transports, NEW other \in MessageTypes
          PROVE  counters'[u][other] =
                    IF heard'[u][other] = NoCounter THEN 0
                    ELSE (heard'[u][other] + 1) % CounterMod
      <3>1. CASE u = t /\ other = type
        <4>1. counters'[u][other] = (n + 1) % CounterMod /\ heard'[u][other] = n
          BY <1>1, <2>1, <3>1 DEF TypeOK
        <4>. QED
          BY <2>2, <4>1 DEF NoCounter
      <3>2. CASE ~(u = t /\ other = type)
        <4>1. /\ counters'[u][other] = counters[u][other]
              /\ heard'[u][other] = heard[u][other]
          BY <2>1, <3>2 DEF TypeOK
        <4>. QED
          BY <4>1 DEF CountersConsecutive
      <3>. QED
        BY <3>1, <3>2
    <2>. QED
      BY <2>3 DEF CountersConsecutive
  <1>. QED
    BY <1>2, <1>3 DEF Advertise

(* Two frames of one message type that follow each other on the air carry  *)
(* consecutive counters, for every outcome of every send and every modulus *)
(* (ble.c:112-149).                                                        *)
THEOREM CountersFollow == Spec => []CountersConsecutive
  <1>1. Init => CountersConsecutive
    BY DEF Init, BleInit, CountersConsecutive
  <1>2. /\ TypeOK /\ PausedMeansSilent
        /\ CountersConsecutive /\ [Next]_vars
        => CountersConsecutive'
    <2> SUFFICES ASSUME TypeOK, PausedMeansSilent, CountersConsecutive, [Next]_vars
                 PROVE  CountersConsecutive'
      OBVIOUS
    <2>1. CASE UNCHANGED <<counters, heard>>
      BY <2>1 DEF CountersConsecutive
    <2>2. ASSUME NEW t \in Transports, Send(t) PROVE CountersConsecutive'
      BY <2>2, SendBundle, SentTyped, AdvertiseCounts DEF PausedMeansSilent
    <2>. QED
      BY <2>1, <2>2 DEF Next, Transport, InputSubmits, StoreApplies, FirstWait,
         CheckReady, Pause, Resume, TakeSnapshot, SkipUnencodable, vars, bleVars
  <1>. QED
    BY <1>1, <1>2, BleTypes, PausedSilent, PTL DEF Spec

-----------------------------------------------------------------------------
(* What a receiver can verify, of a transport whose sends succeed *)

(* The dynamic messages of the bundle are those on the air last, of which  *)
(* there are some once their slot of the schedule has passed.              *)
DynamicInv ==
    \A t \in Transports :
        /\ \A m \in {"LOCATION", "SYSTEM"} :
              aired[t][m] # NoFrame => bundle[t][m] = aired[t][m].message
        /\ schedule_index[t] >= 2 => aired[t]["LOCATION"] # NoFrame
        /\ schedule_index[t] >= 5 => aired[t]["SYSTEM"] # NoFrame

(* The pages of the bundle are those of the burst whose first page was on  *)
(* the air last.                                                           *)
BurstInv ==
    \A t \in Transports :
        /\ aired[t]["AUTH_0"] # NoFrame =>
              \A slot \in AuthSlots :
                 bundle[t][slot].signed = aired[t]["AUTH_0"].message.signed
        /\ schedule_index[t] >= 9 => aired[t]["AUTH_0"] # NoFrame

AuthInv == DynamicInv /\ BurstInv /\ AuthBurstCoherent /\ SignedDynamicWasAired

(* A send that succeeds puts the slot's message of the new bundle on the   *)
(* air, of an instance that says truly whether it was started.             *)
LEMMA SendAirs ==
    ASSUME AdvResults = {"ok"}, TypeOK, PausedMeansSilent,
           NEW t \in Transports, Send(t)
    PROVE  \E frame \in Frames :
              /\ frame.slot = Slot(t)
              /\ frame.message = SentBundle(t)[Slot(t)]
              /\ adv_data' = [adv_data EXCEPT ![t] = frame]
              /\ advertising' = [advertising EXCEPT ![t] = TRUE]
              /\ aired' = [aired EXCEPT ![t][Slot(t)] = frame]
  <1> DEFINE slot == Slot(t)
             b == SentBundle(t)
             frame == [slot |-> slot, message |-> b[slot],
                       counter |-> counters[t][b[slot].type]]
  <1>1. slot \in Slots /\ b[slot] \in Messages \cup Pages
    BY SentTyped
  <1>2. Advertise(t, slot, b[slot], "ok")
    BY SendBundle
  <1>3. (IF started[t] THEN advertising[t] ELSE TRUE) = TRUE
    BY DEF PausedMeansSilent, TypeOK
  <1> HIDE DEF slot, b
  <1>4. /\ adv_data' = [adv_data EXCEPT ![t] = frame]
        /\ advertising' = [advertising EXCEPT ![t] = TRUE]
        /\ aired' = [aired EXCEPT ![t][slot] = frame]
    BY <1>2, <1>3 DEF Advertise
  <1>5. frame \in Frames
    <2>1. counters[t][b[slot].type] \in 0 .. CounterMod - 1
      BY <1>1, TypesOfMessages DEF TypeOK
    <2>. QED
      BY <1>1, <2>1 DEF Frames
  <1>6. frame.slot = slot /\ frame.message = b[slot]
    OBVIOUS
  <1> HIDE DEF frame
  <1>. QED
    BY <1>4, <1>5, <1>6 DEF slot, b

(* A frame is not NoFrame. *)
LEMMA FramesAreSome == \A frame \in Frames : frame # NoFrame
  BY DEF Frames, NoFrame, Slots, MessageSlots, AuthSlots

(* Which slot a transport sends next, by its index. *)
LEMMA SlotAt ==
    ASSUME TypeOK, NEW t \in Transports
    PROVE  /\ schedule_index[t] \in 0 .. 11
           /\ Slot(t) \in AuthSlots <=> schedule_index[t] >= 8
           /\ schedule_index[t] = 1 => Slot(t) = "LOCATION"
           /\ schedule_index[t] = 4 => Slot(t) = "SYSTEM"
           /\ Slot(t) = "AUTH_0" <=> schedule_index[t] = 8
           /\ NextIndex(schedule_index[t]) \in {0, schedule_index[t] + 1}
  <1> DEFINE n == Len(Schedule)
             k == schedule_index[t]
  <1>1. /\ n \in {8, 12}
        /\ k \in 0 .. n - 1
    BY ScheduleTyped DEF TypeOK
  <1> HIDE DEF n, k
  <1>2. /\ k \in 0 .. 11
        /\ k + 1 \in 1 .. n
        /\ (k + 1) % n \in {0, k + 1}
    <2>1. CASE n = 8
      BY <1>1, <2>1
    <2>2. CASE n = 12
      BY <1>1, <2>2
    <2>. QED
      BY <1>1, <2>1, <2>2
  <1>3. /\ Schedule[k + 1] \in AuthSlots <=> k + 1 > 8
        /\ Schedule[k + 1] = "AUTH_0" <=> k + 1 = 9
        /\ k = 1 => Schedule[k + 1] = "LOCATION"
        /\ k = 4 => Schedule[k + 1] = "SYSTEM"
    BY <1>2, ScheduleTyped DEF n
  <1>. QED
    BY <1>1, <1>2, <1>3 DEF Slot, NextIndex, n, k

(* What one iteration does to the dynamic messages and to the pages of the *)
(* bundle: it leaves those alone whose slot it is not, and a new signature *)
(* is over the dynamic messages as they were.                              *)
LEMMA BundleEffect ==
    ASSUME TypeOK, NEW t \in Transports
    PROVE  LET slot == Slot(t)
               b == SentBundle(t)
               old == bundle[t]
           IN  /\ \A m \in {"LOCATION", "SYSTEM"} : m # slot => b[m] = old[m]
               /\ slot # "AUTH_0" => \A p \in AuthSlots : b[p] = old[p]
               /\ slot = "AUTH_0" =>
                     /\ \A p \in AuthSlots : b[p].signed = b["AUTH_0"].signed
                     /\ \A m \in {"LOCATION", "SYSTEM"} :
                           b["AUTH_0"].signed[m] = old[m]
  <1> DEFINE s == snapshot[t]
             old == bundle[t]
             static == StaticBundle(t)
             slot == Slot(t)
             b == SentBundle(t)
  <1> USE DEF Slots, MessageSlots, AuthSlots
  <1>1. /\ static \in [Slots -> Messages \cup Pages]
        /\ \A m \in {"LOCATION", "SYSTEM"} : static[m] = old[m]
        /\ \A p \in AuthSlots : static[p] = old[p]
    BY SentTyped DEF StaticBundle, EncodeStatic, Bundles
  <1>2. /\ slot \in Slots
        /\ b = IF slot \in AuthSlots THEN AuthBundle(s, static, slot)
               ELSE EncodeDynamic(s, static, slot)
    BY SentTyped DEF SentBundle
  <1> HIDE DEF s, old, static, slot, b
  <1>3. /\ \A m \in {"LOCATION", "SYSTEM"} : m # slot => b[m] = old[m]
        /\ slot # "AUTH_0" => \A p \in AuthSlots : b[p] = old[p]
        /\ slot = "AUTH_0" =>
              /\ \A p \in AuthSlots : b[p].signed = b["AUTH_0"].signed
              /\ \A m \in {"LOCATION", "SYSTEM"} : b["AUTH_0"].signed[m] = old[m]
    <2>1. CASE slot = "AUTH_0"
      <3>1. b = SignBundle(static)
        BY <1>2, <2>1 DEF AuthBundle
      <3>. QED
        BY <1>1, <2>1, <3>1 DEF SignBundle, Signed
    <2>2. CASE slot \in AuthSlots \ {"AUTH_0"}
      <3>1. b = static
        BY <1>2, <2>2 DEF AuthBundle
      <3>. QED
        BY <1>1, <2>2, <3>1
    <2>3. CASE slot \in MessageSlots
      <3>1. b = EncodeDynamic(s, static, slot)
        BY <1>2, <2>3
      <3>2. CASE slot = "LOCATION"
        BY <1>1, <3>1, <3>2 DEF EncodeDynamic
      <3>3. CASE slot = "SYSTEM"
        BY <1>1, <3>1, <3>3 DEF EncodeDynamic
      <3>4. CASE slot \notin {"LOCATION", "SYSTEM"}
        <4>1. b = static
          BY <3>1, <3>4 DEF EncodeDynamic
        <4>. QED
          BY <1>1, <2>3, <4>1
      <3>. QED
        BY <3>2, <3>3, <3>4
    <2>. QED
      BY <1>2, <2>1, <2>2, <2>3
  <1>. QED
    BY <1>3 DEF old, slot, b

(* A send keeps what receivers can verify. *)
LEMMA AuthSend ==
    ASSUME AdvResults = {"ok"}, TypeOK, PausedMeansSilent, AuthInv,
           NEW t \in Transports, Send(t)
    PROVE  AuthInv'
  <1> DEFINE slot == Slot(t)
             k == schedule_index[t]
             old == bundle[t]
             b == SentBundle(t)
  <1>1. PICK frame \in Frames :
           /\ frame.slot = slot
           /\ frame.message = b[slot]
           /\ adv_data' = [adv_data EXCEPT ![t] = frame]
           /\ advertising' = [advertising EXCEPT ![t] = TRUE]
           /\ aired' = [aired EXCEPT ![t][slot] = frame]
    BY SendAirs
  <1>2. /\ bundle' = [bundle EXCEPT ![t] = b]
        /\ schedule_index' = [schedule_index EXCEPT ![t] = NextIndex(@)]
    BY SendBundle
  <1>3. /\ slot \in Slots
        /\ \A m \in {"LOCATION", "SYSTEM"} : m # slot => b[m] = old[m]
        /\ slot # "AUTH_0" => \A p \in AuthSlots : b[p] = old[p]
        /\ slot = "AUTH_0" =>
              /\ \A p \in AuthSlots : b[p].signed = b["AUTH_0"].signed
              /\ \A m \in {"LOCATION", "SYSTEM"} : b["AUTH_0"].signed[m] = old[m]
    BY SentTyped, BundleEffect
  <1>4. /\ k \in 0 .. 11
        /\ slot \in AuthSlots <=> k >= 8
        /\ k = 1 => slot = "LOCATION"
        /\ k = 4 => slot = "SYSTEM"
        /\ slot = "AUTH_0" <=> k = 8
        /\ schedule_index'[t] \in {0, k + 1}
    BY <1>2, SlotAt DEF TypeOK
  <1>5. /\ bundle'[t] = b
        /\ adv_data'[t] = frame
        /\ aired'[t] = [aired[t] EXCEPT ![slot] = frame]
        /\ frame # NoFrame
        /\ DOMAIN aired[t] = Slots
    BY <1>1, <1>2, <1>3, FramesAreSome DEF TypeOK
  <1>6. ASSUME NEW u \in Transports, u # t
        PROVE  /\ bundle'[u] = bundle[u] /\ adv_data'[u] = adv_data[u]
               /\ aired'[u] = aired[u] /\ schedule_index'[u] = schedule_index[u]
               /\ advertising'[u] = advertising[u]
    BY <1>1, <1>2, <1>6 DEF TypeOK
  <1> HIDE DEF slot, k, old, b
  <1>7. {"LOCATION", "SYSTEM", "AUTH_0"} \cup AuthSlots \subseteq Slots
    BY DEF Slots, MessageSlots, AuthSlots
  <1>8. DynamicInv'
    <2> USE DEF DynamicInv
    <2>1. ASSUME NEW m \in {"LOCATION", "SYSTEM"}
          PROVE  /\ aired'[t][m] # NoFrame => bundle'[t][m] = aired'[t][m].message
                 /\ aired[t][m] # NoFrame \/ slot = m => aired'[t][m] # NoFrame
      <3>1. CASE m = slot
        BY <1>1, <1>5, <1>7, <3>1
      <3>2. CASE m # slot
        <4>1. aired'[t][m] = aired[t][m] /\ bundle'[t][m] = old[m]
          BY <1>3, <1>5, <1>7, <3>2
        <4>. QED
          BY <3>2, <4>1 DEF AuthInv, old
      <3>. QED
        BY <3>1, <3>2
    <2>2. /\ schedule_index'[t] >= 2 => aired'[t]["LOCATION"] # NoFrame
          /\ schedule_index'[t] >= 5 => aired'[t]["SYSTEM"] # NoFrame
      BY <1>4, <2>1 DEF AuthInv, k
    <2>. QED
      BY <1>6, <2>1, <2>2 DEF AuthInv
  <1>9. BurstInv'
    <2> USE DEF BurstInv
    <2>1. /\ aired'[t]["AUTH_0"] # NoFrame =>
                \A p \in AuthSlots :
                   bundle'[t][p].signed = aired'[t]["AUTH_0"].message.signed
          /\ aired[t]["AUTH_0"] # NoFrame \/ slot = "AUTH_0" =>
                aired'[t]["AUTH_0"] # NoFrame
      <3>1. CASE slot = "AUTH_0"
        BY <1>1, <1>3, <1>5, <1>7, <3>1
      <3>2. CASE slot # "AUTH_0"
        <4>1. /\ aired'[t]["AUTH_0"] = aired[t]["AUTH_0"]
              /\ \A p \in AuthSlots : bundle'[t][p] = old[p]
          BY <1>3, <1>5, <1>7, <3>2
        <4>. QED
          BY <3>2, <4>1 DEF AuthInv, old
      <3>. QED
        BY <3>1, <3>2
    <2>2. schedule_index'[t] >= 9 => aired'[t]["AUTH_0"] # NoFrame
      BY <1>4, <2>1 DEF AuthInv, k
    <2>. QED
      BY <1>6, <2>1, <2>2 DEF AuthInv
  <1>10. AuthBurstCoherent'
    <2> USE DEF AuthBurstCoherent, OnAir
    <2>1. ASSUME slot \in AuthSlots
          PROVE  adv_data'[t].message.signed = aired'[t]["AUTH_0"].message.signed
      <3>1. CASE slot = "AUTH_0"
        BY <1>1, <1>5, <1>7, <3>1
      <3>2. CASE slot # "AUTH_0"
        <4>1. k >= 9
          BY <1>4, <2>1, <3>2
        <4>2. aired[t]["AUTH_0"] # NoFrame
          BY <4>1 DEF AuthInv, BurstInv, k
        <4>3. b[slot].signed = aired[t]["AUTH_0"].message.signed
          BY <1>3, <2>1, <3>2, <4>2 DEF AuthInv, BurstInv, old
        <4>4. aired'[t]["AUTH_0"] = aired[t]["AUTH_0"]
          BY <1>5, <1>7, <3>2
        <4>. QED
          BY <1>1, <1>5, <4>3, <4>4
      <3>. QED
        BY <3>1, <3>2
    <2>. QED
      BY <1>1, <1>5, <1>6, <2>1 DEF AuthInv
  <1>11. SignedDynamicWasAired'
    <2> USE DEF SignedDynamicWasAired, OnAir
    <2>1. ASSUME slot = "AUTH_0", NEW m \in {"LOCATION", "SYSTEM"}
          PROVE  adv_data'[t].message.signed[m] = aired'[t][m].message
      <3>1. k = 8
        BY <1>4, <2>1
      <3>2. aired[t][m] # NoFrame
        BY <3>1 DEF AuthInv, DynamicInv, k
      <3>3. old[m] = aired[t][m].message
        BY <3>2 DEF AuthInv, DynamicInv, old
      <3>4. aired'[t][m] = aired[t][m]
        BY <1>5, <1>7, <2>1
      <3>. QED
        BY <1>1, <1>3, <1>5, <2>1, <3>3, <3>4
    <2>. QED
      BY <1>1, <1>5, <1>6, <2>1 DEF AuthInv
  <1>. QED
    BY <1>8, <1>9, <1>10, <1>11 DEF AuthInv

(* The invariant of a transport whose sends succeed. *)
LEMMA AuthCorrect ==
    ASSUME AdvResults = {"ok"}
    PROVE  Spec => []AuthInv
  <1>1. Init => AuthInv
    <2> SUFFICES ASSUME Init PROVE AuthInv
      OBVIOUS
    <2>1. \A t \in Transports :
             /\ \A slot \in Slots : aired[t][slot] = NoFrame
             /\ schedule_index[t] = 0
             /\ ~advertising[t]
      BY DEF Init, BleInit
    <2>. QED
      BY <2>1 DEF AuthInv, DynamicInv, BurstInv, AuthBurstCoherent,
         SignedDynamicWasAired, OnAir, Slots, MessageSlots, AuthSlots
  <1>2. TypeOK /\ PausedMeansSilent /\ AuthInv /\ [Next]_vars => AuthInv'
    <2> SUFFICES ASSUME TypeOK, PausedMeansSilent, AuthInv, [Next]_vars
                 PROVE  AuthInv'
      OBVIOUS
    <2>1. ASSUME NEW t \in Transports, Send(t) PROVE AuthInv'
      BY <2>1, AuthSend
    <2>2. CASE /\ UNCHANGED <<schedule_index, bundle, adv_data, aired>>
               /\ \A t \in Transports : advertising'[t] => advertising[t]
      BY <2>2 DEF AuthInv, DynamicInv, BurstInv, AuthBurstCoherent,
         SignedDynamicWasAired, OnAir
    <2>3. ASSUME NEW t \in Transports, Pause(t)
          PROVE  \A u \in Transports : advertising'[u] => advertising[u]
      BY <2>3 DEF Pause, TypeOK
    <2>. QED
      BY <2>1, <2>2, <2>3 DEF Next, Transport, InputSubmits, StoreApplies,
         FirstWait, CheckReady, Pause, Resume, TakeSnapshot, SkipUnencodable,
         vars, bleVars
  <1>. QED
    BY <1>1, <1>2, BleTypes, PausedSilent, PTL DEF Spec

(* While no send fails the four pages of a burst carry one signature, with *)
(* pauses, updates of the store and unencodable states in between          *)
(* (ble.c:178-188).                                                        *)
THEOREM BurstsCoherent ==
    ASSUME AdvResults = {"ok"}
    PROVE  Spec => []AuthBurstCoherent
  <1>1. AuthInv => AuthBurstCoherent
    BY DEF AuthInv
  <1>. QED
    BY <1>1, AuthCorrect, PTL

(* While no send fails the Location and the System message a signature     *)
(* covers are those a receiver got last (ble.c:181-184).                   *)
THEOREM SignedWasAired ==
    ASSUME AdvResults = {"ok"}
    PROVE  Spec => []SignedDynamicWasAired
  <1>1. AuthInv => SignedDynamicWasAired
    BY DEF AuthInv
  <1>. QED
    BY <1>1, AuthCorrect, PTL

=============================================================================
