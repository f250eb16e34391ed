------------------------------ MODULE WifiProofs ------------------------------
(***************************************************************************)
(* Proofs about module WifiTransport for every input, every build and      *)
(* every outcome of a transmission: of one outage a task sends at most one *)
(* pack of an unusable state, a signed pack is signed as it was sent, and  *)
(* the packs of a task carry consecutive counters.                         *)
(***************************************************************************)
EXTENDS WifiTransport, AtomicStoreProofs

GateTypeOK ==
    /\ enabled \subseteq Tasks
    /\ ready = IdentityUsable(state)
    /\ DOMAIN snapshot = Tasks
    /\ wifi_pc \in [Tasks -> {"start", "check", "wait", "snapshot", "sync", "send"}]
    /\ leaks \in [Tasks -> 0 .. 1]

GateInv == GateTypeOK /\ LeakInv

(* Before the first frame nothing has leaked. *)
LEMMA GateInit == Init => GateInv
  BY WifiAssumption
     DEF Init, StoreInit, GateInv, GateTypeOK, LeakInv

(* Every step of the input, the store task or a Wi-Fi task keeps the gate. *)
LEMMA GateStep == GateInv /\ [Next]_vars => GateInv'
  <1> SUFFICES ASSUME GateInv, [Next]_vars PROVE GateInv'
    OBVIOUS
  <1> USE UsableBoolean DEF GateInv, GateTypeOK, LeakInv
  <1>1. CASE InputSubmits
    BY <1>1 DEF InputSubmits, Submit, wifiVars
  <1>2. CASE StoreApplies
    <2>1. ready' = IdentityUsable(state') /\ UNCHANGED <<enabled, wifi_pc, snapshot>>
      BY <1>2 DEF StoreApplies, ApplyUpdate
    <2>2. leaks' = [t \in Tasks |-> IF ready /\ ~ready' THEN 0 ELSE leaks[t]]
      BY <1>2 DEF StoreApplies
    <2>. QED
      BY <2>1, <2>2
  <1>3. ASSUME NEW t \in Tasks,
               \/ FirstWait(t) \/ CheckReady(t) \/ Pause(t) \/ Resume(t)
               \/ SendSync(t)
        PROVE  GateInv'
    BY <1>3 DEF FirstWait, CheckReady, Pause, Resume, SendSync, Waits, Goto,
                storeVars
  <1>4. ASSUME NEW t \in Tasks, TakeSnapshot(t) PROVE GateInv'
    BY <1>4 DEF TakeSnapshot, GetSnapshot, Goto
  <1>5. ASSUME NEW t \in Tasks, Send(t) PROVE GateInv'
    <2>1. UNCHANGED <<ready, state, snapshot, enabled>>
      BY <1>5 DEF Send, storeVars
    <2>2. /\ wifi_pc[t] = "send"
          /\ wifi_pc' = [wifi_pc EXCEPT ![t] = "check"]
      BY <1>5 DEF Send, Goto
    <2>3. CASE IdentityUsable(snapshot[t])
      <3>1. leaks' = leaks
        BY <1>5, <2>3 DEF Send
      <3>. QED
        BY <2>1, <2>2, <3>1
    <2>4. CASE ~IdentityUsable(snapshot[t])
      <3>1. leaks[t] = 0
        BY <2>2, <2>4
      <3>2. leaks' = [leaks EXCEPT ![t] = 1]
        BY <1>5, <2>4, <3>1 DEF Send, MaxLeaks
      <3>. QED
        BY <2>1, <2>2, <3>2
    <2>. QED
      BY <2>3, <2>4
  <1>6. ASSUME NEW t \in Tasks, SendFails(t) PROVE GateInv'
    BY <1>6 DEF SendFails, storeVars
  <1>7. CASE UNCHANGED vars
    BY <1>7 DEF vars, storeVars, wifiVars
  <1>. QED
    BY <1>1, <1>2, <1>3, <1>4, <1>5, <1>6, <1>7 DEF Next, WifiTask

(* Of one outage of the identity at most one pack without a usable         *)
(* identity is on the air (wifi.c:173-192, 245-252).                       *)
THEOREM WifiLeaksBounded == Spec => []OneLeakPerOutage
  <1>1. GateInv => OneLeakPerOutage
    BY DEF GateInv, GateTypeOK, OneLeakPerOutage
  <1>. QED
    BY <1>1, GateInit, GateStep, PTL DEF Spec

-----------------------------------------------------------------------------
(* The packs that are built are signed as they are, or not at all. *)
LEMMA PackVerifies ==
    \A s, n : Pack(s, n).signed # NoSignature =>
                 Pack(s, n).signed = Pack(s, n).messages
  <1> SUFFICES ASSUME NEW s, NEW n, Pack(s, n).signed # NoSignature
               PROVE  Pack(s, n).signed = Pack(s, n).messages
    OBVIOUS
  <1>1. \A m \in MessageSlots : Encodable(s, m)
    BY DEF Pack, SignUasData
  <1>2. {m \in MessageSlots : Encodable(s, m)} = MessageSlots
    BY <1>1
  <1>3. SignUasData(s) = [m \in MessageSlots |-> Message(s, m)]
    BY DEF Pack, SignUasData
  <1>. QED
    BY <1>2, <1>3 DEF Pack

(* What a receiver gets with a signature is what the signature was made    *)
(* over (auth.c:215-244, encode.c:123-142).                                *)
THEOREM SignedPacksVerify == Spec => []SignedPackVerifies
  <1> DEFINE Inv == DOMAIN heard = Tasks /\ SignedPackVerifies
  <1>1. Init => Inv
    BY DEF Init, SignedPackVerifies
  <1>2. Inv /\ [Next]_vars => Inv'
    <2> SUFFICES ASSUME Inv, [Next]_vars PROVE Inv'
      OBVIOUS
    <2>1. CASE UNCHANGED heard
      BY <2>1 DEF SignedPackVerifies
    <2>2. ASSUME NEW t, Send(t) PROVE Inv'
      <3>1. heard' = [heard EXCEPT ![t] = Pack(snapshot[t], send_counter[t])]
        BY <2>2 DEF Send
      <3>. QED
        BY <3>1, PackVerifies DEF SignedPackVerifies
    <2>. QED
      BY <2>1, <2>2 DEF Next, InputSubmits, StoreApplies, WifiTask, FirstWait,
         CheckReady, Pause, Resume, SendSync, Waits, TakeSnapshot, SendFails,
         vars, wifiVars
  <1>3. Inv => SignedPackVerifies
    OBVIOUS
  <1>. QED
    BY <1>1, <1>2, <1>3, PTL DEF Spec

-----------------------------------------------------------------------------
(* Types *)

(* What the encoder makes of a state is a message. *)
LEMMA MessageTyped ==
    ASSUME NEW s \in States, NEW m \in MessageSlots
    PROVE  Message(s, m) \in Messages
  <1> USE DEF States, Messages
  <1>1. CASE m = "BASIC_ID"
    BY <1>1 DEF Message, BasicIdMessage
  <1>2. CASE m = "LOCATION"
    BY <1>2 DEF Message, LocationMessage
  <1>3. CASE m = "SYSTEM"
    BY <1>3, StoreDataAssumption DEF Message, SystemMessage
  <1>4. CASE m = "OPERATOR_ID"
    BY <1>4 DEF Message, OperatorIdMessage
  <1>. QED
    BY <1>1, <1>2, <1>3, <1>4 DEF MessageSlots

(* What a task sends is a pack, with the counter it was given. *)
LEMMA PackTyped ==
    ASSUME NEW s \in States, NEW n \in 0 .. CounterMod - 1
    PROVE  /\ Pack(s, n) \in Packs
           /\ Pack(s, n).counter = n
           /\ Pack(s, n) # NoPack
  <1> DEFINE M == {m \in MessageSlots : Encodable(s, m)}
             messages == [m \in M |-> Message(s, m)]
             signed == SignUasData(s)
  <1>1. messages \in [M -> Messages] /\ M \in SUBSET MessageSlots
    BY MessageTyped
  <1>2. signed \in {NoSignature} \cup [MessageSlots -> Messages]
    BY MessageTyped DEF SignUasData
  <1>3. Pack(s, n) = [messages |-> messages, signed |-> signed, counter |-> n]
    BY DEF Pack
  <1> HIDE DEF messages, signed, M
  <1>4. messages \in UNION {[N -> Messages] : N \in SUBSET MessageSlots}
    BY <1>1
  <1>. QED
    BY <1>2, <1>3, <1>4 DEF Packs, NoPack

(* Every task starts at its wait, and has sent nothing. *)
LEMMA TypeInit == Init => TypeOK
  BY StoreInitTyped, WifiAssumption DEF Init, TypeOK, MaxLeaks

(* Every step of the input, the store task or a Wi-Fi task keeps the types.*)
LEMMA TypeStep == TypeOK /\ [Next]_vars => TypeOK'
  <1> SUFFICES ASSUME TypeOK, [Next]_vars PROVE TypeOK'
    OBVIOUS
  <1>1. CASE InputSubmits
    <2>1. StoreTypeOK'
      BY <1>1, SubmitTyped DEF InputSubmits, TypeOK
    <2>. QED
      BY <1>1, <2>1 DEF InputSubmits, wifiVars, TypeOK
  <1>2. CASE StoreApplies
    <2>1. StoreTypeOK'
      BY <1>2, ApplyUpdateTyped DEF StoreApplies, TypeOK
    <2>. QED
      BY <1>2, <2>1 DEF StoreApplies, TypeOK, MaxLeaks
  <1>3. ASSUME NEW t \in Tasks,
               \/ FirstWait(t) \/ CheckReady(t) \/ Pause(t) \/ Resume(t)
               \/ SendSync(t) \/ SendFails(t)
        PROVE  TypeOK'
    <2>1. StoreTypeOK'
      BY <1>3 DEF FirstWait, CheckReady, Pause, Resume, SendSync, SendFails,
                  Waits, storeVars, TypeOK, StoreTypeOK
    <2>. QED
      BY <1>3, <2>1 DEF FirstWait, CheckReady, Pause, Resume, SendSync,
                        SendFails, Waits, Goto, TypeOK
  <1>4. ASSUME NEW t \in Tasks, TakeSnapshot(t) PROVE TypeOK'
    <2>1. StoreTypeOK'
      BY <1>4, GetSnapshotTyped, WifiAssumption DEF TakeSnapshot, TypeOK
    <2>. QED
      BY <1>4, <2>1 DEF TakeSnapshot, Goto, TypeOK
  <1>5. ASSUME NEW t \in Tasks, Send(t) PROVE TypeOK'
    <2> DEFINE pack == Pack(snapshot[t], send_counter[t])
    <2>1. StoreTypeOK'
      BY <1>5 DEF Send, storeVars, TypeOK, StoreTypeOK
    <2>2. pack \in Packs
      BY PackTyped, WifiAssumption DEF TypeOK, StoreTypeOK
    <2>3. /\ heard' = [heard EXCEPT ![t] = pack]
          /\ send_counter' = [send_counter EXCEPT ![t] = NextCounter(@)]
          /\ wifi_pc' = [wifi_pc EXCEPT ![t] = "check"]
          /\ UNCHANGED enabled
      BY <1>5 DEF Send, Goto
    <2>4. leaks' \in [Tasks -> 0 .. MaxLeaks]
      BY <1>5 DEF Send, TypeOK, MaxLeaks
    <2> HIDE DEF pack
    <2>5. send_counter' \in [Tasks -> 0 .. CounterMod - 1]
      BY <2>3, WifiAssumption DEF TypeOK, NextCounter
    <2>. QED
      BY <2>1, <2>2, <2>3, <2>4, <2>5 DEF TypeOK
  <1>6. CASE UNCHANGED vars
    BY <1>6 DEF vars, storeVars, wifiVars, TypeOK, StoreTypeOK
  <1>. QED
    BY <1>1, <1>2, <1>3, <1>4, <1>5, <1>6, WifiAssumption
       DEF Next, WifiTask, TypeOK

(* Every variable of a Wi-Fi task keeps its type: what is on the air is a  *)
(* pack of messages, and a counter stays within uint8_t                    *)
(* (wifi.c:173-224, 229-272).                                              *)
THEOREM WifiTypes == Spec => []TypeOK
BY TypeInit, TypeStep, PTL DEF Spec

-----------------------------------------------------------------------------
(* The counters receivers see *)

(* The counter of a task follows that of the pack it sent last. *)
CounterInv ==
    \A t \in Tasks :
        send_counter[t] = IF heard[t] = NoPack THEN 0
                          ELSE NextCounter(heard[t].counter)

(* A pack that goes on the air carries the counter; nothing else counts. *)
LEMMA CounterStep ==
    TypeOK /\ CounterInv /\ [Next]_vars =>
        /\ CounterInv'
        /\ \A t \in Tasks : heard'[t] # heard[t] => heard'[t].counter = send_counter[t]
  <1> SUFFICES ASSUME TypeOK, CounterInv, [Next]_vars
               PROVE  /\ CounterInv'
                      /\ \A t \in Tasks :
                            heard'[t] # heard[t] =>
                                heard'[t].counter = send_counter[t]
    OBVIOUS
  <1>1. CASE UNCHANGED <<send_counter, heard>>
    BY <1>1 DEF CounterInv
  <1>2. ASSUME NEW t \in Tasks, Send(t)
        PROVE  /\ CounterInv'
               /\ \A u \in Tasks :
                     heard'[u] # heard[u] => heard'[u].counter = send_counter[u]
    <2> DEFINE pack == Pack(snapshot[t], send_counter[t])
    <2>1. pack.counter = send_counter[t] /\ pack # NoPack
      BY PackTyped, WifiAssumption DEF TypeOK, StoreTypeOK
    <2>2. /\ heard' = [heard EXCEPT ![t] = pack]
          /\ send_counter' = [send_counter EXCEPT ![t] = NextCounter(@)]
      BY <1>2 DEF Send
    <2> HIDE DEF pack
    <2>3. \A u \in Tasks :
             /\ heard'[u] = IF u = t THEN pack ELSE heard[u]
             /\ send_counter'[u] =
                   IF u = t THEN NextCounter(send_counter[t]) ELSE send_counter[u]
      BY <2>2 DEF TypeOK
    <2>. QED
      BY <2>1, <2>3 DEF CounterInv
  <1>. QED
    BY <1>1, <1>2, WifiAssumption
       DEF Next, TypeOK, InputSubmits, StoreApplies, WifiTask, FirstWait,
           CheckReady, Pause, Resume, SendSync, Waits, TakeSnapshot, SendFails,
           vars, wifiVars

(* A gap in the counters of a task's packs means that a frame was lost on  *)
(* the air, whatever failed before it was sent (wifi.c:187-188, 221-222).  *)
THEOREM PackCountersFollow == Spec => PackCountersConsecutive
  <1> DEFINE Consecutive ==
                \A t \in Tasks :
                    heard'[t] # heard[t] =>
                        heard'[t].counter =
                            IF heard[t] = NoPack THEN 0
                            ELSE (heard[t].counter + 1) % CounterMod
  <1>1. Init => CounterInv
    BY DEF Init, CounterInv
  <1>2. TypeOK /\ CounterInv /\ [Next]_vars => CounterInv'
    BY CounterStep
  <1>3. TypeOK /\ CounterInv /\ [Next]_vars => [Consecutive]_vars
    BY CounterStep DEF CounterInv, NextCounter
  <1> HIDE DEF Consecutive
  <1>4. Spec => [][Consecutive]_vars
    BY <1>1, <1>2, <1>3, WifiTypes, PTL DEF Spec
  <1>. QED
    BY <1>4 DEF Consecutive, PackCountersConsecutive

=============================================================================
