---------------------------- MODULE WifiTransport ----------------------------
(***************************************************************************)
(* src/remoteid/remoteid/wifi.c: the Beacon and NAN tasks, each of which   *)
(* sends the whole state at once, as one message pack.  encode.c fills the *)
(* pack, auth.c signs it; the frame builders of the OpenDroneID library    *)
(* and the Wi-Fi driver are external.  There is nothing to stop when the   *)
(* identity goes away: a task that waits sends nothing.                    *)
(***************************************************************************)
EXTENDS AtomicStore, Encoding

CONSTANTS
    AuthEnabled,    \* CONFIG_REMOTEID_AUTH_ED25519
    Builds,         \* the sets of CONFIG_REMOTEID_TRANSPORT_WIFI_* enabled
    CounterMod      \* 256: the counters are uint8_t

Tasks == {"beacon", "nan"}

ASSUME WifiAssumption ==
    /\ Readers = Tasks
    /\ AuthEnabled \in BOOLEAN
    /\ Builds \subseteq SUBSET Tasks
    /\ CounterMod \in Nat \ {0}

VARIABLES
    enabled,        \* the tasks this build has; never changes
    wifi_pc,        \* start, check, wait, snapshot, sync or send
    send_counter,   \* s_beacon_send_counter, s_nan_send_counter
    heard,          \* history: the last pack each task put on the air
    leaks           \* history: packs of an unusable state that were sent
                    \* since readiness fell last

wifiVars == <<enabled, wifi_pc, send_counter, heard, leaks>>
vars == <<storeVars, wifiVars>>

-----------------------------------------------------------------------------
NoSignature == [m \in {} |-> Zeroed]

(* mutant: what can be encoded is signed, whatever cannot *)
SignUasData_Partly(s) ==
    IF ~AuthEnabled THEN NoSignature
    ELSE [m \in MessageSlots |-> IF Encodable(s, m) THEN Message(s, m) ELSE Zeroed]

(* remoteid_auth_sign_uas_data: a signature of the four messages, or none  *)
(* when one of them cannot be encoded.                                     *)
SignUasData(s) ==
    IF AuthEnabled /\ \A m \in MessageSlots : Encodable(s, m)
    THEN [m \in MessageSlots |-> Message(s, m)]
    ELSE NoSignature

(* odid_message_build_pack: a message that cannot be encoded is left out,  *)
(* and a pack of none is refused.  With a signature its four pages follow. *)
Pack(s, counter) ==
    [messages |-> [m \in {n \in MessageSlots : Encodable(s, n)} |-> Message(s, m)],
     signed |-> SignUasData(s), counter |-> counter]

NoPack == [signed |-> "none"]

-----------------------------------------------------------------------------
Init ==
    /\ StoreInit
    /\ enabled \in Builds
    /\ wifi_pc = [t \in Tasks |-> "start"]
    /\ send_counter = [t \in Tasks |-> 0]
    /\ heard = [t \in Tasks |-> NoPack]
    /\ leaks = [t \in Tasks |-> 0]

InputSubmits == (\E u \in Inputs : Submit(u)) /\ UNCHANGED wifiVars

StoreApplies ==
    /\ ApplyUpdate
    /\ leaks' = [t \in Tasks |-> IF ready /\ ~ready' THEN 0 ELSE leaks[t]]
    /\ UNCHANGED <<enabled, wifi_pc, send_counter, heard>>

Goto(t, here, there) ==
    /\ wifi_pc[t] = here
    /\ wifi_pc' = [wifi_pc EXCEPT ![t] = there]

Waits(t, here, there) ==
    /\ Goto(t, here, there)
    /\ UNCHANGED <<storeVars, enabled, send_counter, heard, leaks>>

(* remoteid_store_wait_ready before the loop *)
FirstWait(t) == ready /\ Waits(t, "start", "check")

(* mutants: readiness is not looked at again once the loop runs; the       *)
(* task's own copy is looked at instead of the store                       *)
CheckReady_NotChecked(t) == Waits(t, "check", "snapshot")

CheckReady_OwnCopy(t) ==
    IdentityUsable(snapshot[t]) /\ Waits(t, "check", "snapshot")

(* remoteid_store_is_ready: reads the bit, not the state *)
CheckReady(t) == ready /\ Waits(t, "check", "snapshot")

Pause(t) == ~ready /\ Waits(t, "check", "wait")

(* remoteid_store_wait_ready in the loop; is_ready is not asked again *)
Resume(t) == ready /\ Waits(t, "wait", "snapshot")

(* mutant: the snapshot of the first frame is kept *)
TakeSnapshot_Once(t) ==
    /\ Goto(t, "snapshot", IF t = "nan" THEN "sync" ELSE "send")
    /\ IF heard[t] = NoPack THEN GetSnapshot(t) ELSE UNCHANGED storeVars
    /\ UNCHANGED <<enabled, send_counter, heard, leaks>>

(* get_snapshot and remoteid_encode_uas_data, into locals of the task *)
TakeSnapshot(t) ==
    /\ Goto(t, "snapshot", IF t = "nan" THEN "sync" ELSE "send")
    /\ GetSnapshot(t)
    /\ UNCHANGED <<enabled, send_counter, heard, leaks>>

(* The NAN sync frame, which carries no message. *)
SendSync(t) == Waits(t, "sync", "send")

(* mutant: the counter is no uint8_t *)
NextCounter_NoWrap(n) == n + 1

NextCounter(n) == (n + 1) % CounterMod

MaxLeaks == 2   \* the history stops counting here

(* The Beacon frame or the NAN action frame goes on the air. *)
Send(t) ==
    /\ Goto(t, "send", "check")
    /\ DOMAIN Pack(snapshot[t], 0).messages # {}
    /\ heard' = [heard EXCEPT ![t] = Pack(snapshot[t], send_counter[t])]
    /\ send_counter' = [send_counter EXCEPT ![t] = NextCounter(@)]
    /\ leaks' = [leaks EXCEPT ![t] =
                    IF IdentityUsable(snapshot[t]) \/ @ = MaxLeaks THEN @
                    ELSE @ + 1]
    /\ UNCHANGED <<storeVars, enabled>>

(* mutant: the counter advances whether or not the frame was transmitted *)
SendFails_Counts(t) ==
    /\ wifi_pc[t] \in {"sync", "send"}
    /\ wifi_pc' = [wifi_pc EXCEPT ![t] = "check"]
    /\ send_counter' = [send_counter EXCEPT ![t] = NextCounter(@)]
    /\ UNCHANGED <<storeVars, enabled, heard, leaks>>

(* get_mac, a builder or the driver fails; after a NAN sync frame that was *)
(* transmitted its action frame then is not.                               *)
SendFails(t) ==
    /\ wifi_pc[t] \in {"sync", "send"}
    /\ wifi_pc' = [wifi_pc EXCEPT ![t] = "check"]
    /\ UNCHANGED <<storeVars, enabled, send_counter, heard, leaks>>

WifiTask(t) ==
    \/ FirstWait(t)
    \/ CheckReady(t)
    \/ Pause(t)
    \/ Resume(t)
    \/ TakeSnapshot(t)
    \/ SendSync(t)
    \/ Send(t)
    \/ SendFails(t)

Next ==
    \/ InputSubmits
    \/ StoreApplies
    \/ \E t \in enabled : WifiTask(t)

Spec == Init /\ [][Next]_vars

(* The tasks block only in wait_ready and vTaskDelay, and for the store's  *)
(* mutex; the store task applies what it accepted.  Whether a transmission *)
(* succeeds is up to the driver: the liveness properties say of it what    *)
(* they need.                                                              *)
Fairness ==
    /\ WF_vars(StoreApplies)
    /\ \A t \in Tasks : WF_vars(t \in enabled /\ WifiTask(t))

LiveSpec == Spec /\ Fairness

-----------------------------------------------------------------------------
Packs ==
    [messages : UNION {[M -> Messages] : M \in SUBSET MessageSlots},
     signed : {NoSignature} \cup [MessageSlots -> Messages],
     counter : 0 .. CounterMod - 1]

TypeOK ==
    /\ StoreTypeOK
    /\ enabled \in Builds
    /\ wifi_pc \in [Tasks -> {"start", "check", "wait", "snapshot", "sync", "send"}]
    /\ send_counter \in [Tasks -> 0 .. CounterMod - 1]
    /\ heard \in [Tasks -> Packs \cup {NoPack}]
    /\ leaks \in [Tasks -> 0 .. MaxLeaks]

(* A state that lost its identity between the test and the copy is still   *)
(* sent (wifi.c:239-244, 175-187), but in one frame only: of one outage at *)
(* most one pack without a usable identity is on the air, though the wait  *)
(* that ends an outage is followed by no second test.                      *)
OneLeakPerOutage == \A t \in Tasks : leaks[t] <= 1

(* Why: after the frame that leaked, the next copy is usable or the task   *)
(* has nowhere to go but the test that makes it wait.                      *)
LeakInv ==
    \A t \in Tasks :
        leaks[t] = 1 =>
            IF ready
            THEN wifi_pc[t] \in {"sync", "send"} => IdentityUsable(snapshot[t])
            ELSE wifi_pc[t] \in {"check", "wait"}

(* "Receivers that have the corresponding public key can verify the        *)
(* signature over the message set they received" (README.md:343): a pack   *)
(* with a signature holds all the messages it was made over, as they were  *)
(* signed (auth.c:215-244, encode.c:137-153).                              *)
SignedPackVerifies ==
    \A t \in Tasks :
        /\ heard[t] # NoPack
        /\ heard[t].signed # NoSignature
        => heard[t].signed = heard[t].messages

(* The packs a receiver gets from one task carry consecutive counters,     *)
(* whatever fails between them: a gap means frames lost on the air, and a  *)
(* counter that stands still a repetition (wifi.c:187-188, 221-222).       *)
PackCountersConsecutive ==
    [][\A t \in Tasks :
          heard'[t] # heard[t] =>
              heard'[t].counter =
                  IF heard[t] = NoPack THEN 0
                  ELSE (heard[t].counter + 1) % CounterMod
      ]_vars

DriverRecovers(t) == <>[][~SendFails(t)]_vars

(* When the identity stays usable and transmissions work again, packs keep *)
(* coming (wifi.c:230-272).                                                *)
PacksKeepComing ==
    \A t \in Tasks :
        (t \in enabled /\ <>[]ready /\ DriverRecovers(t)) =>
            []<><<heard'[t] # heard[t]>>_vars

(* Once the state settles, what is on the air settles to it                *)
(* (wifi.c:175-176, 204-205).                                              *)
PacksFollowState ==
    \A t \in Tasks :
        (t \in enabled /\ <>[]ready /\ DriverRecovers(t) /\ <>[][FALSE]_state) =>
            <>[](/\ heard[t] # NoPack
                 /\ heard[t].messages = Pack(state, 0).messages)

=============================================================================
