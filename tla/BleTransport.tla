----------------------------- MODULE BleTransport -----------------------------
(***************************************************************************)
(* src/remoteid/remoteid/ble.c: the transport tasks of BLE4 and BLE5       *)
(* (remoteid_ble_transport_task), each with its context ble_transport_ctx_t*)
(* and its advertising instance in the controller, reading the store while *)
(* the input sources keep updating it.  encode.c and auth.c supply what    *)
(* the task puts into its bundle.                                          *)
(***************************************************************************)
EXTENDS AtomicStore, Encoding

CONSTANTS
    AuthEnabled,            \* CONFIG_REMOTEID_AUTH_ED25519
    AdvResults,             \* outcomes of advertise_ble that may happen
    CounterMod              \* 256: the counters are uint8_t

Transports == Readers

ASSUME BleAssumption ==
    /\ AuthEnabled \in BOOLEAN
    /\ "ok" \in AdvResults
    /\ AdvResults \subseteq {"ok", "no_data", "no_start"}
    /\ CounterMod \in Nat \ {0}

VARIABLES
    pc,             \* start, check, wait, snapshot or send
    started,
    schedule_index,
    bundle,         \* bundle.messages and bundle.auth_pages, by slot
    counters,       \* by message type
    adv_data,       \* the controller: the data of each instance
    advertising,    \* the controller: whether the instance is on the air
    aired,          \* history: the last frame of each slot that was on the air
    heard,          \* history: the counter of the last frame of each message
                    \* type that was on the air
    leaks           \* history: unusable snapshots taken since ready last fell

bleVars == <<pc, started, schedule_index, bundle, counters, adv_data,
             advertising, aired, heard, leaks>>
vars == <<storeVars, bleVars>>

-----------------------------------------------------------------------------
(* types.h and s_message_schedule *)

AuthSlots == {"AUTH_0", "AUTH_1", "AUTH_2", "AUTH_3"}
Slots == MessageSlots \cup AuthSlots
MessageTypes == MessageSlots \cup {"AUTH"}

Schedule ==
    <<"BASIC_ID", "LOCATION", "BASIC_ID", "LOCATION", "SYSTEM", "LOCATION",
      "OPERATOR_ID", "LOCATION">>
    \o (IF AuthEnabled THEN <<"AUTH_0", "AUTH_1", "AUTH_2", "AUTH_3">> ELSE <<>>)

Slot(t) == Schedule[schedule_index[t] + 1]

(* mutant: the index runs off the end of the schedule *)
NextIndex_NoWrap(i) == i + 1

NextIndex(i) == (i + 1) % Len(Schedule)

(* mutant: an identity that is in the bundle already is not encoded again *)
EncodeStatic_Once(s, b) ==
    IF b["OPERATOR_ID"] # Zeroed THEN b
    ELSE [b EXCEPT !["BASIC_ID"] = BasicIdMessage(s),
                   !["OPERATOR_ID"] = OperatorIdMessage(s)]

EncodeStatic(s, b) ==
    [b EXCEPT !["BASIC_ID"] = BasicIdMessage(s),
              !["OPERATOR_ID"] = OperatorIdMessage(s)]

(* mutant: a Location that is in the bundle already is not encoded again *)
EncodeDynamic_Once(s, b, slot) ==
    CASE slot = "LOCATION" ->
           [b EXCEPT ![slot] = IF @ = Zeroed THEN LocationMessage(s) ELSE @]
      [] slot = "SYSTEM" -> [b EXCEPT ![slot] = SystemMessage(s)]
      [] OTHER -> b

EncodeDynamic(s, b, slot) ==
    IF ~DynamicEncodable(s, slot) THEN b
    ELSE CASE slot = "LOCATION" -> [b EXCEPT ![slot] = LocationMessage(s)]
           [] slot = "SYSTEM" -> [b EXCEPT ![slot] = SystemMessage(s)]
           [] OTHER -> b

(* remoteid_auth_sign_bundle: four pages that carry parts of one signature *)
(* of the four messages as they are in the bundle.                         *)
Signed(b) == [m \in MessageSlots |-> b[m]]

SignBundle(b) ==
    [slot \in Slots |->
        IF slot \in AuthSlots
        THEN [type |-> "AUTH", page |-> slot, signed |-> Signed(b)]
        ELSE b[slot]]

-----------------------------------------------------------------------------
NoFrame == [slot |-> "none"]
NoCounter == -1

BleInit ==
    /\ pc = [t \in Transports |-> "start"]
    /\ started = [t \in Transports |-> FALSE]
    /\ schedule_index = [t \in Transports |-> 0]
    /\ bundle = [t \in Transports |-> [slot \in Slots |-> Zeroed]]
    /\ counters = [t \in Transports |-> [type \in MessageTypes |-> 0]]
    /\ adv_data = [t \in Transports |-> NoFrame]
    /\ advertising = [t \in Transports |-> FALSE]
    /\ aired = [t \in Transports |-> [slot \in Slots |-> NoFrame]]
    /\ heard = [t \in Transports |-> [type \in MessageTypes |-> NoCounter]]
    /\ leaks = [t \in Transports |-> 0]

Init == StoreInit /\ BleInit

(* The input sources and the store task.  An outage begins when the        *)
(* readiness bit falls; the count of leaks is of the outage that began     *)
(* last.                                                                   *)
InputSubmits == (\E u \in Inputs : Submit(u)) /\ UNCHANGED bleVars

StoreApplies ==
    /\ ApplyUpdate
    /\ leaks' = [t \in Transports |-> IF ready /\ ~ready' THEN 0 ELSE leaks[t]]
    /\ UNCHANGED <<pc, started, schedule_index, bundle, counters, adv_data,
                   advertising, aired, heard>>

(* remoteid_store_wait_ready before the loop *)
FirstWait(t) ==
    /\ pc[t] = "start"
    /\ ready
    /\ pc' = [pc EXCEPT ![t] = "check"]
    /\ UNCHANGED <<storeVars, started, schedule_index, bundle, counters,
                   adv_data, advertising, aired, heard, leaks>>

(* mutant: readiness is not looked at again once the loop runs *)
CheckReady_NotChecked(t) ==
    /\ pc[t] = "check"
    /\ pc' = [pc EXCEPT ![t] = "snapshot"]
    /\ UNCHANGED <<storeVars, started, schedule_index, bundle, counters,
                   adv_data, advertising, aired, heard, leaks>>

(* remoteid_store_is_ready: reads the bit, not the state *)
CheckReady(t) ==
    /\ pc[t] = "check"
    /\ ready
    /\ pc' = [pc EXCEPT ![t] = "snapshot"]
    /\ UNCHANGED <<storeVars, started, schedule_index, bundle, counters,
                   adv_data, advertising, aired, heard, leaks>>

(* mutants: advertising is not stopped; started stays true *)
Pause_KeepsAdvertising(t) ==
    /\ pc[t] = "check"
    /\ ~ready
    /\ started' = [started EXCEPT ![t] = FALSE]
    /\ pc' = [pc EXCEPT ![t] = "wait"]
    /\ UNCHANGED <<storeVars, schedule_index, bundle, counters, adv_data,
                   advertising, aired, heard, leaks>>

Pause_KeepsStarted(t) ==
    /\ pc[t] = "check"
    /\ ~ready
    /\ advertising' = [advertising EXCEPT ![t] = FALSE]
    /\ pc' = [pc EXCEPT ![t] = "wait"]
    /\ UNCHANGED <<storeVars, started, schedule_index, bundle, counters,
                   adv_data, aired, heard, leaks>>

Pause(t) ==
    /\ pc[t] = "check"
    /\ ~ready
    /\ advertising' = [advertising EXCEPT ![t] = FALSE]
    /\ started' = [started EXCEPT ![t] = FALSE]
    /\ pc' = [pc EXCEPT ![t] = "wait"]
    /\ UNCHANGED <<storeVars, schedule_index, bundle, counters, adv_data,
                   aired, heard, leaks>>

(* remoteid_store_wait_ready in the loop; is_ready is not asked again *)
Resume(t) ==
    /\ pc[t] = "wait"
    /\ ready
    /\ pc' = [pc EXCEPT ![t] = "snapshot"]
    /\ UNCHANGED <<storeVars, started, schedule_index, bundle, counters,
                   adv_data, advertising, aired, heard, leaks>>

MaxLeaks == 2   \* the history stops counting here

TakeSnapshot(t) ==
    /\ pc[t] = "snapshot"
    /\ GetSnapshot(t)
    /\ leaks' = [leaks EXCEPT ![t] =
                    IF ready \/ leaks[t] = MaxLeaks THEN leaks[t]
                    ELSE leaks[t] + 1]
    /\ pc' = [pc EXCEPT ![t] = "send"]
    /\ UNCHANGED <<started, schedule_index, bundle, counters, adv_data,
                   advertising, aired, heard>>

(* remoteid_encode_static_messages fails: the rest of the loop is skipped. *)
SkipUnencodable(t) ==
    /\ pc[t] = "send"
    /\ ~StaticEncodable(snapshot[t])
    /\ pc' = [pc EXCEPT ![t] = "check"]
    /\ UNCHANGED <<storeVars, started, schedule_index, bundle, counters,
                   adv_data, advertising, aired, heard, leaks>>

(* advertise_ble: no data when there is no mbuf or set_data fails; no      *)
(* start when ext_adv_start fails after set_data.  An instance that is on  *)
(* the air sends what set_data gives it last.                              *)
Advertise_CountsFirst(t, slot, message, result) ==
    LET n == (counters[t][message.type] + 1) % CounterMod
        frame == [slot |-> slot, message |-> message,
                  counter |-> counters[t][message.type]]
        up == IF started[t] THEN advertising[t] ELSE TRUE
    IN  /\ counters' = [counters EXCEPT ![t][message.type] = n]
        /\ \/ /\ result = "no_data"
              /\ UNCHANGED <<started, adv_data, advertising, aired, heard>>
           \/ /\ result = "no_start"
              /\ ~started[t]
              /\ adv_data' = [adv_data EXCEPT ![t] = frame]
              /\ UNCHANGED <<started, advertising, aired, heard>>
           \/ /\ result = "ok"
              /\ adv_data' = [adv_data EXCEPT ![t] = frame]
              /\ advertising' = [advertising EXCEPT ![t] = up]
              /\ started' = [started EXCEPT ![t] = TRUE]
              /\ aired' = IF up THEN [aired EXCEPT ![t][slot] = frame] ELSE aired
              /\ heard' = IF up THEN [heard EXCEPT ![t][message.type] = frame.counter]
                          ELSE heard

Advertise(t, slot, message, result) ==
    LET n == (counters[t][message.type] + 1) % CounterMod
        frame == [slot |-> slot, message |-> message,
                  counter |-> counters[t][message.type]]
        up == IF started[t] THEN advertising[t] ELSE TRUE
    IN  \/ /\ result = "no_data"
           /\ UNCHANGED <<started, counters, adv_data, advertising, aired, heard>>
        \/ /\ result = "no_start"
           /\ ~started[t]
           /\ adv_data' = [adv_data EXCEPT ![t] = frame]
           /\ UNCHANGED <<started, counters, advertising, aired, heard>>
        \/ /\ result = "ok"
           /\ adv_data' = [adv_data EXCEPT ![t] = frame]
           /\ advertising' = [advertising EXCEPT ![t] = up]
           /\ started' = [started EXCEPT ![t] = TRUE]
           /\ counters' = [counters EXCEPT ![t][message.type] = n]
           /\ aired' = IF up THEN [aired EXCEPT ![t][slot] = frame] ELSE aired
           /\ heard' = IF up THEN [heard EXCEPT ![t][message.type] = frame.counter]
                       ELSE heard

(* mutants: the dynamic messages are encoded again before signing, as the  *)
(* comment at ble.c:181-183 warns; every page is a new signature           *)
AuthBundle_Reencodes(s, b, slot) ==
    IF slot = "AUTH_0"
    THEN SignBundle(EncodeDynamic(s, EncodeDynamic(s, b, "LOCATION"), "SYSTEM"))
    ELSE b

AuthBundle_SignsEachPage(s, b, slot) == SignBundle(b)

AuthBundle(s, b, slot) == IF slot = "AUTH_0" THEN SignBundle(b) ELSE b

(* The rest of the loop.  A dynamic message that cannot be encoded leaves  *)
(* the one of the bundle to be advertised, and the schedule advances       *)
(* whatever advertise_ble returns.                                         *)
Send(t) ==
    /\ pc[t] = "send"
    /\ StaticEncodable(snapshot[t])
    /\ LET slot == Slot(t)
           static == EncodeStatic(snapshot[t], bundle[t])
           b == IF slot \in AuthSlots
                THEN AuthBundle(snapshot[t], static, slot)
                ELSE EncodeDynamic(snapshot[t], static, slot)
       IN  /\ bundle' = [bundle EXCEPT ![t] = b]
           /\ \E result \in AdvResults : Advertise(t, slot, b[slot], result)
    /\ schedule_index' = [schedule_index EXCEPT ![t] = NextIndex(@)]
    /\ pc' = [pc EXCEPT ![t] = "check"]
    /\ UNCHANGED <<storeVars, leaks>>

Transport(t) ==
    \/ FirstWait(t)
    \/ CheckReady(t)
    \/ Pause(t)
    \/ Resume(t)
    \/ TakeSnapshot(t)
    \/ SkipUnencodable(t)
    \/ Send(t)

Next ==
    \/ InputSubmits
    \/ StoreApplies
    \/ \E t \in Transports : Transport(t)

Spec == Init /\ [][Next]_vars

(***************************************************************************)
(* The store task applies what it accepted (AcceptedUpdatesApplied of      *)
(* module Store).  A transport task blocks only in wait_ready, in          *)
(* vTaskDelay and for the store's mutex, whose holders give it back        *)
(* without blocking; tasks of one priority share the processor.            *)
(***************************************************************************)
Fairness ==
    /\ WF_vars(StoreApplies)
    /\ \A t \in Transports : WF_vars(Transport(t))

LiveSpec == Spec /\ Fairness

-----------------------------------------------------------------------------
Pages ==
    [type : {"AUTH"}, page : AuthSlots, signed : [MessageSlots -> Messages]]

(* Only the slots of the authentication hold pages. *)
Bundles ==
    {b \in [Slots -> Messages \cup Pages] :
        \A m \in MessageSlots : b[m] \in Messages}

Frames ==
    [slot : Slots, message : Messages \cup Pages, counter : 0 .. CounterMod - 1]

TypeOK ==
    /\ StoreTypeOK
    /\ pc \in [Transports -> {"start", "check", "wait", "snapshot", "send"}]
    /\ started \in [Transports -> BOOLEAN]
    /\ schedule_index \in [Transports -> 0 .. Len(Schedule) - 1]
    /\ bundle \in [Transports -> Bundles]
    /\ counters \in [Transports -> [MessageTypes -> 0 .. CounterMod - 1]]
    /\ adv_data \in [Transports -> Frames \cup {NoFrame}]
    /\ advertising \in [Transports -> BOOLEAN]
    /\ aired \in [Transports -> [Slots -> Frames \cup {NoFrame}]]
    /\ heard \in [Transports -> [MessageTypes -> 0 .. CounterMod - 1 \cup {NoCounter}]]
    /\ leaks \in [Transports -> 0 .. MaxLeaks]

OnAir(t, slot) == advertising[t] /\ adv_data[t].slot = slot

(* A transport that waits for an identity is off the air (ble.c:157-165),  *)
(* and its started flag is the controller's (ble.c:138-145, 163): were it  *)
(* not, the instance would never be started again, or started twice.       *)
PausedMeansSilent ==
    \A t \in Transports :
        /\ pc[t] \in {"start", "wait"} => ~advertising[t]
        /\ started[t] = advertising[t]

(* Between the test of the bit and the copy of the state the identity may  *)
(* go away (ble.c:161-168), but only once: of one outage a transport sees  *)
(* at most one unusable state, whatever the input sources submit.          *)
OneLeakPerOutage == \A t \in Transports : leaks[t] <= 1

(* With an unusable snapshot behind it in an outage, a transport has       *)
(* nowhere to go but the test that pauses it.                              *)
LeakInv ==
    \A t \in Transports :
        ~ready /\ leaks[t] = 1 => pc[t] \in {"send", "check", "wait"}

(* What a receiver counts: two frames of one message type that follow each *)
(* other on the air carry consecutive counters, across failed sends,       *)
(* pauses and the shared counter of the authentication pages               *)
(* (ble.c:112-149).  What a slot sends is of another type while its        *)
(* message in the bundle is still zeroed.                                  *)
CountersConsecutive ==
    \A t \in Transports : \A type \in MessageTypes :
        counters[t][type] = IF heard[t][type] = NoCounter THEN 0
                            ELSE (heard[t][type] + 1) % CounterMod

(* A burst of authentication pages is one signature: a receiver can put    *)
(* the four pages together (ble.c:178-188).                                *)
AuthBurstCoherent ==
    \A t \in Transports : \A slot \in AuthSlots :
        OnAir(t, slot) =>
            adv_data[t].message.signed = aired[t]["AUTH_0"].message.signed

(* The Location and the System message a signature covers are the ones     *)
(* that were on the air last (ble.c:181-184): a receiver verifies what it  *)
(* received, also when a pause or an update came in between.               *)
SignedDynamicWasAired ==
    \A t \in Transports :
        OnAir(t, "AUTH_0") =>
            \A m \in {"LOCATION", "SYSTEM"} :
                adv_data[t].message.signed[m] = aired[t][m].message

(* While the identity stays usable every slot of the schedule keeps coming *)
(* on the air, also after earlier outages (ble.c:35-50, 160-200).          *)
EverySlotKeepsAiring ==
    \A t \in Transports : \A i \in DOMAIN Schedule :
        <>[]ready => []<>OnAir(t, Schedule[i])

(* When the identity goes away for good, the transports fall silent for    *)
(* good (ble.c:161-166).                                                   *)
OutageSilences ==
    \A t \in Transports : <>[]~ready => <>[]~advertising[t]

(* Once the state settles, what is on the air settles to it, also when a   *)
(* Location of an earlier state could not be encoded: no message of such a *)
(* state is repeated for ever, but in place of one that cannot be encoded  *)
(* (ble.c:168-198).                                                        *)
AirFollowsState ==
    \A t \in Transports :
        (<>[]ready /\ <>[][FALSE]_state) =>
            <>[](\A slot \in MessageSlots :
                    OnAir(t, slot) /\ Encodable(state, slot)
                        => adv_data[t].message = Message(state, slot))

-----------------------------------------------------------------------------
(* What the documents and comments say, and the code does not do.          *)

(* README.md:46 says the placeholders "intentionally block all broadcasts  *)
(* until replaced", README.md:188 that broadcasts "do not start until a    *)
(* valid Basic ID/UAS ID and Operator ID are present".                     *)
OnlyUsableIdentityOnAir ==
    \A t \in Transports :
        /\ OnAir(t, "BASIC_ID") =>
              UsableText(adv_data[t].message.uas_id, UasPlaceholder)
        /\ OnAir(t, "OPERATOR_ID") =>
              UsableText(adv_data[t].message.operator_id, OperatorPlaceholder)

(* README.md:72: "The Location and System messages must be broadcast at    *)
(* 1 Hz regardless of whether position is known."                          *)
LocationKeepsAiring ==
    \A t \in Transports : <>[]ready => []<>OnAir(t, "LOCATION")

=============================================================================
