------------------------------ MODULE OtaProofs ------------------------------
(***************************************************************************)
(* Proofs about OtaServer, for any images, keys and faults: there is       *)
(* always an image to boot, the running one is never lost, and an image an *)
(* update was answered 200 for is the one that runs after the restart.     *)
(***************************************************************************)
EXTENDS OtaServer, TLAPS

(* Inside a handler the device is in OTA mode, and what the handler has    *)
(* found out or done to the slots still holds at its next step: handlers   *)
(* run one at a time and a reset ends them.                                *)
HandlerInv ==
    /\ handler # "idle" => phase = "ota"
    /\ handler \in {"receive", "select", "rollback", "reboot"} => superseded
    /\ handler \in {"select", "answer"} => image[NextSlot] # NoImage
    /\ handler = "answer" => selected = NextSlot /\ NextSlot \notin invalid
    /\ handler = "rollback" => Bootable(Other(selected))

(* The image of the last answer is selected until a request changes it.    *)
AcceptedInv ==
    "update" \in acked /\ ~superseded =>
        Bootable(selected) /\ accepted = image[selected]

OtaInv ==
    TypeOK /\ SomeImageBoots /\ RunningImageIntact /\ HandlerInv /\ AcceptedInv

-----------------------------------------------------------------------------
(* There are two slots, and each is the other one's other. *)
LEMMA OtherSlot ==
    ASSUME NEW slot \in Slots
    PROVE  /\ Other(slot) \in Slots
           /\ Other(slot) # slot
           /\ Slots = {slot, Other(slot)}
  BY DEF Slots, Other

(* The state a device is in when it has been flashed over the cable.       *)
LEMMA OtaInit == Init => OtaInv
  <1> SUFFICES ASSUME Init PROVE OtaInv
    OBVIOUS
  <1>1. PICK i \in Images :
           image = [s \in Slots |-> IF s = "ota_0" THEN i ELSE NoImage]
    BY DEF Init
  <1>2. TypeOK
    BY <1>1 DEF Init, TypeOK, Slots
  <1>3. Bootable("ota_0")
    BY <1>1, OtaAssumption DEF Init, Bootable, Slots
  <1>4. SomeImageBoots
    BY <1>3 DEF SomeImageBoots, Slots
  <1>. QED
    BY <1>2, <1>4 DEF Init, OtaInv, RunningImageIntact, HandlerInv, AcceptedInv

(* Every step of the device keeps the types. *)
LEMMA OtaTypeStep == TypeOK /\ [Next]_vars => TypeOK'
  <1> SUFFICES ASSUME TypeOK, [Next]_vars PROVE TypeOK'
    OBVIOUS
  <1> USE DEF TypeOK
  <1>1. NextSlot \in Slots /\ Other(selected) \in Slots
    BY OtherSlot DEF NextSlot
  <1>2. CASE Start
    BY <1>2 DEF Start, BootLoader, CheckTrigger, ServerFails, AuthInit,
                AbortResets, Reset, flash, history
  <1>3. CASE Handler
    BY <1>1, <1>3 DEF Handler, UpdateFails, UpdateEnd, UpdateSelect, UpdateAnswer,
                ResetErase, ScheduleRestart, RollbackMarks,
                RollbackReboots, RollbackFails, Reset, flash, history
  <1>4. CASE Client
    BY <1>1, <1>4 DEF Client, Request, UpdateBegin, NvsWrite, NvsWriteFails,
                ResetAnswer, RollbackAnswer, flash, history
  <1>5. CASE RestartTimer \/ PowerFails \/ MoveTrigger
    BY <1>5 DEF RestartTimer, PowerFails, MoveTrigger, Reset, flash, history
  <1>6. CASE UNCHANGED vars
    BY <1>6 DEF vars, flash, history
  <1>. QED
    BY <1>2, <1>3, <1>4, <1>5, <1>6 DEF Next

(* Every step keeps an image to boot and what the handlers rely on. *)
LEMMA OtaStep == OtaInv /\ [Next]_vars => OtaInv'
  <1> SUFFICES ASSUME OtaInv, [Next]_vars PROVE OtaInv'
    OBVIOUS
  <1>0. TypeOK'
    BY OtaTypeStep DEF OtaInv
  <1> USE DEF OtaInv
  <1>t. /\ NextSlot \in Slots /\ running \in Slots /\ selected \in Slots
        /\ Other(selected) \in Slots
        /\ NextSlot # running /\ Other(selected) # selected
        /\ image \in [Slots -> Images \cup {NoImage}]
    BY OtherSlot DEF TypeOK, NextSlot
  <1> USE DEF SomeImageBoots, RunningImageIntact, HandlerInv, AcceptedInv,
              Bootable, NextSlot
  <1>1. CASE BootLoader
    BY <1>0, <1>1 DEF BootLoader, flash
  <1>2. CASE CheckTrigger \/ ServerFails \/ AuthInit \/ AbortResets
    BY <1>0, <1>2 DEF CheckTrigger, ServerFails, AuthInit, AbortResets, Reset,
                flash, history
  <1>3. CASE RestartTimer \/ PowerFails \/ MoveTrigger
    BY <1>0, <1>3 DEF RestartTimer, PowerFails, MoveTrigger, Reset, flash, history
  <1>4. CASE UpdateBegin
    BY <1>0, <1>t, <1>4 DEF UpdateBegin, Request
  <1>5. CASE UpdateEnd
    BY <1>0, <1>t, <1>5, OtaAssumption DEF UpdateEnd, history
  <1>6. CASE UpdateSelect
    BY <1>0, <1>t, <1>6 DEF UpdateSelect, history
  <1>7. CASE UpdateAnswer
    BY <1>0, <1>t, <1>7 DEF UpdateAnswer, flash
  <1>8. CASE RollbackAnswer
    BY <1>0, <1>t, <1>8 DEF RollbackAnswer, Request, flash
  <1>9. CASE RollbackMarks
    BY <1>0, <1>t, <1>9 DEF RollbackMarks, history
  <1>14. CASE RollbackReboots
    BY <1>0, <1>14 DEF RollbackReboots, Reset, flash, history
  <1>10. CASE UpdateFails \/ RollbackFails \/ ScheduleRestart
    BY <1>0, <1>10 DEF UpdateFails, RollbackFails, ScheduleRestart, flash, history
  <1>11. CASE ResetErase \/ ResetAnswer
    BY <1>0, <1>11 DEF ResetErase, ResetAnswer, Request, flash, history
  <1>12. CASE NvsWrite \/ NvsWriteFails
    BY <1>0, <1>12 DEF NvsWrite, NvsWriteFails, Request, flash, history
  <1>13. CASE UNCHANGED vars
    BY <1>0, <1>13 DEF vars, flash, history
  <1>. QED
    BY <1>1, <1>2, <1>3, <1>4, <1>5, <1>6, <1>7, <1>8, <1>9, <1>10, <1>11,
       <1>12, <1>13, <1>14 DEF Next, Start, Handler, Client

LEMMA OtaCorrect == Spec => []OtaInv
  BY OtaInit, OtaStep, PTL DEF Spec

(* Every variable of the server keeps its type: in particular otadata      *)
(* always selects one of the two slots (ota.c:110, 164, 362).              *)
THEOREM ServerTypes == Spec => []TypeOK
  <1>1. OtaInv => TypeOK
    BY DEF OtaInv
  <1>. QED
    BY <1>1, OtaCorrect, PTL

(* No sequence of requests, failures, power losses and restarts leaves the *)
(* device without an image to boot (ota.c:103-184, 350-362).               *)
THEOREM AlwaysBootable == Spec => []SomeImageBoots
  <1>1. OtaInv => SomeImageBoots
    BY DEF OtaInv
  <1>. QED
    BY <1>1, OtaCorrect, PTL

(* The image that runs is never erased, and marked only by a rollback that *)
(* restarts the chip next (ota.c:110-122, 350-362).                        *)
THEOREM RunningImageKept == Spec => []RunningImageIntact
  <1>1. OtaInv => RunningImageIntact
    BY DEF OtaInv
  <1>. QED
    BY <1>1, OtaCorrect, PTL

(* What an update was answered 200 for is what the restart boots, unless a *)
(* later request changed the slots (ota.c:164-182).                        *)
THEOREM AcceptedBoots == Spec => AcceptedImageBoots
  <1>1. OtaInv /\ [Next]_vars =>
           [BootLoader /\ "update" \in acked /\ ~superseded
              => image[running'] = accepted]_vars
    BY DEF OtaInv, AcceptedInv, BootLoader
  <1>. QED
    BY <1>1, OtaCorrect, PTL DEF Spec, AcceptedImageBoots

=============================================================================
