------------------------------ MODULE OtaServer ------------------------------
(***************************************************************************)
(* src/remoteid/ota/ota.c and the start of app_main around it: the         *)
(* management server of OTA mode, whose handlers run one at a time in the  *)
(* HTTP server's task while restart timers run out and the power may fail, *)
(* and what a restart makes of the flash they leave behind.  ESP-IDF's     *)
(* flash, boot loader and timer are external.  Requests that are refused   *)
(* before a handler changes anything, and GET /status, change no state.    *)
(***************************************************************************)
EXTENDS Naturals, FiniteSets

CONSTANTS
    Images,         \* firmware images that pass esp_ota_end
    Values,         \* what /nvs may store under remoteid_auth/private_key
    Keys,           \* those of them that remoteid_auth_init accepts
    AuthEnabled,    \* CONFIG_REMOTEID_AUTH_ED25519 without a compiled-in key
    NoImage,        \* what an erased or partly written slot holds
    NoKey,          \* what NVS holds when there is no private key
    FaultSets       \* sets of what may go wrong, beside requests that fail

ASSUME OtaAssumption ==
    /\ NoImage \notin Images
    /\ Keys \subseteq Values
    /\ NoKey \notin Values
    /\ AuthEnabled \in BOOLEAN
    /\ FaultSets \subseteq SUBSET {"power", "timer", "nvs_erase", "server"}

VARIABLES
    faults,         \* what may go wrong with this device; never changes
    image,          \* flash: what each application slot holds
    invalid,        \* flash: the slots otadata marks invalid
    selected,       \* flash: the slot otadata selects
    private_key,    \* flash: that entry of the NVS partition
    nvs_mounted,    \* whether nvs_open can succeed
    running,        \* the slot that was booted
    phase,          \* how far the device has come since it was reset
    trigger,        \* the level of CONFIG_REMOTEID_OTA_TRIGGER_GPIO, asserted
    handler,        \* where the HTTP server's task is
    restart_due,    \* whether a restart timer is running
    acked,          \* history: requests answered 200 since the last reset
    accepted,       \* history: the image an update was answered 200 for
    superseded      \* history: whether a later request changed the slots

flash == <<image, invalid, selected, private_key>>
history == <<acked, accepted, superseded>>
vars == <<faults, flash, nvs_mounted, running, phase, trigger, handler,
          restart_due, history>>

-----------------------------------------------------------------------------
Slots == {"ota_0", "ota_1"}

Other(slot) == IF slot = "ota_0" THEN "ota_1" ELSE "ota_0"

Bootable(slot) == image[slot] # NoImage /\ slot \notin invalid

(* mutant: the slot after the selected one, which may be the running one *)
NextSlot_AfterSelected == Other(selected)

(* esp_ota_get_next_update_partition(NULL) *)
NextSlot == Other(running)

(* A device flashed over the cable: its first image is in ota_0. *)
Init ==
    /\ faults \in FaultSets
    /\ \E i \in Images : image = [s \in Slots |-> IF s = "ota_0" THEN i ELSE NoImage]
    /\ invalid = {}
    /\ selected = "ota_0"
    /\ private_key \in Values \cup {NoKey}
    /\ nvs_mounted = FALSE
    /\ running = "ota_0"
    /\ phase = "boot"
    /\ trigger \in BOOLEAN
    /\ handler = "idle"
    /\ restart_due = FALSE
    /\ acked = {}
    /\ accepted = NoImage
    /\ superseded = FALSE

-----------------------------------------------------------------------------
(* The start of the device: boot loader, nvs_flash_init, trigger, key.     *)

(* What is left of RAM after a reset: nothing. *)
Reset ==
    /\ phase' = "boot"
    /\ handler' = "idle"
    /\ restart_due' = FALSE
    /\ nvs_mounted' = FALSE

(* Boots the slot otadata selects, or the other one when it cannot. *)
BootLoader ==
    /\ phase = "boot"
    /\ \E slot \in Slots :
          /\ Bootable(slot)
          /\ slot = selected \/ ~Bootable(selected)
          /\ running' = slot
    /\ nvs_mounted' = TRUE
    /\ phase' = "trigger"
    /\ acked' = {}
    /\ accepted' = NoImage
    /\ superseded' = FALSE
    /\ UNCHANGED <<flash, trigger, handler, restart_due>>

(* mutant: the key is loaded before the trigger is looked at *)
CheckTrigger_AfterAuth ==
    /\ phase = "trigger"
    /\ phase' = IF AuthEnabled /\ private_key \notin Keys THEN "abort"
                ELSE IF trigger THEN "ota" ELSE "auth"
    /\ UNCHANGED <<flash, nvs_mounted, running, trigger, handler, restart_due,
                   history>>

(* remoteid_ota_check_and_run up to the loop it does not leave *)
CheckTrigger ==
    /\ phase = "trigger"
    /\ phase' = IF trigger THEN "ota" ELSE "auth"
    /\ UNCHANGED <<flash, nvs_mounted, running, trigger, handler, restart_due,
                   history>>

(* The access point or the HTTP server does not start: ESP_ERROR_CHECK. *)
ServerFails ==
    /\ "server" \in faults
    /\ phase = "trigger"
    /\ trigger
    /\ phase' = "abort"
    /\ UNCHANGED <<flash, nvs_mounted, running, trigger, handler, restart_due,
                   history>>

(* remoteid_auth_init; without a good key app_main aborts and the chip resets. *)
AuthInit ==
    /\ phase = "auth"
    /\ phase' = IF AuthEnabled /\ private_key \notin Keys THEN "abort"
                ELSE "operating"
    /\ UNCHANGED <<flash, nvs_mounted, running, trigger, handler, restart_due,
                   history>>

AbortResets ==
    /\ phase = "abort"
    /\ Reset
    /\ UNCHANGED <<flash, running, trigger, history>>

PowerFails ==
    /\ "power" \in faults
    /\ phase # "boot"
    /\ Reset
    /\ UNCHANGED <<faults, flash, running, trigger, history>>

(* Somebody asserts or releases the trigger. *)
MoveTrigger ==
    /\ trigger' = ~trigger
    /\ UNCHANGED <<faults, flash, nvs_mounted, running, phase, handler,
                   restart_due, history>>

-----------------------------------------------------------------------------
(* restart_timer_cb and schedule_restart *)

RestartTimer ==
    /\ restart_due
    /\ Reset
    /\ UNCHANGED <<faults, flash, running, trigger, history>>

ScheduleRestart ==
    /\ handler = "schedule"
    /\ handler' = "idle"
    /\ \/ restart_due' = TRUE
       \/ "timer" \in faults /\ UNCHANGED restart_due
    /\ UNCHANGED <<flash, nvs_mounted, running, phase, trigger, history>>

-----------------------------------------------------------------------------
(* handle_update *)

Request == phase = "ota" /\ handler = "idle"

(* esp_ota_begin with OTA_SIZE_UNKNOWN erases the whole slot. *)
UpdateBegin ==
    /\ Request
    /\ image' = [image EXCEPT ![NextSlot] = NoImage]
    /\ handler' = "receive"
    /\ superseded' = TRUE
    /\ UNCHANGED <<invalid, selected, private_key, nvs_mounted, running, phase,
                   trigger, restart_due, acked, accepted>>

(* Out of memory, a receive that fails or times out, a write that fails,   *)
(* an image that does not pass esp_ota_end: the slot stays unusable.  A    *)
(* selection that fails leaves a good image that is not selected.          *)
UpdateFails ==
    /\ handler \in {"receive", "select"}
    /\ handler' = "idle"
    /\ UNCHANGED <<flash, nvs_mounted, running, phase, trigger, restart_due,
                   history>>

(* The body has been written and esp_ota_end has validated it. *)
UpdateEnd ==
    /\ handler = "receive"
    /\ \E i \in Images : image' = [image EXCEPT ![NextSlot] = i]
    /\ handler' = "select"
    /\ UNCHANGED <<invalid, selected, private_key, nvs_mounted, running, phase,
                   trigger, restart_due, history>>

(* mutant: the answer is sent before the slot is selected *)
UpdateSelect_AnswersFirst ==
    /\ \/ /\ handler = "select"
          /\ handler' = "answer"
          /\ acked' = acked \cup {"update"}
          /\ accepted' = image[NextSlot]
          /\ superseded' = FALSE
          /\ UNCHANGED <<invalid, selected>>
       \/ /\ handler = "answer"
          /\ handler' = "schedule"
          /\ selected' = NextSlot
          /\ invalid' = invalid \ {NextSlot}
          /\ UNCHANGED history
    /\ UNCHANGED <<image, private_key, nvs_mounted, running, phase, trigger,
                   restart_due>>

(* mutant: a partition is selected that partitions.csv does not have *)
UpdateSelect_Factory ==
    /\ handler = "select"
    /\ selected' = "factory"
    /\ handler' = "answer"
    /\ UNCHANGED <<image, invalid, private_key, nvs_mounted, running, phase,
                   trigger, restart_due, history>>

(* esp_ota_set_boot_partition writes a new entry of otadata *)
UpdateSelect ==
    /\ handler = "select"
    /\ selected' = NextSlot
    /\ invalid' = invalid \ {NextSlot}
    /\ handler' = "answer"
    /\ UNCHANGED <<image, private_key, nvs_mounted, running, phase, trigger,
                   restart_due, history>>

UpdateAnswer ==
    /\ handler = "answer"
    /\ acked' = acked \cup {"update"}
    /\ accepted' = image[NextSlot]
    /\ superseded' = FALSE
    /\ handler' = "schedule"
    /\ UNCHANGED <<flash, nvs_mounted, running, phase, trigger, restart_due>>

-----------------------------------------------------------------------------
(* handle_nvs; nvs_open, nvs_set_str or _blob, nvs_commit and the answer.  *)
(* Any value is stored, under this key or another; no restart follows.  A  *)
(* commit that fails may have written the value or not.                    *)

NvsWrite ==
    /\ Request
    /\ nvs_mounted
    /\ private_key' \in Values \cup {private_key}
    /\ acked' = acked \cup {"nvs"}
    /\ UNCHANGED <<image, invalid, selected, nvs_mounted, running, phase,
                   trigger, handler, restart_due, accepted, superseded>>

NvsWriteFails ==
    /\ Request
    /\ nvs_mounted
    /\ private_key' \in Values \cup {private_key}
    /\ UNCHANGED <<image, invalid, selected, nvs_mounted, running, phase,
                   trigger, handler, restart_due, history>>

-----------------------------------------------------------------------------
(* handle_factory_reset, which answers first and ignores what              *)
(* nvs_flash_erase returns; erasing unmounts the partition.                *)

ResetAnswer ==
    /\ Request
    /\ acked' = acked \cup {"factory-reset"}
    /\ handler' = "erase"
    /\ UNCHANGED <<flash, nvs_mounted, running, phase, trigger, restart_due,
                   accepted, superseded>>

(* mutant: a failing erase returns without a restart *)
ResetErase_Returns ==
    /\ handler = "erase"
    /\ \/ private_key' = NoKey /\ nvs_mounted' = FALSE /\ handler' = "schedule"
       \/ /\ "nvs_erase" \in faults
          /\ handler' = "idle"
          /\ UNCHANGED <<private_key, nvs_mounted>>
    /\ UNCHANGED <<image, invalid, selected, running, phase, trigger,
                   restart_due, history>>

ResetErase ==
    /\ handler = "erase"
    /\ \/ private_key' = NoKey /\ nvs_mounted' = FALSE
       \/ "nvs_erase" \in faults /\ UNCHANGED <<private_key, nvs_mounted>>
    /\ handler' = "schedule"
    /\ UNCHANGED <<image, invalid, selected, running, phase, trigger,
                   restart_due, history>>

-----------------------------------------------------------------------------
(* handle_rollback: the check, the answer, and the call that does not      *)
(* return unless it fails.                                                 *)

(* mutant: whether there is an image to go back to is not checked *)
RollbackAnswer_Unchecked ==
    /\ Request
    /\ handler' = "rollback"
    /\ superseded' = TRUE
    /\ UNCHANGED <<flash, nvs_mounted, running, phase, trigger, restart_due,
                   acked, accepted>>

RollbackAnswer ==
    /\ Request
    /\ Bootable(Other(selected))
    /\ handler' = "rollback"
    /\ superseded' = TRUE
    /\ UNCHANGED <<flash, nvs_mounted, running, phase, trigger, restart_due,
                   acked, accepted>>

(* esp_ota_mark_app_invalid_rollback_and_reboot marks the selected entry   *)
(* of otadata, which makes the other one the selected entry, ...           *)
RollbackMarks ==
    /\ handler = "rollback"
    /\ invalid' = invalid \cup {selected}
    /\ selected' = Other(selected)
    /\ handler' = "reboot"
    /\ UNCHANGED <<image, private_key, nvs_mounted, running, phase, trigger,
                   restart_due, history>>

(* ... and restarts the chip. *)
RollbackReboots ==
    /\ handler = "reboot"
    /\ Reset
    /\ UNCHANGED <<flash, running, trigger, history>>

RollbackFails ==
    /\ handler = "rollback"
    /\ handler' = "idle"
    /\ UNCHANGED <<flash, nvs_mounted, running, phase, trigger, restart_due,
                   history>>

-----------------------------------------------------------------------------
Start ==
    /\ BootLoader \/ CheckTrigger \/ ServerFails \/ AuthInit \/ AbortResets
    /\ UNCHANGED faults

(* A handler that has changed something, up to its return. *)
Handler ==
    /\ \/ UpdateFails
       \/ UpdateEnd
       \/ UpdateSelect
       \/ UpdateAnswer
       \/ ResetErase
       \/ ScheduleRestart
       \/ RollbackMarks
       \/ RollbackReboots
       \/ RollbackFails
    /\ UNCHANGED faults

Client ==
    /\ \/ UpdateBegin
       \/ NvsWrite
       \/ NvsWriteFails
       \/ ResetAnswer
       \/ RollbackAnswer
    /\ UNCHANGED faults

Next == Start \/ Handler \/ Client \/ RestartTimer \/ PowerFails \/ MoveTrigger

Spec == Init /\ [][Next]_vars

(***************************************************************************)
(* The device starts, its handlers return (httpd_req_recv times out) and   *)
(* its timers expire; nobody needs to send a request or touch the trigger. *)
(***************************************************************************)
Fairness == WF_vars(Start) /\ WF_vars(Handler) /\ WF_vars(RestartTimer)

LiveSpec == Spec /\ Fairness

-----------------------------------------------------------------------------
TypeOK ==
    /\ faults \in FaultSets
    /\ image \in [Slots -> Images \cup {NoImage}]
    /\ invalid \subseteq Slots
    /\ selected \in Slots
    /\ private_key \in Values \cup {NoKey}
    /\ nvs_mounted \in BOOLEAN
    /\ running \in Slots
    /\ phase \in {"boot", "trigger", "ota", "auth", "operating", "abort"}
    /\ trigger \in BOOLEAN
    /\ handler \in {"idle", "receive", "select", "answer", "schedule", "erase",
                    "rollback", "reboot"}
    /\ restart_due \in BOOLEAN
    /\ acked \subseteq {"update", "nvs", "factory-reset"}
    /\ accepted \in Images \cup {NoImage}
    /\ superseded \in BOOLEAN

(* Whatever is requested, refused, cut short or repeated, and wherever the *)
(* power fails or a restart timer runs out: there is an image to boot      *)
(* (ota.c:103-184, 350-362).                                               *)
SomeImageBoots == \E slot \in Slots : Bootable(slot)

(* The image that runs is intact and stays the one to fall back on, also   *)
(* while an update just accepted waits for its restart (ota.c:110); only a *)
(* rollback that is about to restart the chip may have marked it, when the *)
(* image to go back to is intact and selected (ota.c:350-362).             *)
RunningImageIntact ==
    phase # "boot" =>
        Bootable(running) \/ (handler = "reboot" /\ Bootable(selected))

(* A device restarted after an update was answered 200 runs the image it   *)
(* was answered for, unless a later request changed the slots              *)
(* (ota.c:164-182).                                                        *)
AcceptedImageBoots ==
    [][BootLoader /\ "update" \in acked /\ ~superseded
         => image[running'] = accepted]_vars

(* An update or a factory reset that was answered 200 is followed by a     *)
(* restart, whether or not erasing fails and whatever else the client asks *)
(* for meanwhile, as long as timers can be created (ota.c:181-182, 318-321). *)
AnswersAreFollowedByRestart ==
    "timer" \notin faults =>
        \A request \in {"update", "factory-reset"} :
            request \in acked ~> phase = "boot"

(* A device that aborts for want of a good key can be reached: whoever     *)
(* keeps the trigger asserted gets the server, as long as that can start   *)
(* (main.c:32-36).                                                         *)
AbortedDeviceReachable ==
    faults \cap {"power", "server"} = {} =>
        (phase = "abort" ~> phase = "ota" \/ ~trigger)

=============================================================================
