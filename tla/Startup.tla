------------------------------- MODULE Startup -------------------------------
(***************************************************************************)
(* src/main.c, the NimBLE part of src/remoteid/ble.c and src/led: app_main *)
(* with the steps that abort it, the host's sync callback that configures  *)
(* the advertising instances and creates their tasks, those tasks as far   *)
(* as they start and stop an instance, and the indicator and the lights,   *)
(* which watch all this.  The readiness bit is what module AtomicStore     *)
(* makes of it; NimBLE, its controller and the GPIO driver are external.   *)
(***************************************************************************)
EXTENDS Integers, Sequences

CONSTANTS
    Ble,            \* the CONFIG_REMOTEID_TRANSPORT_BLE* enabled
    Outputs,        \* s_config of lighting.c: the outputs in their order
    MaxFaults       \* bound: how often something fails, in all

LateLightsCap == 2  \* bound: how far late_lights is counted

ASSUME StartupAssumption ==
    /\ Outputs \in Seq([enabled : BOOLEAN, gpio : Int, active_high : BOOLEAN])
    /\ Outputs # <<>>
    /\ MaxFaults \in Nat

VARIABLES
    step,               \* how far app_main has come
    faults,             \* history: how often something failed
    ready,              \* the store's readiness bit
    transports_started, \* who has been told: indicator.c, lighting.c
    host,               \* off, syncing or synced
    host_events,        \* history: what has happened to the host in this boot
    configured,         \* controller: the instances that are configured
    advertising,        \* controller: the instances that are on the air
    started,            \* ctx->started of each instance
    task_pc,            \* where each task that was given the context is
    shown,              \* the mode whose pattern the indicator shows
    next_output,        \* lighting_init and lighting_task: the loop's i
    outputs_configured, \* lighting.c: s_outputs[i].configured
    output_on,          \* lighting_task: what was decided for the output
    pin,                \* the level of each GPIO; -1: not an output
    identity_seen,      \* history: an identity was available in this boot
    late_lights         \* history: the outputs switched on since it is not

mainVars == <<step, faults, ready, transports_started>>
hostVars == <<host, host_events, configured, advertising, started, task_pc>>
identityVars == <<identity_seen, late_lights>>
lightVars == <<next_output, outputs_configured, output_on, pin, identityVars>>
vars == <<mainVars, hostVars, shown, lightVars>>

-----------------------------------------------------------------------------
(* app_main *)

AppMain == <<"indicator_init", "nvs_flash_init", "bt_mem_release",
    "ota_check_and_run", "model_init", "store_start", "lighting_init",
    "auth_init", "mavlink_start", "ble_start", "wifi_start", "mark_indicator",
    "mark_lighting", "returned">>

OtaMode == 0    \* the step of a device whose trigger is asserted

At(name) == step # OtaMode /\ AppMain[step] = name

Passed(name) == \E i \in 1 .. step - 1 : AppMain[i] = name

Pins == {Outputs[i].gpio : i \in DOMAIN Outputs}

Init ==
    /\ step = 1 /\ faults = 0 /\ ready = FALSE /\ transports_started = {}
    /\ host = "off" /\ host_events = {} /\ configured = {}
    /\ advertising = {} /\ started = {} /\ task_pc = [t \in Ble |-> <<>>]
    /\ shown = "off" /\ next_output = 1 /\ outputs_configured = {}
    /\ output_on = "undecided" /\ pin = [g \in Pins |-> -1]
    /\ identity_seen = FALSE /\ late_lights = 0

(* Nothing outlives a reset of the chip. *)
Reset ==
    /\ step' = 1 /\ ready' = FALSE /\ transports_started' = {}
    /\ host' = "off" /\ host_events' = {} /\ configured' = {}
    /\ advertising' = {} /\ started' = {} /\ task_pc' = [t \in Ble |-> <<>>]
    /\ shown' = "off" /\ next_output' = 1 /\ outputs_configured' = {}
    /\ output_on' = "undecided" /\ pin' = [g \in Pins |-> -1]
    /\ identity_seen' = FALSE /\ late_lights' = 0

Fault == faults < MaxFaults /\ faults' = faults + 1

Returns(name) == At(name) /\ step' = step + 1

(* The calls that change nothing another part of this module looks at.     *)
PlainStep ==
    /\ \E name \in {"indicator_init", "nvs_flash_init", "bt_mem_release",
                    "ota_check_and_run", "model_init", "auth_init",
                    "mavlink_start", "wifi_start"} : Returns(name)
    /\ UNCHANGED <<faults, ready, transports_started, hostVars, shown, lightVars>>

(* remoteid_store_start: the configured identity is usable or it is not. *)
StoreStart ==
    /\ Returns("store_start")
    /\ ready' \in BOOLEAN
    /\ identity_seen' = ready'
    /\ UNCHANGED <<faults, transports_started, hostVars, shown, next_output,
                   outputs_configured, output_on, pin, late_lights>>

(* remoteid_ble_start: the host task is created, and syncs later. *)
BleStart ==
    /\ Returns("ble_start")
    /\ host' = "syncing"
    /\ UNCHANGED <<faults, ready, transports_started, host_events, configured,
                   advertising, started, task_pc, shown, lightVars>>

(* indicator_mark_transports_started, lighting_mark_transports_started *)
MarkStarted ==
    /\ \/ /\ Returns("mark_indicator")
          /\ transports_started' = transports_started \cup {"indicator"}
       \/ /\ Returns("mark_lighting")
          /\ transports_started' = transports_started \cup {"lighting"}
    /\ UNCHANGED <<faults, ready, hostVars, shown, lightVars>>

(* A call returns an error: ESP_ERROR_CHECK aborts and the chip restarts. *)
StepFails ==
    /\ step \in 1 .. Len(AppMain)
    /\ AppMain[step] \notin {"mark_indicator", "mark_lighting", "returned"}
    /\ Fault
    /\ Reset

(* remoteid_ota_check_and_run does not return; see module OtaServer. *)
EnterOta ==
    /\ At("ota_check_and_run")
    /\ step' = OtaMode
    /\ UNCHANGED <<faults, ready, transports_started, hostVars, shown, lightVars>>

LeaveOta == step = OtaMode /\ Reset /\ UNCHANGED faults

(* MAVLink updates of the identity, once the input has been started.       *)
IdentityChanges ==
    /\ Passed("mavlink_start")
    /\ ready' = ~ready
    /\ identity_seen' = TRUE
    /\ late_lights' = 0
    /\ UNCHANGED <<step, faults, transports_started, hostVars, shown, next_output,
                   outputs_configured, output_on, pin>>

-----------------------------------------------------------------------------
(* The NimBLE host *)

(* ble_on_sync: without an address nothing is set up; otherwise instance   *)
(* by instance, each on its own, is configured and its task created.  Each *)
(* of the two may fail, and an instance without a task stays configured.   *)
OnSync ==
    /\ host = "syncing"
    /\ host' = "synced"
    /\ \E up \in SUBSET Ble : \E tasks \in SUBSET up :
          /\ configured' = configured \cup up
          /\ task_pc' = [t \in Ble |->
                            IF t \in tasks THEN Append(task_pc[t], "start")
                            ELSE task_pc[t]]
          /\ IF tasks = Ble THEN UNCHANGED <<faults, host_events>>
             ELSE Fault /\ host_events' = host_events \cup {"setup_failed"}
    /\ UNCHANGED <<step, ready, transports_started, advertising, started, shown,
                   lightVars>>

(* The host resets when it loses its controller, and syncs again; the code *)
(* is not told that (no reset_cb) but by a second ble_on_sync.             *)
HostReset ==
    /\ host = "synced"
    /\ Fault
    /\ host' = "syncing"
    /\ host_events' = host_events \cup {"reset"}
    /\ configured' = {}
    /\ advertising' = {}
    /\ UNCHANGED <<step, ready, transports_started, started, task_pc, shown,
                   lightVars>>

-----------------------------------------------------------------------------
(* remoteid_ble_transport_task, as far as it starts and stops its instance *)

Goto(t, i, here, there) ==
    /\ task_pc[t][i] = here
    /\ task_pc' = [task_pc EXCEPT ![t][i] = there]

WaitReady(t, i) ==
    /\ ready
    /\ Goto(t, i, "start", "check") \/ Goto(t, i, "check", "send")
       \/ Goto(t, i, "wait", "send")
    /\ UNCHANGED <<mainVars, host, host_events, configured, advertising, started,
                   shown, lightVars>>

(* mutant: started stays true *)
Pause_KeepsStarted(t, i) ==
    /\ ~ready
    /\ Goto(t, i, "check", "wait")
    /\ advertising' = advertising \ {t}
    /\ UNCHANGED <<mainVars, host, host_events, configured, started, shown,
                   lightVars>>

Pause(t, i) ==
    /\ ~ready
    /\ Goto(t, i, "check", "wait")
    /\ advertising' = advertising \ {t}
    /\ started' = started \ {t}
    /\ UNCHANGED <<mainVars, host, host_events, configured, shown, lightVars>>

(* ble_gap_ext_adv_stop fails, which nobody looks at. *)
PauseStopFails(t, i) ==
    /\ ~ready
    /\ t \in advertising
    /\ Goto(t, i, "check", "wait")
    /\ started' = started \ {t}
    /\ Fault
    /\ host_events' = host_events \cup {"stop_failed"}
    /\ UNCHANGED <<step, ready, transports_started, host, configured,
                   advertising, shown, lightVars>>

Reachable(t) == host = "synced" /\ t \in configured

(* advertise_ble: a started instance gets new data, any other is started.  *)
SendData(t, i) ==
    /\ Reachable(t)
    /\ t \in started
    /\ Goto(t, i, "send", "check")
    /\ UNCHANGED <<mainVars, host, host_events, configured, advertising, started,
                   shown, lightVars>>

StartInstance(t, i) ==
    /\ Reachable(t)
    /\ t \notin started \cup advertising
    /\ Goto(t, i, "send", "started")
    /\ advertising' = advertising \cup {t}
    /\ UNCHANGED <<mainVars, host, host_events, configured, started, shown,
                   lightVars>>

SetStarted(t, i) ==
    /\ Goto(t, i, "started", "check")
    /\ started' = started \cup {t}
    /\ UNCHANGED <<mainVars, host, host_events, configured, advertising, shown,
                   lightVars>>

(* The host cannot be reached, the instance is on the air already, or the  *)
(* controller or the memory pool refuses.                                  *)
SendFails(t, i) ==
    /\ Goto(t, i, "send", "check")
    /\ IF Reachable(t) /\ (t \in started \/ t \notin advertising) THEN Fault
       ELSE UNCHANGED faults
    /\ UNCHANGED <<step, ready, transports_started, host, host_events,
                   configured, advertising, started, shown, lightVars>>

TransportTask(t, i) ==
    \/ WaitReady(t, i)
    \/ Pause(t, i)
    \/ PauseStopFails(t, i)
    \/ SendData(t, i)
    \/ StartInstance(t, i)
    \/ SetStarted(t, i)
    \/ SendFails(t, i)

-----------------------------------------------------------------------------
(* indicator.c.  s_error is never set: nothing calls indicator_set_error.  *)

CurrentMode ==
    IF step = OtaMode THEN "ota"
    ELSE IF "indicator" \in transports_started /\ ready THEN "operational"
    ELSE "waiting"

(* indicator_task looks at the mode after every step of a pattern. *)
IndicatorTask ==
    /\ step = OtaMode \/ Passed("indicator_init")
    /\ shown # CurrentMode
    /\ shown' = CurrentMode
    /\ UNCHANGED <<mainVars, hostVars, lightVars>>

-----------------------------------------------------------------------------
(* lighting.c *)

(* output_level *)
Level(i, on) == IF on = Outputs[i].active_high THEN 1 ELSE 0

(* mutant: only the output before this one is compared *)
AlreadyUsed_Neighbour(i) ==
    i - 1 \in outputs_configured /\ Outputs[i - 1].gpio = Outputs[i].gpio

(* gpio_already_used *)
AlreadyUsed(i) ==
    \E j \in outputs_configured : j < i /\ Outputs[j].gpio = Outputs[i].gpio

Usable(i) == Outputs[i].enabled /\ Outputs[i].gpio >= 0 /\ ~AlreadyUsed(i)

(* lighting_init goes on with the next output, or returns. *)
NextToConfigure ==
    IF next_output < Len(Outputs) THEN next_output' = next_output + 1 /\ UNCHANGED step
    ELSE next_output' = 1 /\ Returns("lighting_init")

(* configure_output: gpio_config makes the pin an output, whose level is 0 *)
(* until set_output(i, false).                                             *)
ConfigurePin ==
    /\ At("lighting_init")
    /\ next_output \notin outputs_configured
    /\ Usable(next_output)
    /\ outputs_configured' = outputs_configured \cup {next_output}
    /\ pin' = [pin EXCEPT ![Outputs[next_output].gpio] = 0]
    /\ UNCHANGED <<mainVars, hostVars, shown, next_output, output_on, identityVars>>

SetPinOff ==
    /\ At("lighting_init")
    /\ next_output \in outputs_configured
    /\ pin' = [pin EXCEPT ![Outputs[next_output].gpio] = Level(next_output, FALSE)]
    /\ NextToConfigure
    /\ UNCHANGED <<faults, ready, transports_started, hostVars, shown,
                   outputs_configured, output_on, identityVars>>

SkipOutput ==
    /\ At("lighting_init")
    /\ next_output \notin outputs_configured
    /\ ~Usable(next_output)
    /\ NextToConfigure
    /\ UNCHANGED <<faults, ready, transports_started, hostVars, shown,
                   outputs_configured, output_on, pin, identityVars>>

(* mutant: that the transports run is enough *)
MayLight_NotReady == "lighting" \in transports_started

MayLight == "lighting" \in transports_started /\ ready

(* output_should_be_on: within the pattern the output is on or off. *)
DecideOutput ==
    /\ Passed("lighting_init")
    /\ output_on = "undecided"
    /\ output_on' \in IF next_output \in outputs_configured /\ MayLight
                      THEN {"on", "off"} ELSE {"off"}
    /\ UNCHANGED <<mainVars, hostVars, shown, next_output, outputs_configured,
                   pin, identityVars>>

(* mutant: the loop runs past the last output *)
NextOutput_TooFar(i) == (i % (Len(Outputs) + 1)) + 1

NextOutput(i) == (i % Len(Outputs)) + 1

(* set_output, after which the task goes on with the next output *)
SetOutput ==
    /\ output_on # "undecided"
    /\ pin' = IF next_output \in outputs_configured
              THEN [pin EXCEPT ![Outputs[next_output].gpio] =
                        Level(next_output, output_on = "on")]
              ELSE pin
    /\ late_lights' = IF output_on = "on" /\ ~ready /\ late_lights < LateLightsCap
                      THEN late_lights + 1 ELSE late_lights
    /\ output_on' = "undecided"
    /\ next_output' = NextOutput(next_output)
    /\ UNCHANGED <<mainVars, hostVars, shown, outputs_configured, identity_seen>>

LightingInit == ConfigurePin \/ SetPinOff \/ SkipOutput

LightingTask == DecideOutput \/ SetOutput

-----------------------------------------------------------------------------
AppMainStep ==
    \/ PlainStep
    \/ StoreStart
    \/ LightingInit
    \/ BleStart
    \/ MarkStarted

Next ==
    \/ AppMainStep
    \/ StepFails
    \/ EnterOta
    \/ LeaveOta
    \/ IdentityChanges
    \/ OnSync
    \/ HostReset
    \/ \E t \in Ble : \E i \in DOMAIN task_pc[t] : TransportTask(t, i)
    \/ IndicatorTask
    \/ LightingTask

Spec == Init /\ [][Next]_vars

(***************************************************************************)
(* FreeRTOS runs every task that does not block; of each priority the      *)
(* tasks share the processor, and all of them block between their turns.   *)
(* The host syncs with a controller that answers.                          *)
(***************************************************************************)
Fairness ==
    /\ WF_vars(AppMainStep)
    /\ WF_vars(OnSync)
    /\ \A t \in Ble, i \in 1 .. MaxFaults + 1 :
          WF_vars(i \in DOMAIN task_pc[t] /\ TransportTask(t, i))
    /\ WF_vars(IndicatorTask)
    /\ WF_vars(LightingTask)

LiveSpec == Spec /\ Fairness

-----------------------------------------------------------------------------
TypeOK ==
    /\ step \in 0 .. Len(AppMain)
    /\ faults \in 0 .. MaxFaults
    /\ ready \in BOOLEAN
    /\ transports_started \subseteq {"indicator", "lighting"}
    /\ host \in {"off", "syncing", "synced"}
    /\ host_events \subseteq {"setup_failed", "reset", "stop_failed"}
    /\ configured \subseteq Ble
    /\ advertising \subseteq Ble
    /\ started \subseteq Ble
    /\ task_pc \in [Ble -> Seq({"start", "check", "wait", "send", "started"})]
    /\ shown \in {"off", "waiting", "operational", "ota"}
    /\ next_output \in 1 .. Len(Outputs)
    /\ outputs_configured \subseteq DOMAIN Outputs
    /\ output_on \in {"undecided", "on", "off"}
    /\ pin \in [Pins -> {-1, 0, 1}]
    /\ identity_seen \in BOOLEAN
    /\ late_lights \in 0 .. LateLightsCap

(* What module BleTransport takes for granted.  Unless the host reset, a    *)
(* context has one task at most, its instance is configured before that    *)
(* task runs, and an instance that is started is on the air, even if one   *)
(* could not be set up or stopped.  That what is on the air is started, but *)
(* for the moment in which the task notes it, takes stops that succeed     *)
(* (ble.c:138-165, 235-342).                                               *)
ContextsAreSound ==
    \A t \in Ble :
        /\ "reset" \notin host_events =>
              /\ Len(task_pc[t]) <= 1
              /\ task_pc[t] # <<>> => Reachable(t)
              /\ t \in started => t \in advertising
        /\ host_events \subseteq {"setup_failed"} =>
              (t \in advertising => t \in started \/ task_pc[t] = <<"started">>)

Lit(i) ==
    /\ i \in outputs_configured
    /\ pin[Outputs[i].gpio] = IF Outputs[i].active_high THEN 1 ELSE 0

(* lighting_init is setting up an active-low output: it is on between      *)
(* gpio_config and set_output (lighting.c:322-325).                        *)
SettingUp(i) ==
    At("lighting_init") /\ next_output = i /\ ~Outputs[i].active_high

(* What the lights keep of README.md:158 ("Outputs remain off until valid  *)
(* Basic ID/UAS ID and Operator ID are available and enabled transports    *)
(* have started"): no output is on in a boot that had no identity yet, or  *)
(* in which remoteid_ble_start and remoteid_wifi_start have not returned,  *)
(* but an active-low one while it is set up; and when the identity goes    *)
(* away one output at most is still switched on, the one already decided   *)
(* (main.c:48-56, lighting.c:260-325).  Also where two outputs are         *)
(* configured for one pin with opposite levels.  That the transports run   *)
(* by then is more than the code sees to: see OperationalMeansStarted.     *)
LightsWaitForIdentity ==
    /\ \A i \in DOMAIN Outputs :
          Lit(i) => \/ SettingUp(i)
                    \/ /\ identity_seen
                       /\ Passed("ble_start") /\ Passed("wifi_start")
    /\ late_lights <= 1

(* When the identity goes away for good the lights go out for good, though *)
(* readiness is looked at before each output and not for the round         *)
(* (lighting.c:260-287).                                                   *)
LightsGoOut == <>[]~ready => <>[](\A i \in DOMAIN Outputs : ~Lit(i))

(* Whatever aborted or delayed the start: with an identity and a host that *)
(* does what it is asked, every BLE transport comes on the air and stays   *)
(* there (main.c:25-57, ble.c:151-204, 297-342).                           *)
TransportsComeUp ==
    <>[](ready /\ host_events = {}) => <>[](Ble \subseteq advertising)

-----------------------------------------------------------------------------
(* What the documents say, and the code does not do.                       *)

(* README.md:139: "Operational means the firmware has started its enabled  *)
(* transports and the state store has a valid Basic ID/UAS ID plus         *)
(* Operator ID."                                                           *)
OperationalMeansStarted ==
    shown = "operational" => \A t \in Ble : task_pc[t] # <<>>

=============================================================================
