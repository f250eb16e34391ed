----------------------------- MODULE StartupProofs -----------------------------
(***************************************************************************)
(* Proofs about module Startup for every set of BLE transports, every list *)
(* of outputs and every number of faults: what module BleTransport takes   *)
(* for granted of the contexts of its tasks, and that no output is lit     *)
(* in a boot that had no identity yet or has not started its transports.   *)
(***************************************************************************)
EXTENDS Startup, TLAPS, SequenceTheorems

-----------------------------------------------------------------------------
(* Where the steps of app_main are *)

(* app_main ends after its thirteen calls; which those are. *)
LEMMA StepNames ==
    /\ Len(AppMain) = 14
    /\ \A n \in 1 .. 14 :
          /\ AppMain[n] = "ota_check_and_run" <=> n = 4
          /\ AppMain[n] = "store_start" <=> n = 6
          /\ AppMain[n] = "lighting_init" <=> n = 7
          /\ AppMain[n] = "ble_start" <=> n = 10
          /\ AppMain[n] = "wifi_start" <=> n = 11
          /\ AppMain[n] = "mark_indicator" <=> n = 12
          /\ AppMain[n] = "mark_lighting" <=> n = 13
          /\ AppMain[n] = "returned" <=> n = 14
  BY DEF AppMain

(* Which step a call is, and that the call is behind app_main. *)
LEMMA StepsAre ==
    ASSUME TypeOK
    PROVE  /\ step \in 0 .. 14
           /\ At("ota_check_and_run") <=> step = 4
           /\ At("store_start") <=> step = 6
           /\ At("lighting_init") <=> step = 7
           /\ At("ble_start") <=> step = 10
           /\ At("mark_indicator") <=> step = 12
           /\ At("mark_lighting") <=> step = 13
           /\ Passed("lighting_init") <=> step > 7
           /\ Passed("ble_start") <=> step > 10
           /\ Passed("wifi_start") <=> step > 11
  <1>1. step \in 0 .. 14
    BY StepNames DEF TypeOK
  <1>2. step # 0 => step \in 1 .. 14
    BY <1>1
  <1>3. Passed("lighting_init") <=> step > 7
    BY <1>1, StepNames DEF Passed
  <1>4. Passed("ble_start") <=> step > 10
    BY <1>1, StepNames DEF Passed
  <1>5. Passed("wifi_start") <=> step > 11
    BY <1>1, StepNames DEF Passed
  <1>. QED
    BY <1>1, <1>2, <1>3, <1>4, <1>5, StepNames DEF At, OtaMode

(* What PlainStep passes is none of the calls with an action of their own. *)
LEMMA PlainStepIs ==
    ASSUME TypeOK, PlainStep
    PROVE  /\ step \in 1 .. 11 \ {6, 7, 10}
           /\ step' = step + 1
  <1>1. PICK name \in {"indicator_init", "nvs_flash_init", "bt_mem_release",
                       "ota_check_and_run", "model_init", "auth_init",
                       "mavlink_start", "wifi_start"} : Returns(name)
    BY DEF PlainStep
  <1>2. /\ step \in 1 .. 14
        /\ AppMain[step] = name
        /\ step' = step + 1
    BY <1>1, StepNames DEF Returns, At, OtaMode, TypeOK
  <1>3. step \notin {6, 7, 10, 12, 13, 14}
    BY <1>1, <1>2, StepNames
  <1>. QED
    BY <1>2, <1>3

-----------------------------------------------------------------------------
(* Types *)

(* The outputs are records of the configuration. *)
LEMMA OutputsTyped ==
    /\ Len(Outputs) \in Nat \ {0}
    /\ DOMAIN Outputs = 1 .. Len(Outputs)
    /\ \A i \in 1 .. Len(Outputs) :
          /\ Outputs[i].active_high \in BOOLEAN
          /\ Outputs[i].gpio \in Pins
  <1> DEFINE S == [enabled : BOOLEAN, gpio : Int, active_high : BOOLEAN]
  <1>1. Outputs \in Seq(S) /\ Outputs # <<>>
    BY StartupAssumption
  <1> HIDE DEF S
  <1>2. /\ Len(Outputs) \in Nat \ {0}
        /\ DOMAIN Outputs = 1 .. Len(Outputs)
        /\ \A i \in 1 .. Len(Outputs) : Outputs[i] \in S
    BY <1>1
  <1>. QED
    BY <1>2 DEF S, Pins

(* A reset leaves what a boot starts with. *)
LEMMA ResetTyped == Reset /\ faults' \in 0 .. MaxFaults => TypeOK'
  <1> SUFFICES ASSUME Reset, faults' \in 0 .. MaxFaults PROVE TypeOK'
    OBVIOUS
  <1>1. task_pc' \in [Ble -> Seq({"start", "check", "wait", "send", "started"})]
    BY DEF Reset
  <1>2. 1 \in 0 .. Len(AppMain) /\ 1 \in 1 .. Len(Outputs) /\ 0 \in 0 .. LateLightsCap
    BY StepNames, OutputsTyped DEF LateLightsCap
  <1>3. pin' \in [Pins -> {-1, 0, 1}]
    BY DEF Reset
  <1>. QED
    BY <1>1, <1>2, <1>3 DEF Reset, TypeOK

(* A boot starts with nothing set up. *)
LEMMA TypeInit == Init => TypeOK
  <1> SUFFICES ASSUME Init PROVE TypeOK
    OBVIOUS
  <1>1. task_pc \in [Ble -> Seq({"start", "check", "wait", "send", "started"})]
    BY DEF Init
  <1>2. 1 \in 0 .. Len(AppMain) /\ 1 \in 1 .. Len(Outputs) /\ 0 \in 0 .. MaxFaults
    BY StepNames, OutputsTyped, StartupAssumption
  <1>4. late_lights \in 0 .. LateLightsCap
    BY DEF Init, LateLightsCap
  <1>3. pin \in [Pins -> {-1, 0, 1}]
    BY DEF Init
  <1>. QED
    BY <1>1, <1>2, <1>3, <1>4 DEF Init, TypeOK

(* A task goes from one of its places to another. *)
LEMMA GotoTyped ==
    ASSUME TypeOK, NEW t \in Ble, NEW i \in DOMAIN task_pc[t], NEW here,
           NEW there \in {"start", "check", "wait", "send", "started"},
           Goto(t, i, here, there)
    PROVE  task_pc' \in [Ble -> Seq({"start", "check", "wait", "send", "started"})]
  <1> DEFINE Places == {"start", "check", "wait", "send", "started"}
             new == [task_pc[t] EXCEPT ![i] = there]
  <1>1. task_pc[t] \in Seq(Places)
    BY DEF TypeOK
  <1>2. there \in Places
    OBVIOUS
  <1> HIDE DEF Places
  <1>3. new \in Seq(Places)
    BY <1>1, <1>2
  <1>4. task_pc' = [task_pc EXCEPT ![t] = new]
    BY DEF Goto
  <1>5. task_pc \in [Ble -> Seq(Places)]
    BY DEF TypeOK, Places
  <1> HIDE DEF new
  <1>. QED
    BY <1>3, <1>4, <1>5 DEF Places

(* Every step of app_main keeps the types. *)
LEMMA AppMainTyped == TypeOK /\ AppMainStep => TypeOK'
  <1> SUFFICES ASSUME TypeOK, AppMainStep PROVE TypeOK'
    OBVIOUS
  <1>1. CASE PlainStep
    <2>1. step' \in 0 .. Len(AppMain)
      BY <1>1, PlainStepIs, StepNames
    <2>. QED
      BY <1>1, <2>1 DEF PlainStep, hostVars, lightVars, identityVars, TypeOK
  <1>2. ASSUME NEW name \in {"store_start", "lighting_init", "ble_start",
                             "mark_indicator", "mark_lighting"},
               Returns(name)
        PROVE  step' \in 0 .. Len(AppMain)
    BY <1>2, StepsAre, StepNames DEF Returns
  <1>3. CASE StoreStart
    BY <1>2, <1>3 DEF StoreStart, hostVars, TypeOK
  <1>4. CASE BleStart
    BY <1>2, <1>4 DEF BleStart, lightVars, identityVars, TypeOK
  <1>5. CASE MarkStarted
    BY <1>2, <1>5 DEF MarkStarted, hostVars, lightVars, identityVars, TypeOK
  <1>6. /\ Outputs[next_output].gpio \in Pins
        /\ \A on : Level(next_output, on) \in {0, 1}
    BY OutputsTyped DEF TypeOK, Level
  <1>7. NextToConfigure => /\ step' \in 0 .. Len(AppMain)
                           /\ next_output' \in 1 .. Len(Outputs)
    BY <1>2, OutputsTyped DEF NextToConfigure, TypeOK
  <1>8. CASE ConfigurePin
    BY <1>6, <1>8, OutputsTyped
       DEF ConfigurePin, mainVars, hostVars, identityVars, TypeOK
  <1>9. CASE SetPinOff
    BY <1>6, <1>7, <1>9 DEF SetPinOff, hostVars, identityVars, TypeOK
  <1>10. CASE SkipOutput
    BY <1>7, <1>10 DEF SkipOutput, hostVars, identityVars, TypeOK
  <1>. QED
    BY <1>1, <1>3, <1>4, <1>5, <1>8, <1>9, <1>10 DEF AppMainStep, LightingInit

(* Every step of a transport task keeps the types. *)
LEMMA TransportTyped ==
    ASSUME TypeOK, NEW t \in Ble, NEW i \in DOMAIN task_pc[t], TransportTask(t, i)
    PROVE  TypeOK'
  <1>1. task_pc' \in [Ble -> Seq({"start", "check", "wait", "send", "started"})]
    <2>1. \E here, there \in {"start", "check", "wait", "send", "started"} :
             Goto(t, i, here, there)
      BY DEF TransportTask, WaitReady, Pause, PauseStopFails, SendData,
             StartInstance, SetStarted, SendFails
    <2>. QED
      BY <2>1, GotoTyped
  <1>2. faults' \in 0 .. MaxFaults
    BY StartupAssumption
       DEF TransportTask, WaitReady, Pause, PauseStopFails, SendData,
           StartInstance, SetStarted, SendFails, Fault, mainVars, TypeOK
  <1>3. /\ started' \subseteq Ble
        /\ advertising' \subseteq Ble
        /\ host_events' \subseteq {"setup_failed", "reset", "stop_failed"}
    BY DEF TransportTask, WaitReady, Pause, PauseStopFails, SendData,
           StartInstance, SetStarted, SendFails, TypeOK
  <1>4. UNCHANGED <<step, ready, transports_started, host, configured, shown,
                    lightVars>>
    BY DEF TransportTask, WaitReady, Pause, PauseStopFails, SendData,
           StartInstance, SetStarted, SendFails, mainVars
  <1>. QED
    BY <1>1, <1>2, <1>3, <1>4 DEF lightVars, identityVars, TypeOK

(* Every step of app_main, the host, a task or the lights keeps the types. *)
LEMMA TypeStep == TypeOK /\ [Next]_vars => TypeOK'
  <1> SUFFICES ASSUME TypeOK, [Next]_vars PROVE TypeOK'
    OBVIOUS
  <1>1. CASE AppMainStep
    BY <1>1, AppMainTyped
  <1>2. Fault => faults' \in 0 .. MaxFaults
    BY StartupAssumption DEF Fault, TypeOK
  <1>3. CASE StepFails
    BY <1>2, <1>3, ResetTyped DEF StepFails
  <1>4. CASE EnterOta
    BY <1>4, StepNames DEF EnterOta, OtaMode, hostVars, lightVars, identityVars, TypeOK
  <1>5. CASE LeaveOta
    BY <1>5, ResetTyped DEF LeaveOta, TypeOK
  <1>6. CASE IdentityChanges
    BY <1>6 DEF IdentityChanges, hostVars, LateLightsCap, TypeOK
  <1>7. CASE OnSync
    <2> DEFINE Places == {"start", "check", "wait", "send", "started"}
    <2>1. PICK up \in SUBSET Ble : \E tasks \in SUBSET up :
            /\ configured' = configured \cup up
            /\ task_pc' = [t \in Ble |->
                              IF t \in tasks THEN Append(task_pc[t], "start")
                              ELSE task_pc[t]]
            /\ IF tasks = Ble THEN UNCHANGED <<faults, host_events>>
               ELSE Fault /\ host_events' = host_events \cup {"setup_failed"}
      BY <1>7 DEF OnSync
    <2>2. \A t \in Ble : Append(task_pc[t], "start") \in Seq(Places)
      BY DEF TypeOK
    <2>3. task_pc' \in [Ble -> Seq(Places)]
      BY <2>1, <2>2 DEF TypeOK
    <2>4. /\ configured' \subseteq Ble
          /\ faults' \in 0 .. MaxFaults
          /\ host_events' \subseteq {"setup_failed", "reset", "stop_failed"}
      BY <1>2, <2>1 DEF TypeOK
    <2>. QED
      BY <1>7, <2>3, <2>4 DEF OnSync, lightVars, identityVars, TypeOK
  <1>8. CASE HostReset
    BY <1>2, <1>8 DEF HostReset, lightVars, identityVars, TypeOK
  <1>9. ASSUME NEW t \in Ble, NEW i \in DOMAIN task_pc[t], TransportTask(t, i)
        PROVE  TypeOK'
    BY <1>9, TransportTyped
  <1>10. CASE IndicatorTask
    BY <1>10 DEF IndicatorTask, CurrentMode, mainVars, hostVars, lightVars,
                 identityVars, TypeOK
  <1>11. CASE DecideOutput
    BY <1>11 DEF DecideOutput, mainVars, hostVars, identityVars, TypeOK
  <1>12. CASE SetOutput
    <2>1. /\ Outputs[next_output].gpio \in Pins
          /\ \A on : Level(next_output, on) \in {0, 1}
          /\ NextOutput(next_output) \in 1 .. Len(Outputs)
      BY OutputsTyped DEF TypeOK, Level, NextOutput
    <2>2. late_lights' \in 0 .. LateLightsCap
      BY <1>12 DEF SetOutput, LateLightsCap, TypeOK
    <2>. QED
      BY <1>12, <2>1, <2>2 DEF SetOutput, mainVars, hostVars, TypeOK
  <1>13. CASE UNCHANGED vars
    BY <1>13 DEF vars, mainVars, hostVars, lightVars, identityVars, TypeOK
  <1>. QED
    BY <1>1, <1>3, <1>4, <1>5, <1>6, <1>7, <1>8, <1>9, <1>10, <1>11, <1>12, <1>13
       DEF Next, LightingTask

(* Every variable of the start keeps its type: app_main never runs past    *)
(* its end and the lights never past their last output                     *)
(* (main.c:25-57, lighting.c:289-313).                                     *)
THEOREM StartupTypes == Spec => []TypeOK
BY TypeInit, TypeStep, PTL DEF Spec

-----------------------------------------------------------------------------
(* The contexts of the transports *)

(* Until the host resets it is started by ble_start and syncs once, which  *)
(* creates one task at most for each instance it has configured.           *)
OneTask(t) ==
    task_pc[t] = <<>> \/ (Len(task_pc[t]) = 1 /\ t \in configured)

ContextInv ==
    /\ step <= 10 => host = "off"
    /\ "reset" \notin host_events =>
          /\ \A t \in Ble : OneTask(t)
          /\ host # "synced" =>
                /\ advertising = {}
                /\ started = {}
                /\ \A t \in Ble : task_pc[t] = <<>>
          /\ \A t \in Ble : task_pc[t] = <<"started">> => t \in advertising
          /\ started \subseteq advertising
    /\ host_events \subseteq {"setup_failed"} =>
          \A t \in Ble : t \in advertising =>
              t \in started \/ task_pc[t] = <<"started">>

(* A task that goes on is the only one of its context. *)
LEMMA GotoOnly ==
    ASSUME TypeOK, ContextInv, "reset" \notin host_events,
           NEW t \in Ble, NEW i \in DOMAIN task_pc[t], NEW here, NEW there,
           Goto(t, i, here, there), UNCHANGED configured
    PROVE  /\ host = "synced"
           /\ task_pc[t] = <<here>>
           /\ task_pc'[t] = <<there>>
           /\ \A u \in Ble \ {t} : task_pc'[u] = task_pc[u]
           /\ \A u \in Ble : OneTask(u)'
  <1> DEFINE Places == {"start", "check", "wait", "send", "started"}
             s == task_pc[t]
  <1>1. s \in Seq(Places)
    BY DEF TypeOK
  <1>2. s # <<>>
    OBVIOUS
  <1>3. host = "synced"
    BY <1>2 DEF ContextInv
  <1>4. Len(s) = 1 /\ t \in configured
    BY <1>2 DEF ContextInv, OneTask
  <1>5. /\ s[i] = here
        /\ task_pc' = [task_pc EXCEPT ![t] = [s EXCEPT ![i] = there]]
    BY DEF Goto
  <1> HIDE DEF Places
  <1>6. i = 1 /\ DOMAIN s = {1} /\ s = <<s[1]>>
    BY <1>1, <1>4
  <1> HIDE DEF s
  <1>7. [s EXCEPT ![i] = there] = <<there>>
    BY <1>1, <1>6
  <1>8. task_pc'[t] = <<there>> /\ \A u \in Ble \ {t} : task_pc'[u] = task_pc[u]
    BY <1>5, <1>7 DEF TypeOK
  <1>9. Len(task_pc'[t]) = 1
    BY <1>8
  <1>10. \A u \in Ble : OneTask(u)'
    BY <1>4, <1>8, <1>9 DEF ContextInv, OneTask
  <1>. QED
    BY <1>3, <1>5, <1>6, <1>8, <1>10 DEF s

(* Starting and stopping an instance leaves its context sound; a stop that *)
(* failed leaves it on the air.                                            *)
LEMMA TransportKeepsContext ==
    ASSUME TypeOK, ContextInv, NEW t \in Ble, NEW i \in DOMAIN task_pc[t],
           TransportTask(t, i)
    PROVE  ContextInv'
  <1>1. UNCHANGED <<step, host, configured>>
    BY DEF TransportTask, WaitReady, Pause, PauseStopFails, SendData,
           StartInstance, SetStarted, SendFails, mainVars
  <1>2. /\ host_events \subseteq host_events'
        /\ host_events' = host_events \/ PauseStopFails(t, i)
    BY DEF TransportTask, WaitReady, Pause, PauseStopFails, SendData,
           StartInstance, SetStarted, SendFails
  <1>3. CASE "reset" \in host_events
    BY <1>1, <1>2, <1>3 DEF ContextInv
  <1>4. CASE "reset" \notin host_events
    <2>1. host_events' \subseteq {"setup_failed"} =>
             host_events \subseteq {"setup_failed"} /\ ~PauseStopFails(t, i)
      BY <1>2 DEF PauseStopFails
    <2>2. /\ \A u \in Ble : task_pc[u] = <<"started">> => u \in advertising
          /\ host_events \subseteq {"setup_failed"} =>
                \A u \in Ble : u \in advertising =>
                    u \in started \/ task_pc[u] = <<"started">>
          /\ started \subseteq advertising
          /\ started \subseteq Ble /\ advertising \subseteq Ble
      BY <1>4 DEF ContextInv, TypeOK
    <2>3. ASSUME NEW here, NEW there, Goto(t, i, here, there),
                 \A u \in Ble : task_pc'[u] = <<"started">> => u \in advertising',
                 host_events' \subseteq {"setup_failed"} =>
                    \A u \in Ble : u \in advertising' =>
                        u \in started' \/ task_pc'[u] = <<"started">>,
                 started' \subseteq advertising'
          PROVE  ContextInv'
      BY <1>1, <1>4, <2>3, GotoOnly DEF ContextInv
    <2>4. ASSUME NEW here \in {"start", "check", "wait", "send"},
                 NEW there \in {"check", "send"},
                 Goto(t, i, here, there), UNCHANGED <<advertising, started>>
          PROVE  ContextInv'
      <3>1. /\ task_pc[t] # <<"started">> /\ task_pc'[t] # <<"started">>
            /\ \A u \in Ble \ {t} : task_pc'[u] = task_pc[u]
        BY <1>1, <1>4, <2>4, GotoOnly
      <3>. QED
        BY <2>1, <2>2, <2>3, <2>4, <3>1
    <2>5. CASE WaitReady(t, i) \/ SendData(t, i) \/ SendFails(t, i)
      BY <2>4, <2>5 DEF WaitReady, SendData, SendFails
    <2>6. CASE Pause(t, i)
      <3>1. /\ Goto(t, i, "check", "wait")
            /\ advertising' = advertising \ {t}
            /\ started' = started \ {t}
        BY <2>6 DEF Pause
      <3>2. /\ task_pc'[t] # <<"started">>
            /\ \A u \in Ble \ {t} : task_pc'[u] = task_pc[u]
        BY <1>1, <1>4, <3>1, GotoOnly
      <3>. QED
        BY <2>1, <2>2, <2>3, <3>1, <3>2
    <2>7. CASE StartInstance(t, i)
      <3>1. /\ Goto(t, i, "send", "started")
            /\ advertising' = advertising \cup {t}
            /\ started' = started
        BY <2>7 DEF StartInstance
      <3>2. /\ task_pc'[t] = <<"started">>
            /\ \A u \in Ble \ {t} : task_pc'[u] = task_pc[u]
        BY <1>1, <1>4, <3>1, GotoOnly
      <3>. QED
        BY <2>1, <2>2, <2>3, <3>1, <3>2
    <2>8. CASE SetStarted(t, i)
      <3>1. /\ Goto(t, i, "started", "check")
            /\ started' = started \cup {t}
            /\ advertising' = advertising
        BY <2>8 DEF SetStarted
      <3>2. /\ task_pc[t] = <<"started">>
            /\ task_pc'[t] # <<"started">>
            /\ \A u \in Ble \ {t} : task_pc'[u] = task_pc[u]
        BY <1>1, <1>4, <3>1, GotoOnly
      <3>. QED
        BY <2>1, <2>2, <2>3, <3>1, <3>2
    <2>9. CASE PauseStopFails(t, i)
      <3>1. /\ Goto(t, i, "check", "wait")
            /\ advertising' = advertising
            /\ started' = started \ {t}
            /\ "stop_failed" \in host_events'
        BY <2>9 DEF PauseStopFails
      <3>2. /\ task_pc'[t] # <<"started">>
            /\ \A u \in Ble \ {t} : task_pc'[u] = task_pc[u]
        BY <1>1, <1>4, <3>1, GotoOnly
      <3>. QED
        BY <2>1, <2>2, <2>3, <3>1, <3>2
    <2>. QED
      BY <2>5, <2>6, <2>7, <2>8, <2>9 DEF TransportTask
  <1>. QED
    BY <1>3, <1>4

(* Every step of app_main, the host, a task or the lights keeps it. *)
LEMMA ContextStep == TypeOK /\ ContextInv /\ [Next]_vars => ContextInv'
  <1> SUFFICES ASSUME TypeOK, ContextInv, [Next]_vars PROVE ContextInv'
    OBVIOUS
  <1>1. CASE UNCHANGED hostVars /\ (step' <= 10 => step <= 10)
    BY <1>1 DEF hostVars, ContextInv, OneTask
  <1>2. CASE Reset
    BY <1>2 DEF Reset, ContextInv, OneTask
  <1>3. CASE AppMainStep
    <2>1. CASE BleStart
      <3>1. step = 10 /\ step' = 11 /\ host' = "syncing"
        BY <2>1, StepsAre DEF BleStart, Returns
      <3>2. host = "off"
        BY <3>1 DEF ContextInv
      <3>. QED
        BY <2>1, <3>1, <3>2 DEF BleStart, ContextInv, OneTask
    <2>2. CASE ~BleStart
      <3>1. UNCHANGED hostVars
        BY <1>3, <2>2 DEF AppMainStep, PlainStep, StoreStart, MarkStarted,
           LightingInit, ConfigurePin, SetPinOff, SkipOutput
      <3>2. step \in 0 .. 14 /\ (step' = step \/ step' = step + 1)
        BY <1>3, <2>2, StepsAre DEF AppMainStep, PlainStep, StoreStart,
           MarkStarted, LightingInit, ConfigurePin, SetPinOff, SkipOutput,
           NextToConfigure, Returns, mainVars
      <3>. QED
        BY <1>1, <3>1, <3>2
    <2>. QED
      BY <2>1, <2>2
  <1>4. CASE StepFails \/ LeaveOta
    BY <1>2, <1>4 DEF StepFails, LeaveOta
  <1>5. CASE EnterOta
    BY <1>1, <1>5, StepsAre DEF EnterOta
  <1>6. CASE IdentityChanges \/ IndicatorTask \/ LightingTask \/ UNCHANGED vars
    <2>1. UNCHANGED <<step, hostVars>>
      BY <1>6 DEF IdentityChanges, IndicatorTask, LightingTask, DecideOutput,
                  SetOutput, mainVars, vars
    <2>. QED
      BY <1>1, <2>1
  <1>7. CASE OnSync
    <2>1. host = "syncing" /\ host' = "synced" /\ step' = step
      BY <1>7 DEF OnSync
    <2>2. PICK up \in SUBSET Ble, tasks \in SUBSET Ble :
             /\ tasks \subseteq up
             /\ configured' = configured \cup up
             /\ task_pc' = [t \in Ble |->
                              IF t \in tasks THEN Append(task_pc[t], "start")
                              ELSE task_pc[t]]
             /\ IF tasks = Ble THEN UNCHANGED <<faults, host_events>>
                ELSE Fault /\ host_events' = host_events \cup {"setup_failed"}
      BY <1>7 DEF OnSync
    <2>3. /\ host_events \subseteq host_events'
          /\ "reset" \in host_events' => "reset" \in host_events
          /\ UNCHANGED <<advertising, started>>
      BY <1>7, <2>2 DEF OnSync
    <2>4. CASE "reset" \in host_events
      BY <2>1, <2>3, <2>4 DEF ContextInv
    <2>5. CASE "reset" \notin host_events
      <3>1. /\ advertising = {}
            /\ started = {}
            /\ \A t \in Ble : task_pc[t] = <<>>
        BY <2>1, <2>5 DEF ContextInv
      <3>2. Append(<<>>, "start") = <<"start">> /\ Len(<<"start">>) = 1
        OBVIOUS
      <3>3. \A t \in Ble :
               task_pc'[t] = IF t \in tasks THEN Append(<<>>, "start") ELSE <<>>
        BY <2>2, <3>1
      <3>4. \A t \in Ble :
               IF t \in tasks THEN task_pc'[t] = <<"start">>
               ELSE task_pc'[t] = <<>>
        BY <3>2, <3>3
      <3>5. \A t \in Ble : OneTask(t)'
        BY <2>2, <3>2, <3>4 DEF OneTask
      <3>6. <<"start">> # <<"started">> /\ <<>> # <<"started">>
        OBVIOUS
      <3>7. \A t \in Ble : task_pc'[t] # <<"started">>
        BY <3>4, <3>6
      <3>. QED
        BY <2>1, <2>3, <3>1, <3>5, <3>7 DEF ContextInv
    <2>. QED
      BY <2>4, <2>5
  <1>8. CASE HostReset
    BY <1>8 DEF HostReset, ContextInv
  <1>9. ASSUME NEW t \in Ble, NEW i \in DOMAIN task_pc[t], TransportTask(t, i)
        PROVE  ContextInv'
    BY <1>9, TransportKeepsContext
  <1>. QED
    BY <1>3, <1>4, <1>5, <1>6, <1>7, <1>8, <1>9 DEF Next

(* What module BleTransport takes for granted holds as long as the host    *)
(* did not reset: each context has one task at most, which runs when its   *)
(* instance is configured, and started is what the controller does, but    *)
(* after a stop that failed (ble.c:138-165, 235-342).                      *)
THEOREM ContextsSound == Spec => []ContextsAreSound
  <1>1. Init => ContextInv
    BY DEF Init, ContextInv, OneTask
  <1>2. TypeOK /\ ContextInv => ContextsAreSound
    <2> SUFFICES ASSUME TypeOK, ContextInv, NEW t \in Ble
                 PROVE  /\ "reset" \notin host_events =>
                              /\ Len(task_pc[t]) <= 1
                              /\ task_pc[t] # <<>> => Reachable(t)
                              /\ t \in started => t \in advertising
                        /\ host_events \subseteq {"setup_failed"} =>
                              (t \in advertising =>
                                  t \in started \/ task_pc[t] = <<"started">>)
      BY DEF ContextsAreSound
    <2>1. task_pc[t] = <<>> => Len(task_pc[t]) = 0
      OBVIOUS
    <2>2. "reset" \notin host_events => Len(task_pc[t]) <= 1
      <3> DEFINE n == Len(task_pc[t])
      <3>1. "reset" \notin host_events => n = 0 \/ n = 1
        BY <2>1 DEF ContextInv, OneTask
      <3> HIDE DEF n
      <3>2. "reset" \notin host_events => n <= 1
        BY <3>1
      <3>. QED
        BY <3>2 DEF n
    <2>. QED
      BY <2>2 DEF ContextInv, OneTask, Reachable
  <1>. QED
    BY <1>1, <1>2, ContextStep, StartupTypes, PTL DEF Spec

-----------------------------------------------------------------------------
(* The lights *)

PinOf(i) == Outputs[i].gpio

Told == "lighting" \in transports_started /\ identity_seen

(* The lights are told of the transports at the end of app_main; an output *)
(* is only decided to be on when there is an identity, and until it is set *)
(* no other has been set on without one.                                   *)
IdentityInv ==
    /\ "lighting" \in transports_started => step > 13
    /\ ready => identity_seen /\ late_lights = 0
    /\ output_on = "on" => Told /\ late_lights = 0
    /\ "lighting" \notin transports_started => late_lights = 0
    /\ late_lights <= 1

(* Every step of app_main, the host, a task or the lights keeps it. *)
LEMMA IdentityStep == TypeOK /\ IdentityInv /\ [Next]_vars => IdentityInv'
  <1> SUFFICES ASSUME TypeOK, IdentityInv, [Next]_vars PROVE IdentityInv'
    OBVIOUS
  <1>1. /\ step \in 0 .. 14
        /\ late_lights \in Nat
        /\ output_on \in {"undecided", "on", "off"}
    BY StepsAre DEF TypeOK, LateLightsCap
  <1>2. CASE UNCHANGED <<step, ready, transports_started, output_on, identityVars>>
    BY <1>2 DEF IdentityInv, identityVars, Told
  <1>3. CASE Reset
    BY <1>3 DEF Reset, IdentityInv
  <1>4. ASSUME step <= 12, UNCHANGED <<ready, transports_started, output_on,
                                       identityVars>>
        PROVE  IdentityInv'
    BY <1>1, <1>4 DEF IdentityInv, identityVars, Told
  <1>5. CASE PlainStep
    <2>1. step <= 12
      BY <1>5, PlainStepIs
    <2>. QED
      BY <1>4, <1>5, <2>1 DEF PlainStep, lightVars
  <1>6. CASE StoreStart
    <2>1. step = 6
      BY <1>6, StepsAre DEF StoreStart, Returns
    <2>2. "lighting" \notin transports_started
      BY <2>1 DEF IdentityInv
    <2>. QED
      BY <1>6, <2>2 DEF StoreStart, IdentityInv, Told
  <1>7. CASE LightingInit
    <2>1. step = 7
      BY <1>7, StepsAre DEF LightingInit, ConfigurePin, SetPinOff, SkipOutput
    <2>2. UNCHANGED <<ready, transports_started, output_on, identityVars>>
      BY <1>7 DEF LightingInit, ConfigurePin, SetPinOff, SkipOutput, mainVars
    <2>. QED
      BY <1>4, <2>1, <2>2
  <1>8. CASE BleStart \/ EnterOta
    <2>1. step <= 12 /\ UNCHANGED <<ready, transports_started, output_on,
                                    identityVars>>
      BY <1>8, StepsAre DEF BleStart, EnterOta, Returns, lightVars
    <2>. QED
      BY <1>4, <2>1
  <1>9. CASE MarkStarted
    <2>1. /\ step' = step + 1
          /\ step = 12 \/ step = 13
          /\ "lighting" \in transports_started' =>
                "lighting" \in transports_started \/ step = 13
          /\ transports_started \subseteq transports_started'
          /\ UNCHANGED <<ready, output_on, identityVars>>
      BY <1>9, StepsAre DEF MarkStarted, Returns, lightVars
    <2>. QED
      BY <1>1, <2>1 DEF IdentityInv, identityVars, Told
  <1>10. CASE StepFails \/ LeaveOta
    BY <1>3, <1>10 DEF StepFails, LeaveOta
  <1>11. CASE IdentityChanges
    BY <1>11 DEF IdentityChanges, IdentityInv, Told
  <1>12. CASE OnSync \/ HostReset \/ IndicatorTask
    BY <1>2, <1>12 DEF OnSync, HostReset, IndicatorTask, mainVars, lightVars
  <1>13. ASSUME NEW t \in Ble, NEW i \in DOMAIN task_pc[t], TransportTask(t, i)
         PROVE  IdentityInv'
    BY <1>2, <1>13
       DEF TransportTask, WaitReady, Pause, PauseStopFails, SendData,
           StartInstance, SetStarted, SendFails, mainVars, lightVars
  <1>14. CASE DecideOutput
    BY <1>14 DEF DecideOutput, MayLight, mainVars, identityVars, IdentityInv, Told
  <1>15. CASE SetOutput
    <2>1. /\ UNCHANGED <<step, ready, transports_started, identity_seen>>
          /\ output_on' = "undecided"
          /\ late_lights' = late_lights
                \/ (output_on = "on" /\ ~ready /\ late_lights' = late_lights + 1)
      BY <1>15 DEF SetOutput, mainVars
    <2>. QED
      BY <1>1, <2>1 DEF IdentityInv, Told
  <1>16. CASE UNCHANGED vars
    BY <1>2, <1>16 DEF vars, mainVars, lightVars
  <1>. QED
    BY <1>5, <1>6, <1>7, <1>8, <1>9, <1>10, <1>11, <1>12, <1>13, <1>14, <1>15,
       <1>16 DEF Next, AppMainStep, LightingTask

(* Outputs are configured during lighting_init, in their order and each    *)
(* with a pin of its own; until the lights are told of the transports and  *)
(* there was an identity all of them are off, but the one that             *)
(* lighting_init is setting up.                                            *)
LightInv ==
    /\ step <= 6 => outputs_configured = {}
    /\ step = 7 => outputs_configured \subseteq 1 .. next_output
    /\ output_on # "undecided" => step > 7
    /\ \A i, j \in outputs_configured : i # j => PinOf(i) # PinOf(j)
    /\ ~Told =>
          \A i \in outputs_configured :
              \/ pin[PinOf(i)] = Level(i, FALSE)
              \/ step = 7 /\ next_output = i /\ pin[PinOf(i)] = 0

(* configure_output: another pin than those of the outputs before. *)
LEMMA LightConfigure ==
    ASSUME TypeOK, LightInv, ConfigurePin
    PROVE  LightInv'
  <1> DEFINE n == next_output
  <1>1. /\ step = 7
        /\ n \notin outputs_configured
        /\ Usable(n)
        /\ outputs_configured' = outputs_configured \cup {n}
        /\ pin' = [pin EXCEPT ![PinOf(n)] = 0]
        /\ UNCHANGED <<step, next_output, output_on>>
        /\ Told' = Told
    BY StepsAre DEF ConfigurePin, mainVars, identityVars, PinOf, Told
  <1>2. n \in 1 .. Len(Outputs) /\ outputs_configured \subseteq 1 .. n
    BY <1>1 DEF TypeOK, LightInv
  <1>3. \A i \in outputs_configured : PinOf(i) # PinOf(n)
    BY <1>1, <1>2 DEF Usable, AlreadyUsed, PinOf
  <1>4. /\ pin'[PinOf(n)] = 0
        /\ \A i \in outputs_configured : pin'[PinOf(i)] = pin[PinOf(i)]
    BY <1>1, <1>2, <1>3, OutputsTyped DEF TypeOK, PinOf
  <1>. QED
    BY <1>1, <1>2, <1>3, <1>4 DEF LightInv, Level

(* set_output of output n, at whatever level; of no other output is the    *)
(* pin the same.                                                           *)
LEMMA SetPinAlone ==
    ASSUME TypeOK, LightInv, NEW n \in outputs_configured, NEW level,
           pin' = [pin EXCEPT ![PinOf(n)] = level]
    PROVE  /\ pin'[PinOf(n)] = level
           /\ \A i \in outputs_configured \ {n} : pin'[PinOf(i)] = pin[PinOf(i)]
  BY OutputsTyped DEF TypeOK, LightInv, PinOf

(* lighting_init goes on, to the next output or to the next call. *)
LEMMA NextToConfigureIs ==
    ASSUME TypeOK, LightInv, NextToConfigure, At("lighting_init")
    PROVE  /\ step = 7
           /\ step' = 7 => step' = step /\ next_output' = next_output + 1
           /\ step' >= 7
           /\ outputs_configured \subseteq 1 .. next_output
           /\ next_output \in Nat
  BY StepsAre, OutputsTyped DEF NextToConfigure, Returns, TypeOK, LightInv

(* lighting_init turns off what it has configured. *)
LEMMA LightOff ==
    ASSUME TypeOK, LightInv, SetPinOff
    PROVE  LightInv'
  <1> DEFINE n == next_output
  <1>1. /\ n \in outputs_configured
        /\ pin' = [pin EXCEPT ![PinOf(n)] = Level(n, FALSE)]
        /\ UNCHANGED <<outputs_configured, output_on>>
        /\ Told' = Told
    BY DEF SetPinOff, identityVars, PinOf, Told
  <1>2. /\ step = 7
        /\ step' = 7 => next_output' = n + 1
        /\ step' >= 7
        /\ outputs_configured \subseteq 1 .. n
        /\ n \in Nat
    BY NextToConfigureIs DEF SetPinOff
  <1>3. step' \in Int
    BY StepsAre DEF SetPinOff, NextToConfigure, Returns
  <1>4. /\ pin'[PinOf(n)] = Level(n, FALSE)
        /\ \A i \in outputs_configured \ {n} : pin'[PinOf(i)] = pin[PinOf(i)]
    BY <1>1, SetPinAlone
  <1>5. ~Told =>
           \A i \in outputs_configured : pin'[PinOf(i)] = Level(i, FALSE)
    BY <1>4 DEF LightInv
  <1>6. step' = 7 => outputs_configured \subseteq 1 .. next_output'
    BY <1>2
  <1>7. output_on = "undecided"
    BY <1>2 DEF LightInv, TypeOK
  <1>8. /\ UNCHANGED <<outputs_configured, output_on>>
        /\ Told' = Told
        /\ step' >= 7
    BY <1>1, <1>2
  <1>9. \A i, j \in outputs_configured : i # j => PinOf(i) # PinOf(j)
    BY DEF LightInv
  <1>. QED
    BY <1>3, <1>5, <1>6, <1>7, <1>8, <1>9 DEF LightInv, Level, PinOf

(* lighting_init leaves an output alone that is not configured. *)
LEMMA LightSkip ==
    ASSUME TypeOK, LightInv, SkipOutput
    PROVE  LightInv'
  <1>1. /\ next_output \notin outputs_configured
        /\ UNCHANGED <<outputs_configured, output_on, pin>>
        /\ Told' = Told
    BY DEF SkipOutput, identityVars, Told
  <1>2. /\ step = 7
        /\ step' = 7 => next_output' = next_output + 1
        /\ step' >= 7
        /\ outputs_configured \subseteq 1 .. next_output
        /\ next_output \in Nat
    BY NextToConfigureIs DEF SkipOutput
  <1>3. step' \in Int
    BY StepsAre DEF SkipOutput, NextToConfigure, Returns
  <1>4. ~Told =>
           \A i \in outputs_configured : pin'[PinOf(i)] = Level(i, FALSE)
    BY <1>1 DEF LightInv
  <1>5. step' = 7 => outputs_configured \subseteq 1 .. next_output'
    BY <1>2
  <1>6. output_on = "undecided"
    BY <1>2 DEF LightInv, TypeOK
  <1>. QED
    BY <1>1, <1>2, <1>3, <1>4, <1>5, <1>6 DEF LightInv, Level, PinOf

(* lighting_task sets one output, off until it is told of the transports   *)
(* and there was an identity.                                              *)
LEMMA LightSet ==
    ASSUME TypeOK, IdentityInv, LightInv, SetOutput
    PROVE  LightInv'
  <1> DEFINE n == next_output
  <1>1. /\ output_on # "undecided"
        /\ output_on' = "undecided"
        /\ UNCHANGED <<step, outputs_configured>>
        /\ Told' = Told
    BY DEF SetOutput, mainVars, Told
  <1>2. step > 7 /\ step \in 0 .. 14
    BY <1>1, StepsAre DEF LightInv
  <1>3. ~Told => output_on = "off"
    BY <1>1 DEF IdentityInv, TypeOK
  <1>4. CASE n \in outputs_configured
    <2>1. pin' = [pin EXCEPT ![PinOf(n)] = Level(n, output_on = "on")]
      BY <1>4 DEF SetOutput, PinOf
    <2>2. /\ pin'[PinOf(n)] = Level(n, output_on = "on")
          /\ \A i \in outputs_configured \ {n} : pin'[PinOf(i)] = pin[PinOf(i)]
      BY <1>4, <2>1, SetPinAlone
    <2>3. output_on = "off" => Level(n, output_on = "on") = Level(n, FALSE)
      BY DEF Level
    <2>4. ~Told =>
             \A i \in outputs_configured : pin'[PinOf(i)] = Level(i, FALSE)
      BY <1>2, <1>3, <2>2, <2>3 DEF LightInv
    <2>. QED
      BY <1>1, <1>2, <2>4 DEF LightInv, Level, PinOf
  <1>5. CASE n \notin outputs_configured
    <2>1. pin' = pin
      BY <1>5 DEF SetOutput
    <2>. QED
      BY <1>1, <1>2, <2>1 DEF LightInv, Level, PinOf
  <1>. QED
    BY <1>4, <1>5

(* Every step of app_main, the host, a task or the lights keeps it. *)
LEMMA LightStep ==
    TypeOK /\ IdentityInv /\ LightInv /\ [Next]_vars => LightInv'
  <1> SUFFICES ASSUME TypeOK, IdentityInv, LightInv, [Next]_vars PROVE LightInv'
    OBVIOUS
  <1>1. step \in 0 .. 14
    BY StepsAre
  <1>2. ASSUME Told => Told',
               UNCHANGED <<step, next_output, outputs_configured, output_on, pin>>
        PROVE  LightInv'
    BY <1>2 DEF LightInv, Level, PinOf
  <1>3. CASE Reset
    BY <1>3 DEF Reset, LightInv
  <1>4. ASSUME step # 7, step' = step + 1 \/ (step < 7 /\ step' = 0),
               Told => Told',
               UNCHANGED <<next_output, outputs_configured, output_on, pin>>
        PROVE  LightInv'
    <2>1. step' = 7 => outputs_configured = {}
      BY <1>1, <1>4 DEF LightInv
    <2>2. step' <= 6 => step <= 6
      BY <1>1, <1>4
    <2>3. step > 7 => step' > 7
      BY <1>1, <1>4
    <2>. QED
      BY <1>4, <2>1, <2>2, <2>3 DEF LightInv, Level, PinOf
  <1>5. CASE PlainStep
    BY <1>4, <1>5, PlainStepIs DEF PlainStep, lightVars, identityVars, Told
  <1>6. CASE StoreStart
    <2>1. step = 6 /\ step' = step + 1
      BY <1>6, StepsAre DEF StoreStart, Returns
    <2>2. ~Told
      BY <2>1 DEF IdentityInv, Told
    <2>. QED
      BY <1>4, <1>6, <2>1, <2>2 DEF StoreStart
  <1>7. CASE BleStart \/ MarkStarted
    BY <1>4, <1>7, StepsAre DEF BleStart, MarkStarted, Returns, lightVars,
                                identityVars, Told
  <1>8. CASE LightingInit
    BY <1>8, LightConfigure, LightOff, LightSkip DEF LightingInit
  <1>9. CASE StepFails \/ LeaveOta
    BY <1>3, <1>9 DEF StepFails, LeaveOta
  <1>10. CASE EnterOta
    BY <1>4, <1>10, StepsAre DEF EnterOta, OtaMode, lightVars, identityVars, Told
  <1>11. CASE IdentityChanges
    BY <1>2, <1>11 DEF IdentityChanges, Told
  <1>12. CASE OnSync \/ HostReset \/ IndicatorTask
    BY <1>2, <1>12 DEF OnSync, HostReset, IndicatorTask, mainVars, lightVars,
                       identityVars, Told
  <1>13. ASSUME NEW t \in Ble, NEW i \in DOMAIN task_pc[t], TransportTask(t, i)
         PROVE  LightInv'
    BY <1>2, <1>13
       DEF TransportTask, WaitReady, Pause, PauseStopFails, SendData,
           StartInstance, SetStarted, SendFails, mainVars, lightVars,
           identityVars, Told
  <1>14. CASE DecideOutput
    <2>1. /\ step > 7
          /\ Told' = Told
          /\ UNCHANGED <<step, next_output, outputs_configured, pin>>
      BY <1>14, StepsAre DEF DecideOutput, mainVars, identityVars, Told
    <2>. QED
      BY <2>1 DEF LightInv, Level, PinOf
  <1>15. CASE SetOutput
    BY <1>15, LightSet
  <1>16. CASE UNCHANGED vars
    BY <1>2, <1>16 DEF vars, mainVars, lightVars, identityVars, Told
  <1>. QED
    BY <1>5, <1>6, <1>7, <1>8, <1>9, <1>10, <1>11, <1>12, <1>13, <1>14, <1>15,
       <1>16 DEF Next, AppMainStep, LightingTask

(* However the outputs are configured, no light is on in a boot that had   *)
(* no identity yet or has not called the transports' start functions; only *)
(* an active-low output is, while lighting_init sets it up.  Of an         *)
(* identity that went away one light at most is a late trace               *)
(* (lighting.c:260-287, 289-325).                                          *)
THEOREM LightsWait == Spec => []LightsWaitForIdentity
  <1>1. Init => IdentityInv /\ LightInv
    BY DEF Init, IdentityInv, LightInv
  <1>2. TypeOK /\ IdentityInv /\ LightInv => LightsWaitForIdentity
    <2> SUFFICES ASSUME TypeOK, IdentityInv, LightInv
                 PROVE  LightsWaitForIdentity
      OBVIOUS
    <2>1. ASSUME NEW i \in DOMAIN Outputs, Lit(i), ~Told
          PROVE  SettingUp(i)
      <3>1. Outputs[i].active_high \in BOOLEAN
        BY OutputsTyped
      <3>2. pin[PinOf(i)] # Level(i, FALSE)
        BY <2>1, <3>1 DEF Lit, Level, PinOf
      <3>3. step = 7 /\ next_output = i /\ pin[PinOf(i)] = 0
        BY <2>1, <3>2 DEF Lit, LightInv
      <3>. QED
        BY <2>1, <3>1, <3>3, StepsAre DEF Lit, PinOf, SettingUp
    <2>2. Told => identity_seen /\ Passed("ble_start") /\ Passed("wifi_start")
      <3>1. Told => step > 13
        BY DEF IdentityInv, Told
      <3>. QED
        BY <3>1, StepsAre DEF Told
    <2>3. late_lights <= 1
      BY DEF IdentityInv
    <2>. QED
      BY <2>1, <2>2, <2>3 DEF LightsWaitForIdentity
  <1>. QED
    BY <1>1, <1>2, IdentityStep, LightStep, StartupTypes, PTL DEF Spec

=============================================================================
