# Formal model of the ESP Remote ID firmware

TLA+ modules, TLC configurations and TLAPS proofs about the firmware in
`src/remoteid`: an ESP32-S3 add-on unit that receives an aircraft's identity and
position over MAVLink, keeps them in a store, and broadcasts them over Bluetooth
LE and Wi-Fi as OpenDroneID messages, signed if so configured. Paths below are
relative to the repository; `PROJECT.json` maps every definition to its lines.

Contents: [inventory](#inventory), [modules](#modules),
[what the model abstracts](#what-the-model-abstracts), [runs](#runs),
[fairness](#fairness), [proofs](#proofs), [disagreements](#disagreements),
[not modelled](#not-modelled), [plan](#plan).

## Inventory

| component | state it keeps | operations | talks to |
|---|---|---|---|
| store (`remoteid/store.c`) | `s_state`, two validity flags, a readiness bit, a queue of 8 updates, a mutex | submit, apply in the store task, snapshot, wait_ready, is_ready | inputs submit; transports wait for the bit and copy the state |
| configured model (`remoteid/model.c`) | none | the initial state from Kconfig | `app_main` hands it to the store |
| MAVLink input (`remoteid/mavlink.c`) | `s_was_armed`, the UART driver's buffer | ODID messages to updates, arm edge of heartbeats to a takeoff | blocks up to 100 ms in submit |
| BLE transports (`remoteid/ble.c`) | per transport: message bundle, schedule index, counters, `started`; the instance in the controller | one message per interval, four authentication pages at the end of a round, pause and resume | store, encoder, signer, NimBLE |
| encoder (`remoteid/encode.c`) | none | state to 25-byte messages, with refusals | transports |
| authentication (`remoteid/auth.c`) | the key, loaded once | load key from Kconfig or NVS, sign a bundle or a message pack | transports, NVS |
| Wi-Fi transports (`remoteid/wifi.c`) | send counters | beacon and NAN tasks over message packs | store, encoder, signer, Wi-Fi driver |
| OTA server (`ota/ota.c`) | flash: slots, otadata, NVS; restart timers | `/update`, `/nvs`, `/factory-reset`, `/rollback`, `/status` | ESP-IDF; the device restarts |
| start-up (`main.c`) | none | the order: NVS, trigger, store, key, inputs, transports | everything |
| indicator, patterns, lighting (`led/*.c`) | three atomic flags, phases of a millisecond clock | show status, blink lights | store's readiness, start-up, OTA |

**What is hard.** Nothing here is large; what is hard lies between the tasks.

* Store: five tasks on two cores share one state. A transport may copy it while
  the store task writes it; the readiness bit is read without the mutex and is
  derived from flags cached across updates. It is correct if the other tasks
  cannot tell it from a state that changes by one whole update at a time, in the
  order the updates were accepted, and if no accepted update is left behind.
* BLE: readiness is tested first and the state copied later, so the identity can
  go away in between. `started` shadows the controller's state through failed
  starts, pauses and resumes. The bundle holds messages of different ages, and a
  signature covers the bundle. It is correct if a paused transport is silent,
  counters are gapless, a burst of pages is one signature over what was
  received, and every message keeps coming.
* MAVLink: heartbeats are lost, late or of another vehicle, and the queue may be
  full just when the aircraft arms. It is correct if a takeoff is captured only
  for an arming of this aircraft, at the position accepted last before it.
* OTA: the power may fail and timers run out at any step of any handler, and the
  server takes further requests while it waits to restart. It is correct if
  there always is an image to boot, an accepted update is what boots, and
  whoever was answered "restarting" sees a restart.
* Wi-Fi: the same gate, but with nothing to stop: a task that waits is silent. A
  frame carries the whole state, and a message the encoder refuses is left out of
  it, which a signature must notice. NAN sends two frames, of which the second may
  fail. It is correct if a signed pack can be verified by itself and the counters
  say which packs were on the air.
* Start-up: every call of `app_main` may abort the start, and NimBLE configures
  its instances and creates their tasks later, in a callback that runs again after
  a host reset. It is correct if each transport context is used by one task, and
  the transports come up whatever was aborted before.
* Lights: levels that depend on the polarity of an output, pins configured twice,
  readiness that is looked at for each output, and phases on a clock that wraps.
* Authentication: a parser for a text a person pasted, into a buffer shorter than
  the text, and the pages a signature is cut into.

The 38 hazards are listed in `PROJECT.json`, each at the line where it bites with
the properties that watch it, or with what becomes of it where none does.

## Modules

| module | models | |
|---|---|---|
| `StoreData` | `remoteid_state_t`, the updates, `apply_update_locked`, the identity test, `remoteid_model_init` | data, no state |
| `AtomicStore` | what the store promises | abstract specification |
| `Store` | `store.c`, preempted between any two writes | implements `AtomicStore` |
| `BleTransport` | `ble.c` with what it calls of `encode.c` and `auth.c` | extends `AtomicStore`, `Encoding` |
| `Encoding` | the messages of `encode.c`, and which are refused | data, no state |
| `WifiTransport` | `wifi.c` with what it calls of `encode.c` and `auth.c` | extends `AtomicStore`, `Encoding` |
| `MavlinkInput` | `mavlink.c` with the senders on the link | extends `AtomicStore` |
| `Firmware` | `mavlink.c`, the store and a BLE transport together | extends `MavlinkInput` and `BleTransport`, over one store |
| `Startup` | `main.c`, the NimBLE part of `ble.c`, `indicator.c`, `lighting.c` | on its own: of the store it needs the bit, of a transport when it starts and stops |
| `AuthKey`, `AuthPages` | `parse_pkcs8_ed25519` and `fill_auth_pages` of `auth.c` | pure |
| `LightPattern` | `pattern.c` | pure |
| `Algorithms` | the inputs of the three | walks through texts, bytes and times |
| `OtaServer` | `ota.c` and the start of `app_main` around it | on its own: OTA mode and the other parts never run together |
| `MC*` | constants for TLC | |
| `*Proofs` | theorems | |

The store is specified twice. `Store` has the queue, the mutex, the flags and
the program counters of the store task and of each reader; `AtomicStore` has a
state, a bit, the accepted updates not applied yet and each reader's copy. The
transports and the input are specified against the second, which keeps their
models small; that `Store` implements it is checked and proved.

**Store.** `Submit` is `xQueueSend`; `StoreReceive`, `StoreTake`,
`StoreWriteRest`, `StoreReadyBit`, `StoreGive` are one pass of
`remoteid_store_task`; `SnapshotBegin(r)` and `SnapshotEnd(r)` are
`remoteid_store_get_snapshot`. A write or a copy of the state is split in two
halves (`WriteFirst`/`WriteRest`, `CopyHead`/`CopyRest`): each group of fields
an update writes has a field in the first half and one in the second, so every
torn read or write would show. `published` is a history variable, the state when
the readiness bit was last written. In the refinement mapping an update being
worked on is still pending until the bit is written (`Pending`), and a reader
has its whole copy from the moment it holds the mutex (`Snapshots`).

**BleTransport.** Per transport `t`: `FirstWait` (ble.c:157), `CheckReady` or
`Pause` (161-164), `Resume` (165), `TakeSnapshot` (168), `SkipUnencodable`
(169-173), `Send` (175-202, with the encoder, the signer and `advertise_ble`).
`adv_data` and `advertising` are the controller's instance. `AdvResults` names
the outcomes of `advertise_ble` a run allows: `no_data` (no mbuf, or set_data
fails), `no_start`, `ok`. History: `aired`, the last frame of each slot on the
air, `heard`, the counter of the last frame of each message type on the air, and
`leaks`, the unusable snapshots of an outage.

**MavlinkInput.** `Receive` puts a message into the UART's buffer, any message
at any time, so loss, delay and repetition are included. `HandleOdid`,
`IgnoreMessage`, `HandleArming`, `HandleHeartbeat` are `handle_message` by case;
a submission blocks in `mav_pc = "submit"` until `SubmitAccepted` or
`SubmitDropped`. History: `armings`, `captures`, `last_fix`, `fixes`
(for each pending update the position accepted before it).

**OtaServer.** `phase` follows the start of the device, `handler` the HTTP
server's task, which serves one request at a time. `UpdateBegin`, `UpdateEnd`,
`UpdateSelect`, `UpdateAnswer`, `ScheduleRestart` are the steps of
`handle_update` between which the power may fail or an earlier restart timer run
out; `UpdateFails` is each of its error returns. Likewise for the reset and the
rollback, which marks the slot (`RollbackMarks`) before it restarts the chip
(`RollbackReboots`). `faults` is what may go wrong on a device, one of `FaultSets`, and
never changes: a property can be about the devices on which, say, timers work.

**WifiTransport.** Per task: `FirstWait` (wifi.c:235, 258), `CheckReady` or `Pause`
(239, 262), `Resume` (241, 264), `TakeSnapshot` (175, 204), `SendSync` (208-213),
`Send` and `SendFails`, which is each error return of `send_remoteid_beacon` and
`send_remoteid_nan`. `enabled` is what a build contains. History: `heard`, the last
pack on the air with what is signed in it, and `leaks`.

**Firmware.** The step of the store task is the conjunction of `StoreApplies` and
`MavlinkStoreApplies`, which move the same head of the queue; every other step is one module's and leaves the other's
variables alone. `traffic` is what the autopilot on this link sends; vehicles stay
disarmed, for arming is the subject of `MavlinkInput` alone.

**Startup.** `step` is where `app_main` is; `StepFails` is `ESP_ERROR_CHECK`, which
resets the chip, and `EnterOta` a start with the trigger asserted. `lighting_init`
is modelled output by output (`ConfigurePin`, `SetPinOff`, `SkipOutput`), for other
tasks run in between. `OnSync` is `ble_on_sync` with any of its instances failing,
before or after it is configured;
`HostReset` forgets the controller's instances and syncs again. `task_pc[t]` is a
sequence, the tasks that were created with the context of `t`; of the transport
task the steps are kept that start and stop its instance. `DecideOutput` and
`SetOutput` are one turn of the loop of `lighting_task`, whose decision may be stale
when it is set. `host_events` says which faults of the host a boot has seen. History
of the lights: `identity_seen`, whether the boot has had an identity, and
`late_lights`, the outputs switched on since it went away.

**Algorithms.** `ReadToken` builds every text of up to `MaxText` tokens: header,
footer, newlines as one character or two, a blank, characters of base64 and
others; `NextByte` walks through a signature; `LightingRound` advances the clock of
`lighting_task` by one of `RoundTimes`, around the wrap. What the algorithms return
is compared with a definition that does not compute it their way: the key is what
is left without layout, a byte is looked up where OpenDroneID receivers look, an
output is on during the flashes of its table.

## What the model abstracts

* `remoteid_state_t` keeps the identity, both positions, `operator_location_type`
  and `area_count`; altitudes, speeds, accuracies and EU class are carried by
  the same assignments and written in the same half as a field that is kept.
* Texts are a small set with the empty string and the two placeholders, which
  the identity test tells apart. Coordinates are a few integers: unknown (0),
  valid, and out of the encoder's range.
* A message is a record of the fields that go into it, a page is the part of a
  signature over the four messages. Timestamps are left out: the properties
  about signatures are about *which* message was signed.
* Delays are interleaving: a task may be preempted for as long as the others
  like. `SubmitDropped` is enabled when the queue is full, whatever the timeout.
* A local variable has an arbitrary legal value before its first assignment
  (`update`, `snapshot`); no action reads it before.
* External, modelled from how the code uses it: the UART driver; NimBLE, which
  in `BleTransport` stops an instance when told to and in `Startup` may not; the
  pack builder of OpenDroneID, which leaves out a message that cannot be encoded
  and refuses a pack of none; `mbedtls_base64_decode`; the ESP-IDF boot loader, which
  boots the slot otadata selects, or the other one when that is not valid;
  `esp_ota_begin` erasing the slot; `nvs_flash_erase` unmounting the partition.
  In `OtaServer` `nvs_flash_init` is taken to succeed.
* `Startup` has the readiness bit change freely once the MAVLink input runs, which
  is all the other modules promise about it.

## Runs

| run | module, cfg | checks | distinct states |
|---|---|---|---|
| `store` | `MCStore`, `Store.cfg` | types, `ReadyBitAgrees`, the inductive invariant `IInv`, `ImplementsAtomicStore`, `AcceptedUpdatesApplied` | 1.03 M |
| `ble_gate` | `MCBle`, `BleGate.cfg` | types, `PausedMeansSilent`, `OneLeakPerOutage`, `CountersConsecutive` | 1.04 M |
| `ble_auth` | `MCBle`, `BleAuth.cfg` | `AuthBurstCoherent`, `SignedDynamicWasAired` | 1.84 M |
| `firmware` | `MCFirmware`, `Firmware.cfg` | `EverySlotKeepsAiring`, `OutageSilences`, `AirFollowsState`, `LinkIdentityAirs` | 153 k |
| `mavlink` | `MCMavlink`, `Mavlink.cfg` | types, `CapturesNeedArmings`, `TakeoffCapturesArmPosition` | 1.13 M |
| `ota` | `MCOta`, `Ota.cfg` | types, `SomeImageBoots`, `RunningImageIntact`, `AcceptedImageBoots`, `AnswersAreFollowedByRestart`, `AbortedDeviceReachable` | 58 k |
| `wifi` | `MCWifi`, `Wifi.cfg` | types, `OneLeakPerOutage`, `SignedPackVerifies`, `PackCountersConsecutive`, `PacksKeepComing`, `PacksFollowState` | 92 k |
| `boot` | `MCStartup`, `Boot.cfg` | types, `ContextsAreSound`, `LightsWaitForIdentity`, `LightsGoOut`, `TransportsComeUp` | 233 k |
| `algorithms` | `MCAlgorithms`, `Algorithms.cfg` | `AcceptedKeyIsWhole`, `LayoutDoesNotMatter`, `SignatureArrives`, `LightsFollowPattern`, `NoFlashMissed` | 355 k |
| `ble_identity_leak`, `ble_stall`, `boot_operational` | see [disagreements](#disagreements) | one documented statement each, violated | |

To run one: `tlc -workers 2 -config Store.cfg MCStore`. Deadlock is checked in
every run.

**Bounds and why they are enough.**

* `store`: one reader and a queue of 2 (the code: up to four transports and 8).
  Readers interact through the mutex only, and the one reader may be reading
  whenever the store task wants the mutex. A queue of 2 with one update held by
  the task has an update ahead of and one behind another. One update of each of
  the five types, and for each identity field one that makes it usable and one
  that does not. The proofs drop all these bounds.
* `ble_gate`: one transport (they share nothing but the store, whose other
  readers cannot change it); a configuration with a placeholder and a complete
  one; updates that give, take away, and make unencodable the identity; every
  outcome of `advertise_ble`; counters modulo 2, which wrap in every round and
  still tell a repeated or skipped value.
* `ble_auth`: all twelve entries of the signed schedule, identity changes,
  outages, new positions and takeoffs. No send fails here, for a failed send is
  a message nobody receives; counters play no part (modulo 1).
* `firmware`: the unsigned schedule, identities that can be encoded, no failing sends
  (under failures or an identity that cannot be encoded these properties are not
  promised, see `ble_stall`); a queue of one and one message in the UART, so that the
  link is faster than the store and updates are dropped. Three kinds of traffic: an
  identity that comes and goes, a new identity between positions, and positions of
  which one cannot be encoded. `AirFollowsState` is about the messages of the state
  that can be.
* `mavlink`: two autopilots and another heartbeat sender; two armings of the
  aircraft (`MaxArmings`), since a second one is what a missing edge would
  confuse with the first; one message in the UART (`UartLen`), with the queue of
  2 behind it; accepted, foreign and unknown messages.
* `ota`: the two slots there are, two images to tell old from new, a key and a
  value that is none. Devices without a fault, with a failing erase, with power
  failures, and with every fault. The liveness properties say which faults they
  exclude: a timer that cannot be created is not followed by a restart.
* `wifi`: builds with one task (two share nothing but the store); a configuration
  with a placeholder; updates that give and take away the identity, a position and
  one that cannot be encoded; any transmission may fail at any step; counters
  modulo 3, so that a gap, a step and a repetition differ.
* `boot`: one transport, since `ble_on_sync` treats two one after the other without
  relating them; three outputs: an active-high one, an active-low one, and one
  configured for the first one's pin with the opposite level, two outputs away
  from it; two faults, because what a fault leaves behind (a second task, a stale
  flag) takes a second one to meet; none in `boot_operational`.
* `algorithms`: texts of six tokens with a key of two characters and a buffer of
  three, so that texts are too long for the buffer, and two headers, two
  footers or two layouts fit in one; all 64 bytes; a clock that wraps at 5296,
  which leaves the remainder of 2^32 by every period of the tables (1296 modulo
  2000; 296 modulo 1000 and 500); phases of 0, 500 and 3110, the last beyond a
  period and enough to overflow; rounds of 20 ms as configured, 30 and 60 when late.

**What a violated property would mean**, where it is not obvious:

* `ReadyBitAgrees`: a flag cached across updates of another type went stale and
  a transport sends without, or waits with, an identity.
* `OneLeakPerOutage`: the gate leaks more than the one frame the design allows.
* `CountersConsecutive`: a receiver sees loss that did not happen, or takes a new
  message for a repeated one.
* `SignedDynamicWasAired`: a receiver verifies pages against what it received
  and rejects them. Only Location and System are promised: the static messages
  are encoded in every iteration, so an identity that changes just before the
  pages is signed unheard.
* `LinkIdentityAirs`: the aircraft is broadcast under an identity its autopilot does
  not send any more, or not at all.
* `SignedPackVerifies`: a receiver of one Wi-Fi frame, which has everything the
  signature is about, rejects it.
* `ContextsAreSound`: two tasks use one context, or `started` lies about the
  controller: what `BleTransport` takes for granted. It says what is left of that
  when an instance could not be set up or stopped, and nothing after a host reset.
* `LightsWaitForIdentity`: an aircraft shows the light of an operating Remote ID
  before it has an identity, or more than the one output already decided is switched
  on after that has gone. "Started" is what the lights know: that
  `remoteid_ble_start` and `remoteid_wifi_start` have returned.
* `RunningImageIntact`: a power failure at that moment leaves no image but the other.
* `AcceptedKeyIsWhole`: a text cut off by the buffer made a key nobody configured.
* `AcceptedImageBoots`: a client was told 200 and the device runs something
  else, with nobody having touched the slots in between.

Every property has a mutant in `PROJECT.json`: a plausible bug in one mapped
definition (the `_`-suffixed operators next to the originals) under which the
run fails.

## Fairness

* `Store`: weak fairness of each step of the store task and of a reader's
  `SnapshotEnd`: a task that holds the mutex does not block. Strong fairness of
  `StoreTake`: the store task has priority 6, the transports 5 with at least
  100 ms of sleep between two snapshots, and FreeRTOS hands a mutex to the
  waiter of highest priority. No input needs to submit, no reader to read.
* `BleTransport`: weak fairness of each transport task (`vTaskDelay` returns, the
  mutex is given back) and of the store task, which `AcceptedUpdatesApplied`
  of `Store` justifies.
* `WifiTransport`: weak fairness of each task that is built and of the store task.
  Whether transmissions succeed is up to the driver, so the liveness properties
  have it as a premise that failures end (`DriverRecovers`).
* `Firmware`: weak fairness of the input task (its submission times out), of the
  store task and of the transport task. None of the link: `LinkIdentityAirs` says
  of it what it needs, that identities go on being accepted.
* `Startup`: weak fairness of `app_main`'s calls, of the host's sync, of each
  transport task, of the indicator and of the lighting task. All of them block
  between their turns, and FreeRTOS runs what does not block. None of faults, of
  the identity, or of the OTA mode's end.
* `Algorithms` has no liveness property.
* `OtaServer`: weak fairness of the start, of a handler that has begun
  (`httpd_req_recv` times out) and of the restart timer. None of requests, of the
  trigger or of faults.
* `MavlinkInput` has no liveness property: whether anything arrives is up to the
  link.

## Proofs

Every invariant and every action property the runs check is proved too, for every
value of the constants that satisfies the named assumptions of the modules
(`StoreDataAssumption`, `StoreAssumption`, `AtomicStoreAssumption`,
`EncodingAssumption`, `BleAssumption`, `WifiAssumption`, `MavlinkAssumption`,
`MessagesAssumption`, `FirmwareAssumption`, `StartupAssumption`, `OtaAssumption`,
`AuthKeyAssumption`, `AuthPagesAssumption`, `LightPatternAssumption`,
`AlgorithmsAssumption`). TLC evaluates them in the runs.

**The store.** `AtomicStoreProofs`: `StoreTypes`, and a lemma for each operation of
the store, which the other proofs use. `StoreProofs`: `TypeCorrect`,
`InductiveInvariant`, `ReadyBitCorrect`, `Refinement`. The inductive invariant
`IInv` has three parts: `MutexInv` (the holder of the mutex is the task inside the
critical section), `CopyInv` (what a half-written state or a half-read copy lacks
is exactly what its writer or reader still has to copy) and `FlagInv` (the cached
flags agree with the state, except for the one the update in progress is about to
recompute, and the bit with the published state). `ReadyBitAgrees` alone is not
inductive: it says nothing of the time the mutex is held. The refinement rests on
`WholeApply` (the two halves of a write make up `Apply`) and maps each step to a
step of `AtomicStore` or a stutter: `StoreReadyBit` to `ApplyUpdate`,
`SnapshotBegin` to `GetSnapshot`, `Submit` to `Submit`, every other step to none.

**BLE.** `BleProofs`, for any number of transports, any inputs and any counter width:

* `PausedSilent`, `LeaksBounded`, for any outcome of `advertise_ble`. `LeakInv` is
  the strengthening: with an unusable snapshot behind it in an outage, a transport
  has nowhere to go but the test that pauses it.
* `BleTypes`, and `CountersFollow`, for any outcome of every send. `CountersConsecutive`
  compares a counter with the frame receivers heard last of its type. It is
  inductive only together with the types and `PausedMeansSilent`: a frame goes on
  the air exactly when `advertise_ble` counts, because `started` is the
  controller's.
* `BurstsCoherent` and `SignedWasAired`. Both are about receivers that get what is
  sent, and assume `AdvResults = {"ok"}`: after a failed send the bundle has a
  message nobody received, and a page of one burst may be followed by those of the
  next. `AuthInv` says what the schedule index says of the past: behind index 2
  and 5 the bundle's Location and System are those on the air (`DynamicInv`), behind
  index 9 its pages are of the burst whose first page was on the air (`BurstInv`).

**Wi-Fi.** `WifiProofs`: `WifiTypes`; `WifiLeaksBounded`, by the argument of the BLE
gate for a task that does not test again after waiting: what it copies then may be
unusable, but only if readiness fell again in between, which is a new outage
(`LeakInv`). `SignedPacksVerify`: a signature comes into being only when all four
messages can be encoded, and then the pack has all four (`PackVerifies`).
`PackCountersFollow`: the counter of a task follows that of the last pack heard
(`CounterInv`), whatever failed in between.

**Input and firmware.** `FirmwareProofs`:

* `MavlinkTypes`.
* `TakeoffsCapturePosition`, for a queue of any length. `FixInv` relates each pending
  update to the position accepted before it, by induction along the queue: the
  first is that of the state, each later one what the update before it makes of it.
* `CapturesFollowArmings`. `CapturesNeedArmings` counts armings when the aircraft
  arms and captures when the takeoff is applied, with heartbeats in between that may
  be lost, stale or of others. `ArmingInv` says that the messages in the receive
  buffer *can* be numbered by the arming they were sent after (`Numbered`, an
  existential over tags), rising along the buffer, and past the takeoffs captured
  so far where an armed heartbeat would trigger one. The theorem assumes
  `TargetSystem = Aircraft`: with 0 every autopilot on the link shares
  `s_was_armed`, and a disarmed one re-arms the edge (mavlink.c:65).
* `FirmwareImplementsTransports`: `FirmwareSpec => Spec`. `BleTransport` has updates come
  from anywhere at any time; `Firmware` has them come from a task behind a link
  that blocks, drops and retries. Every step of the second is one of the first or
  a stutter (`FirmwareStep`, which needs the types of all tasks, `FirmwareInv`), so
  that what is proved of the transports holds of the firmware
  (`FirmwareTransportsSafe`).

**Start-up.** `StartupProofs`, for any transports, outputs and numbers of faults:
`StartupTypes`; `ContextsSound`, where `ContextInv` says that until it resets the host
syncs once, after `ble_start`, and creates one task at most for each instance it has
configured; `LightsWait`, where `LightInv` has every pin of a configured output at
that output's off level until the lights are told and there was an identity, but for
the one `lighting_init` is setting up: no two configured outputs share a pin, so none
can light another. `IdentityInv` says that an output decided to be on was decided
with an identity, and that none was set on without one since: so the decision that is
still to be set is the only one an outage can find.

**OTA.** `OtaProofs`: `ServerTypes`, `AlwaysBootable`, `RunningImageKept`,
`AcceptedBoots`, for any images, keys and faults. The inductive invariant `OtaInv`
adds `HandlerInv`, what a handler has found out or done to the slots and still holds
at its next step (a rollback was checked against the slot it will select, an answered
update is the selected one), and `AcceptedInv`, that the image of the last answer
stays selected until a request changes it. Without them "some image boots" is not
inductive: a rollback marks the selected image invalid.

**Algorithms.** `AlgorithmsProofs`, for any input `Algorithms` can walk to, of any
bounds:

* `SignatureArrivesWhole`: with `LastPageIndex` rounded up, each byte of a signature
  of any size that fits the pages is in a page that is sent (`BytesArrive`) and each
  page that is sent has a byte (`PagesArrive`). `InputInv` keeps the walk within the
  signature.
* `PatternsFollowed`, `FlashesSeen`: at every clock value, phase and pattern. The
  loops over the tables have at most six steps, and are unfolded by exhibiting the
  values of their recursive functions (`ElapsedSteps`, `IsOnInTurn`). `EdgesApart`: two
  edges of a pattern are more than 60 ms apart.
* `KeysWhole`: for texts of any length. `CopiedWhole` says that the copy is the whole
  body without layout, or has filled the buffer, and a full buffer is not a key.
  `LayoutIrrelevant`: two texts that are equal without their layout are parsed to
  the same key, because header, footer and characters keep their order (`Places`).
  The loops here are as long as the text. Induction over numbers is stated without
  operator parameters: a set of numbers that has 0 and with each number the next
  one has all (`Induction`, from `LeastNat`, the well-foundedness of `<`).

**Model-checked only:** the liveness properties, for TLAPS does not do liveness under
fairness: `AcceptedUpdatesApplied`, `EverySlotKeepsAiring`, `OutageSilences`,
`AirFollowsState`, `LinkIdentityAirs`, `AnswersAreFollowedByRestart`,
`AbortedDeviceReachable`, `PacksKeepComing`, `PacksFollowState`, `LightsGoOut`,
`TransportsComeUp`. The three runs that are expected to fail refute statements
and have nothing to prove.

## Disagreements

Runs expected to fail, each with the statement it refutes
(`PROJECT.json` "findings" quotes them):

* `ble_identity_leak`: readiness is tested at ble.c:161 and the state copied at
  ble.c:168; an update applied in between puts one message with an empty or
  placeholder identity on the air, although README.md:46 has placeholders "block
  all broadcasts". `OneLeakPerOutage` is the bound the code does keep.
* `ble_stall`: an id_type above 15 passes the readiness gate and stops all
  messages at ble.c:169, although README.md:72 wants Location at 1 Hz regardless.
* `boot_operational`: the indicator is told that the transports run as soon as
  NimBLE's host task has been created (main.c:48-55); the transport tasks come into
  being in `ble_on_sync`, later or, if that fails, never. README.md:139 has
  "operational" mean that enabled transports were started. The lights are told at the
  same time (main.c:56), as the first of the statements below says.

Noticed while modelling, without a run of their own:

* README.md:158: "Outputs remain off until valid Basic ID/UAS ID and Operator ID are
  available and enabled transports have started." The lights are told at main.c:56,
  before `ble_on_sync` has created a transport task or although it failed; and an
  active-low output is on between `gpio_config`, which drives the pin low, and
  `set_output` (lighting.c:322-325). `LightsWaitForIdentity` is what the code keeps
  of the sentence. An identity that goes away leaves the lights on until the task's
  next turn, and may still see one switched on.
* A rollback is answered 200 before `esp_ota_mark_app_invalid_rollback_and_reboot`
  (ota.c:360-362), and a comment calls what follows that call unreachable. The call
  returns when it fails, and then no restart follows: `AnswersAreFollowedByRestart` is
  about updates and factory resets only.
* README.md:725 says Location and System are refreshed immediately before signing;
  ble.c:181-184 deliberately signs what was last broadcast.
* `POST /nvs` schedules no restart (ota.c:285); `.dev/ota-openapi.yaml:16` and
  Kconfig:475 say that it does.
* An upload begun in the 500 ms before the restart erases the image an earlier
  upload was answered 200 for, and the old image boots;
  `.dev/ota-openapi.yaml:65`. `AcceptedImageBoots` excludes it (`superseded`).
* After a host reset `ble_on_sync` creates a second task on each context
  (ble.c:240), and `started` still says what the controller has forgotten: the
  instance gets data but is not started until the next outage clears the flag.
  There is no `reset_cb`.
* `ble_gap_ext_adv_stop` may fail (ble.c:162); `started` is cleared all the same, the
  instance stays on the air, and starting it is refused from then on.
* The error mode of the indicator (README.md:137) cannot be seen: nothing calls
  `indicator_set_error`.
* `nvs_flash_init` is called before the trigger is looked at (main.c:30-32): with an
  NVS partition that has no free page, or one of a newer version, the device
  restarts for ever and `/factory-reset` cannot be reached.
* A blank or an empty line before `-----BEGIN` makes a key text one without a header
  (auth.c:45), which base64 then refuses.
* ble.c:181 says the signed bytes are exactly those last broadcast for *each*
  type; the static messages are encoded anew at ble.c:169 first.
* A Location that could not be encoded since start-up leaves a zeroed bundle
  entry, which ble.c:194 advertises: an all-zero message of type 0, while
  ble.c:192 says "broadcasting stale".
* ota.c:318-321 answers "NVS erased" before erasing and ignores the result.
* README.md:602 promises one previous firmware at any time; a failed upload has
  erased it.

## Not modelled

`GET /status`, HTTP parsing and requests refused before they change anything;
UART, Wi-Fi and NimBLE configuration, TX power, MAC addresses; colours, brightness
and the RMT output of the indicator; altitudes, speeds and accuracies, and how
MAVLink values are clamped to their ranges; timestamps; loading a key from NVS and
the arithmetic of its curve; the build system, Kconfig, the flash encryption guard
and the partition table (they give the constants their values); host-side scripts
in `.dev/scripts`; the libraries under `components`, which are external.

## Plan

The modules are written, and the safety of each is proved. What is left:

1. `Store` under the transports: that a transport reading the detailed store
   behaves as one reading the atomic store, from `Refinement`.
2. The safety of the liveness properties: the invariants that say a task is never
   in a place it cannot leave (a `started` flag that is stale, a mutex that nobody
   gives back), which is what could be wrong in them apart from fairness.
3. `BurstsCoherent` without the assumption that sends succeed, for the pages that
   were put on the air.
4. The signed Wi-Fi packs and the gate with any number of tasks over one store that
   is fed from the link, as `FirmwareImplementsTransports` does it for BLE.
