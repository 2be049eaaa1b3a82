# Formal models of the bike MCU firmware

The firmware (`src/main`, C on ESP-IDF 5.4 / FreeRTOS, one core of an ESP32-C3) reads a
BMI160 accelerometer, decides when the rider brakes, and commands a tail light over I2C.
Riders' commands also reach the light by Bluetooth and by UDP; samples are streamed by
UDP; the image is updated over HTTPS. This directory holds TLA+ models of it, TLC
configurations, and TLAPS proofs. All line numbers refer to `src/main` unless a path is
given.

## 1. Inventory

| Component | Source | State it keeps | Operations | Talks to |
|---|---|---|---|---|
| Tail light channel | `i2c.c` | `lastCommand`, `cmd_mutex`, `BMCU_TAILLIGHT_ENABLE` | `send_*_signal` (84-119), `i2c_init` (134-161) | lamp controller (I2C), storage |
| Preference storage | `storage.c` | byte `mychar` in NVS | `storage_write_char`, `storage_read_char` | flash |
| UDP command server | `udp_server.c` | socket, request being served | `udp_server_task`, `command_handler` | lamp channel, storage; deleted by the monitor |
| Brake detector | `braking_algrothim.c` | window `arr`/`count`, filter value | `detect_brake_1` | process queue, lamp channel |
| Sensor sampling | `bmi_spi.c` | `rdySem`, `data.seq`, debounce clock | interrupt handler, `bmi160_init`, `poll_sensor` | both queues |
| Sample upload | `bmi_spi.c` 277-293, `udp_client.c` | UDP socket, message | `bmi_send_sensor_data_task`, `udp_send_data` | upload queue, network |
| Network life cycle | `wifi_connect.c`, `app_main.c` | event group, `s_retry_num`, three task handles | `event_handler`, `wifi_init_sta`, `wifi_stop`, `stop_network_task`, `stop_*` | creates and deletes ota, udp and upload |
| Over-the-air update | `ota.c` | none of its own | `simple_ota_example_task` | restarts the device |
| Bluetooth client | `ble_client.c` | `connect`, `get_server`, handles | GAP and GATTC callbacks | lamp channel |

`app_main` starts them in this order: sensor, lamp test and last state, Bluetooth,
`poll_sensor` (priority 5), `detect_brake_1` (4), Wi-Fi; and only with a connection the
monitor (2), ota (5), udp server (1) and upload (3).

**What is hard.** Four tasks of different priorities write one global and one bus; a
mutex with unbounded waits is the only protection, and one of those tasks may be deleted
by another at any point. A sleeping consumer of a ten-place queue makes it overflow in
every brake episode. The interrupt, a one-second timeout and re-initialisation of the
sensor race each other. Wi-Fi events, the retry counter, the event group and task handles
are read and written by three tasks. A restart is possible between any two steps, and the
lamp controller and the flash remember what happened before it.

**What makes each part correct.**

* *Lamp channel*: a caller's byte reaches the lamp whole and unmixed, or is lost; a brake
  light stays on through its hold unless a rider's command replaces it; every detected
  braking lights the lamp and every episode ends.
* *Storage / UDP server*: once the echo is sent the preference survives a restart; the
  light comes back as it was.
* *Sampling / detector*: samples arrive in order, never twice; a window is ten consecutive
  samples; sampling never stops; the detector's lag does not accumulate.
* *Upload*: what is sent is the newest sample, in order.
* *Network*: given up only after ten consecutive failures, then stays down; stopped by one
  task, once; no network task outlives it; handles name living tasks.
* *Bluetooth client*: one connection at a time, every request with the handles of its own
  connection; it gets its notifications, or a step has failed; it finds its peer.
* *Verdict*: no braking without a deceleration, a hard braking is noticed wherever in a
  window it begins, and riding on ends it.
* *Composition*: the brake light does not depend on the network, except where the udp task
  is deleted with the mutex.

`PROJECT.json` lists the hazards with the property that watches each of them.

## 2. Modules

| Module | Models | Used by |
|---|---|---|
| `TailLight` | `i2c.c`, `storage.c`, the commands of `udp_server.c` and `ble_client.c` | `MCTailLight`, `TailLightProofs`, `BikeMcu` |
| `LampRegister` | what the lamp channel promises (abstract) | `TailLight` (refinement) |
| `BrakePipeline` | interrupt, `poll_sensor`, both queues, windows, upload | `MCBrakePipeline`, `BrakePipelineProofs` |
| `BrakeAlgorithm` | filter and verdict of `detect_brake_1` | `MCBrakeAlgorithm`, `BrakeAlgorithmProofs`, `BrakeReadProofs` |
| `Sensor` | interrupt handler and its clock, `bmi160_init` write by write | `MCSensor`, `SensorProofs` |
| `Network` | `wifi_connect.c`, the network half of `app_main.c` | `MCNetwork`, `NetworkProofs`, `BikeMcu` |
| `BleClient` | `ble_client.c` | `MCBleClient`, `BleClientProofs` |
| `BikeMcu` | `app_main.c`: TailLight and Network together | `MCBikeMcu`, `BikeMcuProofs` |

The MC modules extend a module for TLC; only `MCBrakeAlgorithm` defines values (negative
levels). `map` in `PROJECT.json` names the lines of every definition. Definitions that
begin with "Mutant of ..." are small bugs planted beside the definition they vary. No
specification uses them; put in the place of the original, each makes the property that
`mutants` names fail, which shows that the property depends on the code.

### TailLight

One task is one program counter `at[t]`, plus a second one `call[t]` for its place inside
`send_*_signal`, so that every access to shared state is a step of its own:
`Take`, `Assign`, `Transmit` (the byte is read back from the *global*, as in
`i2c.c:88`), `Give`. Callers are the main task (`LampTest`, `LastState`, then
`StartBle`, `StartDetector`, `StartNetwork`), the detector (`DetectBrake`, `HoldOver`),
the UDP server (`Socket`, `UdpReceive`, `OtherDatagram`, the four steps of
`storage_write_char`, `Echo`) and the Bluetooth callback (`BleNotify`). `NetworkStop` is
`stop_udp_server_task`: it stops the task between any two steps and leaves the mutex as it
is. `Restart` clears RAM and keeps `lamp` and what is committed to `stored`; a byte that
was set and not committed may or may not have got there. A failed transfer or flash call
is a choice inside its action, because the callers ignore the result. `acked` is an
observer: the last preference that was echoed.

`NetworkStop` stands for what Network does in detail, and `DetectBrake` for a window that
BrakePipeline judges as braking. Here every moment is allowed for both, which includes all
those that the other modules produce.

*Deletion and priorities.* The monitor (2) outranks the udp task (1), so it can delete it
while that owns the mutex. While a higher task waits for the mutex the owner inherits its
priority, and then the monitor runs only when the owner blocks, that is during the
transfer: the guard `Boosted("udp") => call["udp"] = "transmit"`.

*LampRegister*: a lamp, and per task at most one outstanding byte, which is served
atomically or lost. TailLight implements it with `pending[t]` = the byte of a call that has
not transmitted yet.

### BrakePipeline

A sample is its number `data.seq`. `Period` is one sample period and the interrupt
(`rdySem` is binary: late interrupts merge; with `SensorMayStall` one may be missing).
`poll_sensor` is `TakeReady` or `TimeOut; Reinit`, then `Overwrite` (upload queue, one
place) and `Send` (process queue, newest dropped when full). `detect_brake_1` is
`Receive`, `JudgeBraking` or `JudgeNotBraking`, and `HoldOver`. The upload task is
`UploadReceive` and `UploadSend`; `UploadStop` is the monitor. Which windows mean braking
is left open. The assumption `QueueLength = Window` is the code's (both are 10).

Two observers record the schedule and change nothing. `overrun`: a sample was dropped
while a window was partly filled. `late`: outside of an episode, the detector still had
work when a period ended or the next read began. The detector has priority 4, five
milliseconds per sample and microseconds of work, so only a long wait for `cmd_mutex`
makes it late. No schedule is excluded; `NoOverrun`, `LagBounded` and `FreshWindow` speak
of behaviours in which it was not late.

### BrakeAlgorithm

What a window is judged by: `Filter` (alpha = 0.2), `Falls` (`decel_count`), `Sum`, `Low`
and `IsBraking`, in whole thousandths of g. Rounding down at each step keeps the filter
within five thousandths of the code's floats; it settles after some thirty samples, where
floats go on by ever smaller steps. `Receive` is one turn of the loop of `detect_brake_1`, `KeepOn` and
`ReadFails` are the sample it gets (a failed SPI read leaves whatever was in the buffer),
`Change` is the rider. `steady`, `before`, `detected` and `lowest` are observers.

`detect_brake_1` skips samples that are NaN or above 16 g; the conversion in
`bmi160_read_data` yields at most 2 g, so that branch cannot be taken.

### Sensor

Time is counted in ticks and the handler's clock is modulo `Wrap` (2^32 microseconds).
`Edge` and `Ring` run `gpio_handshake_isr_handler` for a data-ready edge and for one that
comes too soon; the handler is `Handle`. `ReadChipId`, `WriteReg` and `InitReturns` are
`bmi160_init`, whose results are ignored: a write that fails leaves its register unset.
`ChipResets` clears all registers. The chip streams when the pin, the interrupt and its
routing are set and one of the two sensors is awake; that much is taken from the writes'
comments and is external.

The module assumes `2 * Debounce <= PeriodTicks + 1`: the dead time (1 ms) is at most half
of a period (5 ms at 200 Hz). That it is shorter than a period would not do: after a
silence of more than 71 minutes the difference of the clocks may be anything, a ringing
line may be accepted just before the next edge, and that edge would be refused. With a
period of 4 and a dead time of 3 ticks TLC finds this behaviour.

### Network

`event_handler` is three actions, one per event, taken from the FIFO of the event loop
(`events`); `registered` says whether it is still attached. Main is `WifiInitSta`,
`WaitBits`, `CreateMonitor`, `CreateTask`; the monitor is `MonitorWakes`; both may run the
steps of `wifi_stop` (`StopUdp`, `StopOther`, `Unregister`, `RadioOff`, `Deinit`). `seen`
is the value that `xEventGroupWaitBits` hands to main. The environment is the driver
(`Associate`, `Address`, `Lost`), `UdpGivesUp`, `OtaRestarts` and `PowerUp`. `wifi_stop`
passes the *addresses* of the handler instances to the unregister calls: whether the event
loop then finds them is left open (`Unregister`); both cases are explored.

`PromptMain` bounds the time that main takes to create the four tasks, in disconnections:
fewer than `MaximumRetry` are handled meanwhile (`losses`, which the code does not see). Ten
failed associations take seconds, the four calls less than a millisecond. That `FAIL` is not
set meanwhile, with the monitor preempting main between two creations, is then the code's
own doing: the address resets `s_retry_num`. Without that reset (`HandleGotIpKeepsCount`)
`NoOrphans` fails, and so it does, TLC finds, without `PromptMain`.

### BleClient

The stack posts events, and the Bluetooth task runs one callback per event (`Handle...`).
What a callback asks for is done later by the stack (`Hear`, `ScanEnds`, `OpenSucceeds`,
`OpenFails`, `Finish`, `Notify`, `LinkLost`), which is external and modelled from how
`ble_client.c` uses it. So advertisements, failures and disconnections may be waiting while
the flags `connect` and `get_server` already say something else. Connections are numbered,
and a handle is the number of the connection it was learnt on: a stale handle is one with
another number. `OpenFails` may or may not be followed by a disconnection.

### BikeMcu

TailLight and Network as INSTANCEs over one set of variables, with every step of one
joined to what it means for the other: main does one thing after the other (`BootStep`,
`InitStation`, `CreateOther`, `CreateUdp`, `NoNetwork`); the udp task that finds no socket
ends in both (`UdpEnds`), owning nothing; `StopUdp` deletes it wherever it stands; `Restart`
takes both. What TailLight leaves open about the network is decided here by Network.
`DeviceInv` is what the joint keeps: the udp task is one in both, it owns the mutex only
inside of `send_*_signal` or was deleted there, and none exists before `app_main`
creates it.

## 3. Runs

| Run | What is varied, and the bounds | What it shows |
|---|---|---|
| `tail_light` | bus fails, network is lost, one restart; letters L, O, S by UDP and R, N by Bluetooth; the flash works | own byte is sent; `lastCommand` is the lamp; only a rider ends a hold; an echoed preference is durable and is what the next boot shows; refinement of LampRegister; the inductive invariant |
| `tail_light_live` | all letters; bus works, flash may fail, no restart, fair | a detected braking lights the lamp; an episode ends |
| `tail_light_deleted` | the same with a flash that works, and the monitor may delete the udp task | *violation of* `BrakeLights`: finding 1 |
| `pipeline` | any schedule, stalling sensor, fair; window and queue 2, hold 2, timeout 1, 7 samples | order, no inner gaps, newest upload, upload order, no loss in mid-window and bounded lag for a detector that keeps up; sampling goes on, a sample that was queued is judged; the inductive invariant |
| `pipeline_fresh` | window 3, hold 7, 20 samples, perfect sensor | *violation of* `FreshWindow`: finding 2 |
| `brake_algorithm` | the code's window, threshold and count; accelerations 0, 0.3, -0.1, -0.25, -2 g, two changes and one failed read of +-2 g at any moments | no false alarm, a hard step is noticed within three windows, riding on ends the braking |
| `sensor` | clock wraps after 11 ticks, period 3, dead time 2, timeout 7, two faults, fair | every edge counts once, ringing never; a sensor that fell silent streams again |
| `network_all` | the code's ten retries, one restart, `socket()` may fail, fair | given up after all retries, stays down, stopped by one task and without orphans; the boot decides or the access point leaves the station without an address for ever; a lost network is stopped; the inductive invariant |
| `network_handle` | two retries, `socket()` may fail | *violation of* `StopsRunningTasks`: finding 3 |
| `ble_client` | three connections, two waiting advertisements, every request may fail, fair | one connection, own handles, notifications enabled; the flag `connect` is left set by a failed opening only; the inductive invariant |
| `ble_reconnect` | no failures | *violation of* `AutoConnects`: finding 4 |
| `bike_mcu` | one retry, one restart, letter O by UDP and any other datagram, `socket()` may fail, fair | the light works whatever the network does, short of finding 1; the mutex is lost to a lost network only; the udp task is always deleted then; the inductive invariant |

**Why these bounds are enough.** *TailLight*: the command letters matter only as
"stored or not" and "steady or not"; O and S are the stored ones, L and R transient ones,
N a steady one; the code of `send_*_signal` is the same for all. One restart lets a second
life meet whatever the first left in lamp and flash, and a third would meet nothing new,
because `Restart` erases all else. *BrakePipeline*: what matters is the order of the sizes
(queue = window, hold at least the queue). Seven samples with window 2 cover a window, an
episode that overflows the queue, the stale window after it, and then either a second
episode that this window begins or a first fresh window, with an episode of its own.
*BrakeAlgorithm*: two changes are a ride, a braking and a release, each
beginning at any place of a window; the filter forgets four fifths of everything in seven
samples. *Sensor*: the clock wraps several times between any two faults, because nothing
else bounds a behaviour. *Network*: `MaximumRetry` has the code's value; drops of the
access point are unlimited; `MaxBoots` limits the restarts only, and a restart resets
everything. *BleClient*: three connections let an event of one meet the flags and handles
of a second, and a third shows that the reset is complete. *BikeMcu*: every letter takes
the same way through `send_*_signal`, and O also through the flash; retries only delay
what one retry shows. All safety properties of the passing
runs are proved for all sizes (section 5).

**Fairness.** *TailLight*: weak fairness of each task's steps, since the scheduler runs
ready tasks and delays end, and strong fairness of the detector's `Take`: the
mutex wakes the waiter of highest priority, so the udp task and main cannot overtake the
detector for ever; only the Bluetooth task, whose notifications are made by hand, could.
Stimuli, faults, the monitor and restarts are not fair. *BrakePipeline*: time passes and
each task's steps are weakly fair; the interrupt is not. *Sensor*: time passes, the
handler and `poll_sensor` run; faults are bounded, not fair. *Network*: weak fairness of
the event loop, main and monitor, and of `Attempt`, i.e. an attempt to connect ends one
way or the other. An access point that let the station in owes it nothing, and a connection
may last for ever. `xEventGroupWaitBits` in `wifi_init_sta` has no timeout, so main may wait
for ever: `BootDecides` says that it does so only in front of an access point that has let
the station in, gives it no address and does not drop it. *BleClient*: callbacks are run, a
device that advertises is heard, and the stack ends what it was asked to do, with success
or failure; notifications, lost links and the device are not fair. *BikeMcu*: as
TailLight, and strong fairness of the monitor's `StopUdp`: it outranks the udp task, whose
boosting by a waiting task keeps ending, so a chance that comes again and again is taken.
Nothing is assumed of access point, driver and event loop there.

Deadlock is checked except where the system may really stop: every task waiting for a mutex
whose owner is gone (TailLight with `NetworkStop`, BikeMcu), or a device that has given up
its network (Network).

## 4. Findings

1. **A deleted owner keeps the mutex** (`app_main.c:98`, run `tail_light_deleted`). If the
   network is lost while the UDP server is inside `send_*_signal`, `vTaskDelete` leaves
   `cmd_mutex` owned by a task that is gone, and every later sender waits for ever: no brake
   light until a restart. `bike_mcu` shows that this is the only way to lose the mutex.
2. **The first window after an episode is two seconds old** (`braking_algrothim.c:146`,
   run `pipeline_fresh`). The queue keeps the *oldest* ten samples of the hold, and the
   detector judges them when it wakes, while the comments promise 50 ms of lag and a
   100 ms delay. `LagBounded` states the lag that the code does keep to.
3. **A stale task handle** (`udp_server.c:84`, run `network_handle`). The UDP server
   may delete itself; its handle stays set and is deleted a second time.
4. **The Bluetooth client scans once** (`ble_client.c:400`, run `ble_reconnect`). A peer
   that comes after the 30 s of the only scan, or comes back after a disconnection, is
   never connected to; `ble_client.c:10` says that the client connects automatically.

Two more places where the code gives up, without a document that says otherwise. A transfer
that fails (`i2c.c:88`) is neither repeated nor reported, and the line after it logs `sent B`
all the same: the lamp keeps what it showed until the next transfer that works. And
`connect` (`ble_client.c:448`) is set before the connection is opened: when opening it fails
and the stack reports no disconnection, the device is heard and ignored from then on
(`Barred`); `OnlyFailureBars` says that this is the only way to that state.

## 5. Proofs

TLAPS proves these for every value of the constants that satisfies the modules' `ASSUME`s.
Nothing else is assumed, but for the premises named below (`PromptMain`, `Ranges`,
`RideRanges`). Each
invariant was checked by TLC before it was proved.

**TailLightProofs.** `IndInv` is inductive (`NextIndInv`, one lemma per group of actions)
and hence invariant (`Invariance`). The properties alone are not inductive:
`TransmitsOwnCommand` needs that a task between Take and Give *owns* the mutex
(`InsideSend`), so that no other can stand at `Assign`; `LampFollowsLastCommand` needs that
a task about to give has left lamp and global in agreement (`InsideSend` again);
`AcknowledgedIsDurable` needs that what is committed is the letter being served
(`StorageInOrder`) and that nothing is acknowledged while the next choice is in progress
(`ChoiceInProgress`); `BootShowsChoice` needs that main entered with the byte of the
promised state (`BootRestores`); and that a task is outside of `send_*_signal` before it is
started needs the order in which main starts tasks (`BootOrder`). From it follow
`TypeCorrect`, `OwnCommandIsSent`, `LampIsLastCommand`, `EchoMeansStored`,
`BootKeepsPromise`, the action property `HoldIsKept` (the lamp changes only in a
`Transmit`, and the one who transmits is neither the detector, which is in its hold, nor
main, which has started it), and `ChannelRefinesRegister`: `Take`, `Assign` and `Give`
stutter, entering is a `Request`, `Transmit` is `Serve` or `Lose`, deletion is `Lose` or a
stutter, `Restart` is `Restart`.

**BrakePipelineProofs.** `PipelineInv` speaks of `inFlight`, the window followed by the
queue. `GapsAtWindowEnds` is the strengthening: without an overrun, the only gaps in
`inFlight` are after a full window's worth, because a sample is dropped only when the queue
is full, and with `QueueLength = Window` that puts the gap at a window's end. Moving a
sample from the queue to the window leaves `inFlight` as it is (`MoveHead`); finishing a
window shifts it by one window (`WindowDone`); publishing appends to it (`SampleQueued`) or
not (`SampleDropped`). `UploadsEverNewer` orders sent, message, upload queue and newest
sample. `FullQueueIsYoung` is what `NoOverrun` needs: with a part-filled window and a
detector that is not late, the queue is full only in the period in which its last sample
was sent, so no further sample finds it full (`NextKeepsUp`). Theorems:
`PipelineInvariance`, `PipelineTypes`, `OrderIsKept`, `WindowsAreContiguous`,
`KeepingUpSuffices`, `NewestIsUploaded`, `UploadOrder`, and `LagIsBounded`: its part of the
invariant, `LagKept`, says that in an episode the queue is unbroken until it is full, and
that outside of one only samples from an episode's beginning are older than their place in
`inFlight`, by one episode at most.

**NetworkProofs.** `NetworkInv` is `QueueInv` (what the event loop can hold in each state
of the driver; once the station is given up it holds nothing, so nothing can call
`esp_wifi_connect`), `MainInv` (where main can be when the monitor exists or has woken),
`StopInv` (a running task has its handle set; one that `wifi_stop` has passed does not
run), and `retryNum <= losses`, which makes `FAIL` mean that all retries were made.
`Queues`, `Heads` and `Posting` are the facts about sequences the steps need. Theorems:
`NetworkInvariance`, `NetworkTypes`, `RetriesAreMade`, `StationStaysDown`,
`WifiStopsOnce`, and `StoppedMeansNoTasks`, the only one with a premise, `PromptMain`: with
fewer losses than retries while main creates, `retryNum <= losses` keeps `FAIL` away.

**BrakeAlgorithmProofs.** Three invariants, each on top of the ones before it.

* `AlgorithmInv`: as long as no sample was at or below the threshold, neither is the filter
  nor any value in the window, because the filter is an average of its input and its past
  (`FilterStaysAbove`); ten values above the threshold have an average above it
  (`SumOfFive`, `HighIsNotLow`). Hence `AlarmsAreReal`, for all accelerations, failed reads
  and any negative threshold.
* `RideInv`: a window that lies within a ride without failed reads is on one side of the
  ride's acceleration (`OneSided`). From below the filter rises, so the window never falls;
  from above its values are not negative, so its average is not low. Hence `BrakingEnds`:
  `ReleaseEndsBraking` while every read works, for any threshold and count.
* `StepInv` follows a hard deceleration `level` through three windows by the difference
  `u = filtered - level`, of which each sample leaves four fifths, rounded down
  (`FilterDecays`). In the window that was being filled, `Least` bounds `u` from below. The
  first whole window then falls at least four times (`FourFalls`); if its average is not
  low, then its values were still high, and the next window falls as well. The average of
  that one is low, because its first difference is at most nine hundredths of `MaxAx - level`
  (`TenDifferences`, `WholeWindow`). Hence `StepsAreDetected`, for every deceleration from
  `Hard` to the sensor's range. Its premise `Ranges` is the code's: a threshold of -0.15 g
  or above, at most four falls, `Hard` at -0.25 g or below, samples of at most 2 g.

**BrakeReadProofs.** The rest of `ReleaseEndsBraking`: one read has failed. `ReadInv` follows
that sample through the window it falls into. `Memory` bounds what the filter still
remembers of a braking after so many samples of riding on, `Rebound` how the filter comes
back from the lowest value a failed read can send it to. A window with the read in it
either falls once (`OnceFallen`), or does not go below zero but for the memory (`Faded`), or
was not below zero until the read and rises from there (`FallenBelow`). In the last case it
falls four times only if the read is the fifth value or a later one, and then the sum of
the remaining values is at least -1477, while -1500 would be braking (`LateFallIsHigh`,
`EarlyFallIsFew`): the code's count of four is just enough, and a count of three would let
one failed read look like braking. Hence `BrakingAlwaysEnds`, under `RideRanges`: a
threshold of -0.148 g or below, a count of four or more, samples of -2 g or above. The
code's values satisfy `Ranges` and `RideRanges` both.

`RideInv`, `StepInv`, `ReadInv` and SensorProofs' `HandlerInv` are helpers that live in the
proof modules, and no run lists them; TLC checked each under the constants of the module's
run before it was proved.

**SensorProofs.** `HandlerInv` relates the handler's clock and `last` (modulo `Wrap`) to the
true `age` of the last accepted interrupt: the difference is the age as long as the clock
has not gone round (`Elapsed`), and between two edges the last accepted interrupt is the
edge or one that rang after it. Hence `EdgesCounted`, for every wrap, period and dead time
that satisfy the module's assumption.

**BleClientProofs.** `BleInv` says what may wait in the event queue in each state of the
connection: of one connection, `CONNECT` comes first (`ConnectFirst`) and `DISCONNECT` last
(`DisconnectLast`), all events are of the last connection (`OfLastConnection`), the flags
stay set until the disconnection has been handled (`FlaggedUntilHandled`), and from the
registration on all handles are the connection's own (`HandlesLearnt`). Without the order in
the queue neither property is inductive: an advertisement behind a `DISCONNECT` would find
`connect` cleared under a connection that is up. Theorems: `BleInvariance`, `OwnHandles`,
`OneConnectionKept`, and `BarredByFailure`: a link that goes down leaves its `DISCONNECT`
in the queue, and only its handler takes that out.

**BikeMcuProofs.** The two components are instances, and so are their proof modules:
`ImplementsLight` and `ImplementsNetwork` show that each step of the device is a step or a
stutter of each component, whose invariants then hold of the device. With them,
`DeviceInvariance`: who owns the mutex is known from `IndInv`, where the monitor and main
are from `NetworkInv`, and `OneDevice` and `UdpCreatedLast` tie the two together.
`MutexLostOnlyByStop` is a part of it: a udp task that ends by itself is outside of
`send_*_signal`, and `StopUdp` deletes one only with the monitor on its way through
`wifi_stop`. `NoCommandAfterStop` follows with `StoppedMeansNoTasks`, under `PromptMain`
like that one. `DeviceKeepsPromise` and `DeviceLampIsRegister` carry TailLight's durability
and its refinement of LampRegister over to the device.

**Only model-checked**: all liveness (fairness and ENABLED are outside of the prover).

## 6. Not modelled, and why

* Register values, bit fields, SPI frames and pin set-up: the models keep which writes were
  made, in which order, and which failed.
* Floating point: `BrakeAlgorithm` computes in whole thousandths of g.
* The download of `esp_https_ota`: only its outcome, a restart or nothing. Failing creation
  of tasks, queues and the mutex at boot (out of memory): the code does not handle it.
* The overflow of `data.seq` after 124 days: listed as a hazard without a property. The
  lifetime of the queue struct on `app_main`'s stack: `poll_sensor`, of higher priority,
  has read it before `xTaskCreate` returns.
* The delivery of uploads: `udp_send_data` drops a message when it has no socket, and
  nothing depends on it.
* A registration for notifications that is asked for when the link is gone gets no answer in
  BleClient. In the code its callback would look up the descriptor on the connection that is
  gone, find none and stop there.
* `detect_brake_2`, `led_run`, the MPU9250 helpers, `udp_socket_close`: never called.
* The build configuration and `pytest_simple_ota.py` (the vendor example's test).

## 7. Plan

Done: TailLight with LampRegister, BrakePipeline, Network, BrakeAlgorithm, Sensor,
BleClient, and BikeMcu, the composition of TailLight and Network, each with proofs.

Next:

1. An abstract specification of what the pipeline promises (a sequence of numbered samples
   cut into windows), implemented by BrakePipeline.
2. BrakePipeline's verdicts in place of `DetectBrake` in BikeMcu, so that a wait for the
   lamp's mutex shows up as lag of the pipeline.
