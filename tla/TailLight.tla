------------------------------ MODULE TailLight ------------------------------
(***************************************************************************)
(* The tail light: the send_*_signal functions of main/i2c.c, which put    *)
(* one command byte on the I2C bus under cmd_mutex, and the four tasks     *)
(* that call them:                                                         *)
(*   main      i2c_init's lamp test and last state, then the start of the  *)
(*             other tasks (app_main.c);                                   *)
(*   detector  detect_brake_1: brake on, hold, lamp back;                  *)
(*   udp       udp_server_task: a command, then the flash byte             *)
(*             (storage.c), then the echo;                                 *)
(*   ble       the Bluetooth task, in the notification callback.           *)
(* The tasks run under a preemptive scheduler, so every access to shared   *)
(* state is a step of its own and steps of different tasks interleave.     *)
(* The network monitor may delete the udp task between any two of its      *)
(* steps, and the chip may restart at any time; the lamp controller and    *)
(* the flash keep their state across a restart.                            *)
(***************************************************************************)
EXTENDS Naturals

CONSTANTS
    UdpLetters,      \* the command letters that datagrams carry
    BleLetters,      \* the command letters that notifications carry
    BusMayFail,      \* an I2C transfer may report an error
    StorageMayFail,  \* the nvs_ calls may report one, nvs_flash_init, too
    NetworkMayStop,  \* the network may be lost: the calls on the socket fail,
                     \* and wifi_stop deletes the udp task
    MaxResets        \* bound on the restarts of a behaviour

ASSUME ConstantsAssumption ==
    /\ UdpLetters \subseteq {"L", "R", "B", "N", "O", "S"}
    /\ BleLetters \subseteq {"L", "R", "N"}
    /\ BusMayFail \in BOOLEAN
    /\ StorageMayFail \in BOOLEAN
    /\ NetworkMayStop \in BOOLEAN
    /\ MaxResets \in Nat

Tasks == {"main", "detector", "udp", "ble"}
NoTask == "none"
Bytes == {"L", "R", "B", "N", "O"}
NoByte == "0"
Requests == Bytes \cup {"S"}      \* the command letters of a datagram
Preferences == {"O", "S"}         \* the two that are kept in flash

\* Where a task stands in its own program.
Locations == [
    main |-> {"boot_left", "boot_right", "boot_brake", "boot_last",
              "start_ble", "start_detector", "start_network", "up"},
    detector |-> {"off", "receive", "brake", "hold", "resume"},
    udp |-> {"off", "socket", "receive", "command", "open", "set", "commit",
             "close", "echo", "dead"},
    ble |-> {"off", "idle", "command"}]

\* The locations at which a task is about to call, or inside, send_*_signal.
CallSites == [
    main |-> {"boot_left", "boot_right", "boot_brake", "boot_last"},
    detector |-> {"brake", "resume"},
    udp |-> {"command"},
    ble |-> {"command"}]

\* Where a task stands in send_*_signal; "out" is outside of it.
CallStates == {"out", "take", "assign", "transmit", "give"}
Critical == {"assign", "transmit", "give"}

VARIABLES
    at,           \* at[t]: where task t stands in its program
    call,         \* call[t]: where it stands in send_*_signal
    cmd,          \* cmd[t]: which send_*_signal it is in
    mutex,        \* the owner of cmd_mutex, or NoTask
    lastCommand,  \* the global char of i2c.c
    enable,       \* BMCU_TAILLIGHT_ENABLE
    request,      \* the letter the udp task is serving
    lamp,         \* what the lamp controller was last told
    delivered,    \* the last transfer was reported as sent
    stored,       \* the byte "mychar" in flash
    staged,       \* set by nvs_set_i8 and not committed, or NoByte
    acked,        \* the last preference that was echoed, none while the next
                  \* is being carried out (observed, not in the code)
    resets        \* how often the chip has restarted

channel == <<mutex, lastCommand, lamp, delivered>>
flash == <<stored, staged, acked>>
vars == <<at, call, cmd, channel, enable, request, flash, resets>>

-----------------------------------------------------------------------------
\* RAM as the startup code leaves it: only the main task runs.
PowerUpAt == [t \in Tasks |-> IF t = "main" THEN "boot_left" ELSE "off"]

\* A device that has never stored a preference, or stored one earlier.
Init ==
    /\ at = PowerUpAt
    /\ call = [t \in Tasks |-> "out"]
    /\ cmd = [t \in Tasks |-> NoByte]
    /\ mutex = NoTask
    /\ lastCommand = NoByte
    /\ enable = TRUE
    /\ request = NoByte
    /\ delivered = TRUE
    /\ stored \in Preferences \cup {NoByte}
    /\ staged = NoByte
    /\ lamp = NoByte
    /\ acked = stored
    /\ resets = 0

Goto(t, loc) == at' = [at EXCEPT ![t] = loc]

-----------------------------------------------------------------------------
(* send_*_signal, the same five lines for each command.                    *)

\* Task t enters the function that sends b.
Enter(t, b) ==
    /\ call[t] = "out"
    /\ call' = [call EXCEPT ![t] = "take"]
    /\ cmd' = [cmd EXCEPT ![t] = b]

\* Task t gets the mutex when the condition allows it.
Lock(t, free) ==
    /\ call[t] = "take"
    /\ free
    /\ mutex' = t
    /\ call' = [call EXCEPT ![t] = "assign"]
    /\ UNCHANGED <<at, cmd, lastCommand, lamp, delivered, enable, request,
                   flash, resets>>

\* Mutant of Take: the mutex is not waited for.
TakeUnlocked(t) == Lock(t, TRUE)

\* xSemaphoreTake(cmd_mutex, portMAX_DELAY): blocks while it is owned.
Take(t) == Lock(t, mutex = NoTask)

AssignUnder(t, owner) ==
    /\ call[t] = "assign"
    /\ mutex' = owner
    /\ lastCommand' = cmd[t]
    /\ call' = [call EXCEPT ![t] = "transmit"]
    /\ UNCHANGED <<at, cmd, lamp, delivered, enable, request, flash, resets>>

\* Mutant of Assign: the mutex is given back before the transfer.
AssignAndGive(t) == AssignUnder(t, NoTask)

\* lastCommand = '...'
Assign(t) == AssignUnder(t, mutex)

\* led_write_byte(dev_led, LED_ADDR, lastCommand): the argument is the
\* global, read back.  A transfer that reports an error may or may not have
\* reached the lamp; the callers ignore the result.
Transmit(t) ==
    /\ call[t] = "transmit"
    /\ \E ok \in {TRUE, ~BusMayFail} :
        /\ delivered' = ok
        /\ lamp' \in IF ok THEN {lastCommand} ELSE {lamp, lastCommand}
    /\ call' = [call EXCEPT ![t] = "give"]
    /\ UNCHANGED <<at, cmd, mutex, lastCommand, enable, request, flash, resets>>

\* Where task t goes on when send_*_signal returns; the letters are the ones
\* the udp server stores.
AfterStoring(t, letters) ==
    CASE at[t] = "boot_left"  -> "boot_right"
      [] at[t] = "boot_right" -> "boot_brake"
      [] at[t] = "boot_brake" -> "boot_last"
      [] at[t] = "boot_last"  -> "start_ble"
      [] at[t] = "brake"      -> "hold"
      [] at[t] = "resume"     -> "receive"
      [] at[t] = "command"    ->
            IF t = "ble" THEN "idle"
            ELSE IF request \in letters THEN "open" ELSE "echo"

\* Mutant of After: a missing break, every command goes on to the flash.
AfterStoresAll(t) == AfterStoring(t, Requests)

After(t) == AfterStoring(t, Preferences)

GiveTo(t, owner) ==
    /\ call[t] = "give"
    /\ mutex' = owner
    /\ call' = [call EXCEPT ![t] = "out"]
    /\ cmd' = [cmd EXCEPT ![t] = NoByte]
    /\ Goto(t, After(t))
    /\ UNCHANGED <<lastCommand, lamp, delivered, enable, request, flash, resets>>

\* Mutant of Give: send_off_signal returns without giving the mutex.
GiveExceptOff(t) == GiveTo(t, IF cmd[t] = "O" THEN mutex ELSE NoTask)

\* xSemaphoreGive(cmd_mutex) and return.
Give(t) == GiveTo(t, NoTask)

-----------------------------------------------------------------------------
(* The main task.                                                          *)

TestByte == [boot_left |-> "L", boot_right |-> "R", boot_brake |-> "B"]

\* i2c_init shows L, R and B, 1.2 s apart.
LampTest ==
    /\ at["main"] \in DOMAIN TestByte
    /\ Enter("main", TestByte[at["main"]])
    /\ UNCHANGED <<at, channel, enable, request, flash, resets>>

\* i2c_init reads the flash byte (0 when the read fails) and restores the
\* light, dark as given; only here is BMCU_TAILLIGHT_ENABLE ever assigned.
Restore(dark) ==
    /\ at["main"] = "boot_last"
    /\ \E last_state \in {stored} \cup (IF StorageMayFail THEN {NoByte} ELSE {}) :
        IF last_state = "O"
        THEN enable' = FALSE /\ Enter("main", dark)
        ELSE UNCHANGED enable /\ Enter("main", "N")
    /\ UNCHANGED <<at, channel, request, flash, resets>>

\* Mutant of LastState: the flag is set and the light turned on all the same.
LastStateLit == Restore("N")

LastState == Restore("O")

\* ble_init returns early when the Bluetooth stack does not come up.
StartBle ==
    /\ at["main"] = "start_ble"
    /\ \E up \in BOOLEAN :
        at' = [at EXCEPT !["main"] = "start_detector",
                         !["ble"] = IF up THEN "idle" ELSE "off"]
    /\ UNCHANGED <<call, cmd, channel, enable, request, flash, resets>>

StartDetector ==
    /\ at["main"] = "start_detector"
    /\ at' = [at EXCEPT !["main"] = "start_network", !["detector"] = "receive"]
    /\ UNCHANGED <<call, cmd, channel, enable, request, flash, resets>>

\* The udp server is created only when wifi_init_sta reports a connection.
StartNetwork ==
    /\ at["main"] = "start_network"
    /\ \E connected \in BOOLEAN :
        at' = [at EXCEPT !["main"] = "up",
                         !["udp"] = IF connected THEN "socket" ELSE "off"]
    /\ UNCHANGED <<call, cmd, channel, enable, request, flash, resets>>

-----------------------------------------------------------------------------
(* The brake detector; which windows of samples mean braking is left open. *)

DetectBrake ==
    /\ at["detector"] = "receive"
    /\ Goto("detector", "brake")
    /\ Enter("detector", "B")
    /\ UNCHANGED <<channel, enable, request, flash, resets>>

HoldOverIf(allowed) ==
    /\ at["detector"] = "hold"
    /\ allowed
    /\ Goto("detector", "resume")
    /\ Enter("detector", IF enable THEN "N" ELSE "O")
    /\ UNCHANGED <<channel, enable, request, flash, resets>>

\* Mutant of HoldOver: nothing is sent, and no sample taken, when the tail
\* light is disabled.
HoldOverEnabled == HoldOverIf(enable)

\* The 2000 ms delay is over: the flag decides what the lamp goes back to.
HoldOver == HoldOverIf(TRUE)

-----------------------------------------------------------------------------
(* The notification callback of the Bluetooth client.                      *)

BleNotify(b) ==
    /\ at["ble"] = "idle"
    /\ Goto("ble", "command")
    /\ Enter("ble", b)
    /\ UNCHANGED <<channel, enable, request, flash, resets>>
-----------------------------------------------------------------------------
(* The udp server and the flash byte it keeps.                             *)

\* The udp task opens its socket, or fails to and ends.
Socket ==
    /\ at["udp"] = "socket"
    /\ \E ok \in {TRUE, ~NetworkMayStop} :
        Goto("udp", IF ok THEN "receive" ELSE "dead")
    /\ UNCHANGED <<call, cmd, channel, enable, request, flash, resets>>

\* A datagram of one letter and a newline; S shows the light as N does.
UdpReceive(letter) ==
    /\ at["udp"] = "receive"
    /\ request' = letter
    /\ Goto("udp", "command")
    /\ Enter("udp", IF letter = "S" THEN "N" ELSE letter)
    /\ acked' = IF letter \in Preferences THEN NoByte ELSE acked
    /\ UNCHANGED <<channel, enable, stored, staged, resets>>

\* A datagram that is no command goes straight to the echo.
OtherDatagram ==
    /\ at["udp"] = "receive"
    /\ request' = NoByte
    /\ Goto("udp", "echo")
    /\ UNCHANGED <<call, cmd, channel, enable, flash, resets>>

\* storage_write_char: nvs_open, or return on an error.
StorageOpen ==
    /\ at["udp"] = "open"
    /\ \E ok \in {TRUE, ~StorageMayFail} :
        Goto("udp", IF ok THEN "set" ELSE "echo")
    /\ UNCHANGED <<call, cmd, channel, enable, request, flash, resets>>

SetThen(next) ==
    /\ at["udp"] = "set"
    /\ \E ok \in {TRUE, ~StorageMayFail} :
        /\ Goto("udp", IF ok THEN next ELSE "close")
        /\ staged' = IF ok THEN request ELSE staged
    /\ UNCHANGED <<call, cmd, channel, enable, request, stored, acked, resets>>

\* Mutant of StorageSet: no nvs_commit.
StorageSetOnly == SetThen("close")

\* nvs_set_i8: not durable before the commit; skip the commit on an error.
StorageSet == SetThen("commit")

\* nvs_commit: the byte is in flash, unless it failed, which goes unnoticed.
StorageCommit ==
    /\ at["udp"] = "commit"
    /\ \E ok \in {TRUE, ~StorageMayFail} :
        /\ stored' = IF ok THEN staged ELSE stored
        /\ staged' = IF ok THEN NoByte ELSE staged
    /\ Goto("udp", "close")
    /\ UNCHANGED <<call, cmd, channel, enable, request, acked, resets>>

StorageClose ==
    /\ at["udp"] = "close"
    /\ Goto("udp", "echo")
    /\ UNCHANGED <<call, cmd, channel, enable, request, flash, resets>>

\* sendto: the datagram goes back to its sender once it is carried out; when
\* that fails the socket is closed and another one opened.
Echo ==
    /\ at["udp"] = "echo"
    /\ request' = NoByte
    /\ \E sent \in {TRUE, ~NetworkMayStop} :
        /\ Goto("udp", IF sent THEN "receive" ELSE "socket")
        /\ acked' = IF sent /\ request \in Preferences THEN request ELSE acked
    /\ UNCHANGED <<call, cmd, channel, enable, stored, staged, resets>>

-----------------------------------------------------------------------------
(* wifi_stop and restarts.                                                 *)

\* An owner that another task waits for runs at that task's priority.
Boosted(t) == mutex = t /\ \E u \in Tasks : call[u] = "take"

\* stop_udp_server_task: vTaskDelete stops the task between two of its
\* steps and does not release a mutex it owns.  The monitor (2) outranks the
\* udp task (1), but a boosted one only while that waits for the bus.
NetworkStop ==
    /\ NetworkMayStop
    /\ at["udp"] \notin {"off", "dead"}
    /\ Boosted("udp") => call["udp"] = "transmit"
    /\ Goto("udp", "dead")
    /\ call' = [call EXCEPT !["udp"] = "out"]
    /\ cmd' = [cmd EXCEPT !["udp"] = NoByte]
    /\ request' = NoByte
    /\ UNCHANGED <<channel, enable, flash, resets>>

\* A power dip, a panic, or esp_restart after an update.  A byte that was
\* set and not committed may or may not have reached the flash, and app_main
\* erases a flash that nvs_flash_init does not accept.
Restart ==
    /\ resets < MaxResets
    /\ resets' = resets + 1
    /\ at' = PowerUpAt
    /\ call' = [t \in Tasks |-> "out"]
    /\ cmd' = [t \in Tasks |-> NoByte]
    /\ mutex' = NoTask
    /\ lastCommand' = NoByte
    /\ enable' = TRUE
    /\ request' = NoByte
    /\ delivered' = TRUE
    /\ stored' \in {stored} \cup ({staged} \ {NoByte})
                    \cup (IF StorageMayFail THEN {NoByte} ELSE {})
    /\ staged' = NoByte
    /\ UNCHANGED <<lamp, acked>>

-----------------------------------------------------------------------------
\* One step of send_*_signal by task t.
SendStep(t) == Take(t) \/ Assign(t) \/ Transmit(t) \/ Give(t)

MainStep == LampTest \/ LastState \/ StartBle \/ StartDetector \/ StartNetwork

UdpStep ==
    Socket \/ StorageOpen \/ StorageSet \/ StorageCommit \/ StorageClose \/ Echo

\* What the outside world decides: a window of samples that means braking, a
\* notification, a datagram.
Stimulus ==
    \/ DetectBrake
    \/ \E b \in BleLetters : BleNotify(b)
    \/ \E letter \in UdpLetters : UdpReceive(letter)
    \/ OtherDatagram

Next ==
    \/ \E t \in Tasks : SendStep(t)
    \/ MainStep
    \/ HoldOver
    \/ UdpStep
    \/ Stimulus
    \/ NetworkStop
    \/ Restart

Spec == Init /\ [][Next]_vars

\* Every task keeps running: a ready task of this system is eventually
\* scheduled, and vTaskDelay ends.  A waiting list of the mutex is served in
\* order of priority, so the detector (4), which only the rare notifications
\* of the Bluetooth task outrank, is not overtaken forever.
Fairness ==
    /\ \A t \in Tasks : WF_vars(SendStep(t))
    /\ SF_vars(Take("detector"))
    /\ WF_vars(MainStep)
    /\ WF_vars(HoldOver)
    /\ WF_vars(UdpStep)

FairSpec == Spec /\ Fairness

-----------------------------------------------------------------------------
(* Safety.                                                                 *)

TypeOK ==
    /\ at \in [Tasks -> UNION {Locations[t] : t \in Tasks}]
    /\ \A t \in Tasks : at[t] \in Locations[t]
    /\ call \in [Tasks -> CallStates]
    /\ cmd \in [Tasks -> Bytes \cup {NoByte}]
    /\ mutex \in Tasks \cup {NoTask}
    /\ lastCommand \in Bytes \cup {NoByte}
    /\ enable \in BOOLEAN
    /\ request \in Requests \cup {NoByte}
    /\ lamp \in Bytes \cup {NoByte}
    /\ delivered \in BOOLEAN
    /\ stored \in Preferences \cup {NoByte}
    /\ staged \in Preferences \cup {NoByte}
    /\ acked \in Preferences \cup {NoByte}
    /\ resets \in Nat

\* The byte a task puts on the bus is the byte of the function it called,
\* although it is read back from the global lastCommand that every other
\* task assigns too (led_write_byte in send_*_signal).
TransmitsOwnCommand ==
    \A t \in Tasks : call[t] = "transmit" => lastCommand = cmd[t]

\* While nobody is inside send_*_signal the global lastCommand says what the
\* lamp shows, unless the last transfer was reported as failed.
LampFollowsLastCommand ==
    mutex = NoTask /\ delivered /\ lastCommand # NoByte => lamp = lastCommand

\* The mutex discipline of send_*_signal: a task inside it stands at one of
\* its call sites, between Take and Give it owns cmd_mutex, it still finds its
\* own byte in lastCommand when it transmits, and leaves with the lamp and
\* lastCommand in agreement.
InsideSend ==
    \A t \in Tasks :
        /\ call[t] # "out" => at[t] \in CallSites[t] /\ cmd[t] \in Bytes
        /\ call[t] \in Critical => mutex = t
        /\ call[t] = "give" /\ delivered => lamp = lastCommand

\* The flash is written only for O and S, what is committed is the letter
\* being served, and a working flash holds it from the commit to the echo.
StorageInOrder ==
    /\ at["udp"] \in {"open", "set", "commit", "close"} => request \in Preferences
    /\ at["udp"] = "commit" => staged = request
    /\ at["udp"] \in {"close", "echo"} /\ request \in Preferences
        /\ ~StorageMayFail => stored = request

\* app_main starts the other tasks one after the other, after i2c_init.
BootOrder ==
    /\ at["ble"] # "off" => at["main"] \in {"start_detector", "start_network", "up"}
    /\ at["detector"] # "off" => at["main"] \in {"start_network", "up"}
    /\ at["udp"] # "off" => at["main"] = "up"

\* What only the last echo can make good is not acknowledged before it.
ChoiceInProgress ==
    /\ request \in Preferences => acked = NoByte
    /\ staged # NoByte /\ ~StorageMayFail =>
        acked = NoByte /\ at["udp"] \in {"commit", "dead"}

\* A rider who has got the echo of O or S can rely on it: with a working flash
\* the choice is stored from then on until the next one is made, whatever
\* restarts or deletions of the udp task come between (command_handler stores
\* before udp_server_task answers, and nothing else writes the byte).
AcknowledgedIsDurable == ~StorageMayFail /\ acked # NoByte => stored = acked

\* What i2c_init is sending as the last state.
BootRestores ==
    at["main"] = "boot_last" /\ call["main"] # "out"
    /\ ~StorageMayFail /\ acked # NoByte
        => cmd["main"] = IF acked = "O" THEN "O" ELSE "N"

\* The boot sequence ends with the light the rider was last promised: dark
\* after an echoed O, lit after an echoed S (i2c_init, storage_read_char).
BootShowsChoice ==
    at["main"] = "boot_last" /\ call["main"] = "transmit"
    /\ ~StorageMayFail /\ acked # NoByte
        => lastCommand = IF acked = "O" THEN "O" ELSE "N"

\* What is said of the flash byte.
FlashInv == StorageInOrder /\ ChoiceInProgress /\ AcknowledgedIsDurable

\* What holds in every reachable state and is preserved by every step: the
\* invariants above with what each of them needs of the others.
IndInv ==
    /\ TypeOK
    /\ InsideSend
    /\ TransmitsOwnCommand
    /\ LampFollowsLastCommand
    /\ BootOrder
    /\ FlashInv
    /\ BootRestores

\* Only a rider's command can turn off a brake light: from the detection to
\* the end of the hold, the lamp leaves B only for the byte of a command
\* that the udp or the Bluetooth task is carrying out.
HoldEndsOnlyByCommand ==
    [][at["detector"] = "hold" /\ lamp = "B" /\ lamp' # "B" =>
        \E t \in {"udp", "ble"} : call[t] = "transmit" /\ cmd[t] = lamp']_vars

-----------------------------------------------------------------------------
(* The channel implements LampRegister: a request is outstanding from the  *)
(* call to the transfer, and takes effect at the transfer.                 *)

pending == [t \in Tasks |->
    IF call[t] \in {"take", "assign", "transmit"} THEN cmd[t] ELSE NoByte]

Register == INSTANCE LampRegister WITH lamp <- lamp, pending <- pending

\* Every step of the channel is one atomic step of the register, or none.
ImplementsRegister == Register!Spec

-----------------------------------------------------------------------------
(* Liveness.                                                               *)

\* A detected braking reaches the lamp: the detector gets through
\* send_brake_signal with B shown.
BrakeLights ==
    at["detector"] = "brake"
        ~> at["detector"] = "brake" /\ call["detector"] = "give" /\ lamp = "B"

\* A brake episode ends, and the detector takes samples again.
EpisodeEnds == at["detector"] = "brake" ~> at["detector"] = "receive"
=============================================================================
