---------------------------- MODULE BikeMcuProofs ----------------------------
(***************************************************************************)
(* Proofs about BikeMcu, for every set of letters, every combination of    *)
(* faults and any number of retries and restarts.                          *)
(*                                                                         *)
(* Every step of the device is a step of the tail light or leaves it       *)
(* alone, and the same for the network: both components are implemented,   *)
(* and what is proved of them holds of the device.  DeviceInv adds what    *)
(* neither of them can say alone.                                          *)
(***************************************************************************)
EXTENDS BikeMcu, TLAPS

\* The two components with their theorems.  The formulas are those of Light
\* and Net: the lemmas below expand both.
LightP == INSTANCE TailLightProofs WITH
    NetworkMayStop <- TRUE, at <- lightAt

NetP == INSTANCE NetworkProofs WITH
    SocketMayFail <- TRUE, MaxBoots <- MaxResets, at <- netAt

LEMMA SameLightInit == Light!Init <=> LightP!Init
  BY DEF Light!Init, LightP!Init, Light!PowerUpAt, LightP!PowerUpAt,
         Light!Tasks, LightP!Tasks, Light!NoTask, LightP!NoTask, Light!NoByte,
         LightP!NoByte, Light!Preferences, LightP!Preferences

LEMMA SameLightNext == Light!Next <=> LightP!Next
  BY DEF Light!Next, LightP!Next, Light!Tasks, LightP!Tasks, Light!NoTask,
         LightP!NoTask, Light!Bytes, LightP!Bytes, Light!NoByte, LightP!NoByte,
         Light!Requests, LightP!Requests, Light!Preferences,
         LightP!Preferences, Light!channel, LightP!channel, Light!flash,
         LightP!flash, Light!PowerUpAt, LightP!PowerUpAt, Light!Goto,
         LightP!Goto, Light!Enter, LightP!Enter, Light!Lock, LightP!Lock,
         Light!Take, LightP!Take, Light!AssignUnder, LightP!AssignUnder,
         Light!Assign, LightP!Assign, Light!Transmit, LightP!Transmit,
         Light!AfterStoring, LightP!AfterStoring, Light!After, LightP!After,
         Light!GiveTo, LightP!GiveTo, Light!Give, LightP!Give, Light!TestByte,
         LightP!TestByte, Light!LampTest, LightP!LampTest, Light!Restore,
         LightP!Restore, Light!LastState, LightP!LastState, Light!StartBle,
         LightP!StartBle, Light!StartDetector, LightP!StartDetector,
         Light!StartNetwork, LightP!StartNetwork, Light!DetectBrake,
         LightP!DetectBrake, Light!HoldOverIf, LightP!HoldOverIf,
         Light!HoldOver, LightP!HoldOver, Light!BleNotify, LightP!BleNotify,
         Light!Socket, LightP!Socket, Light!UdpReceive, LightP!UdpReceive,
         Light!OtherDatagram, LightP!OtherDatagram, Light!StorageOpen,
         LightP!StorageOpen, Light!SetThen, LightP!SetThen, Light!StorageSet,
         LightP!StorageSet, Light!StorageCommit, LightP!StorageCommit,
         Light!StorageClose, LightP!StorageClose, Light!Echo, LightP!Echo,
         Light!Boosted, LightP!Boosted, Light!NetworkStop, LightP!NetworkStop,
         Light!Restart, LightP!Restart, Light!SendStep, LightP!SendStep,
         Light!MainStep, LightP!MainStep, Light!UdpStep, LightP!UdpStep,
         Light!Stimulus, LightP!Stimulus

LEMMA SameLightVars == UNCHANGED Light!vars <=> UNCHANGED LightP!vars
  BY DEF Light!vars, LightP!vars, Light!channel, LightP!channel,
         Light!flash, LightP!flash

LEMMA SameLightInv == Light!IndInv <=> LightP!IndInv
  BY DEF Light!Tasks, LightP!Tasks, Light!NoTask, LightP!NoTask, Light!Bytes,
         LightP!Bytes, Light!NoByte, LightP!NoByte, Light!Requests,
         LightP!Requests, Light!Preferences, LightP!Preferences,
         Light!Locations, LightP!Locations, Light!CallSites, LightP!CallSites,
         Light!CallStates, LightP!CallStates, Light!Critical, LightP!Critical,
         Light!TypeOK, LightP!TypeOK, Light!TransmitsOwnCommand,
         LightP!TransmitsOwnCommand, Light!LampFollowsLastCommand,
         LightP!LampFollowsLastCommand, Light!InsideSend, LightP!InsideSend,
         Light!StorageInOrder, LightP!StorageInOrder, Light!BootOrder,
         LightP!BootOrder, Light!ChoiceInProgress, LightP!ChoiceInProgress,
         Light!AcknowledgedIsDurable, LightP!AcknowledgedIsDurable,
         Light!BootRestores, LightP!BootRestores, Light!FlashInv,
         LightP!FlashInv, Light!IndInv, LightP!IndInv

LEMMA SameNetInit == Net!Init <=> NetP!Init
  BY DEF Net!Init, NetP!Init, Net!AtBoot, NetP!AtBoot, Net!NetworkTasks,
         NetP!NetworkTasks

LEMMA SameNetNext == Net!Next <=> NetP!Next
  BY DEF Net!Next, NetP!Next, Net!NetworkTasks, NetP!NetworkTasks, Net!Bits,
         NetP!Bits, Net!StopSteps, NetP!StopSteps, Net!AfterTasks,
         NetP!AfterTasks, Net!CreateSteps, NetP!CreateSteps, Net!bitVars,
         NetP!bitVars, Net!stationVars, NetP!stationVars, Net!taskVars,
         NetP!taskVars, Net!AtBoot, NetP!AtBoot, Net!Goto, NetP!Goto,
         Net!LinkStep, NetP!LinkStep, Net!Associate, NetP!Associate,
         Net!Address, NetP!Address, Net!Lost, NetP!Lost, Net!SetBit,
         NetP!SetBit, Net!Connect, NetP!Connect, Net!HandleEvent,
         NetP!HandleEvent, Net!HandleStart, NetP!HandleStart, Net!Creating,
         NetP!Creating, Net!CountLoss, NetP!CountLoss, Net!DisconnectedUpTo,
         NetP!DisconnectedUpTo, Net!HandleDisconnected,
         NetP!HandleDisconnected, Net!GotIpFrom, NetP!GotIpFrom,
         Net!HandleGotIp, NetP!HandleGotIp, Net!Start, NetP!Start,
         Net!WifiInitSta, NetP!WifiInitSta, Net!WaitBits, NetP!WaitBits,
         Net!CreateMonitor, NetP!CreateMonitor,
         Net!Create, NetP!Create, Net!CreateTask, NetP!CreateTask,
         Net!MonitorWakes, NetP!MonitorWakes, Net!StopIf, NetP!StopIf,
         Net!Stop, NetP!Stop, Net!StopUdp, NetP!StopUdp, Net!StopOther,
         NetP!StopOther, Net!Unregister, NetP!Unregister, Net!RadioOff,
         NetP!RadioOff, Net!Deinit, NetP!Deinit, Net!RestOfStop,
         NetP!RestOfStop, Net!UdpGivesUp, NetP!UdpGivesUp, Net!PowerUp,
         NetP!PowerUp, Net!OtaRestarts, NetP!OtaRestarts, Net!Driver,
         NetP!Driver, Net!Handler, NetP!Handler, Net!WifiStop, NetP!WifiStop,
         Net!Main, NetP!Main, Net!Monitor, NetP!Monitor

LEMMA SameNetVars == UNCHANGED Net!vars <=> UNCHANGED NetP!vars
  BY DEF Net!vars, NetP!vars, Net!bitVars, NetP!bitVars,
         Net!stationVars, NetP!stationVars, Net!taskVars, NetP!taskVars

LEMMA SameNetInv == Net!NetworkInv <=> NetP!NetworkInv
  BY DEF Net!NetworkTasks, NetP!NetworkTasks, Net!Bits, NetP!Bits, Net!Events,
         NetP!Events, Net!StopSteps, NetP!StopSteps, Net!AfterTasks,
         NetP!AfterTasks, Net!CreateSteps, NetP!CreateSteps, Net!TypeOK,
         NetP!TypeOK, Net!GivesUpAfterRetries, NetP!GivesUpAfterRetries,
         Net!GivenUp, NetP!GivenUp, Net!QueueInv, NetP!QueueInv, Net!MainInv,
         NetP!MainInv, Net!StopInv, NetP!StopInv, Net!NetworkInv,
         NetP!NetworkInv

-----------------------------------------------------------------------------
(* The device implements the two components.                               *)

LEMMA LightStep == [Next]_vars => [Light!Next]_(Light!vars)
  <1> SUFFICES ASSUME [Next]_vars PROVE [Light!Next]_(Light!vars)
    OBVIOUS
  <1>0. UNCHANGED lightVars => UNCHANGED Light!vars
    BY DEF lightVars, Light!vars, Light!channel, Light!flash
  <1>1. CASE \E t \in Light!Tasks : Send(t)
    BY <1>1 DEF Send, Light!Next
  <1>2. CASE HoldOver \/ Stimulus
    BY <1>2 DEF HoldOver, Stimulus, Light!Next
  <1>3. CASE UdpGoesOn \/ UdpEnds
    BY <1>3 DEF UdpGoesOn, UdpEnds, Light!UdpStep, Light!Next
  <1>4. CASE BootStep
    BY <1>4 DEF BootStep, Light!MainStep, Light!Next
  <1>5. CASE InitStation \/ CreateOther
    BY <1>0, <1>5 DEF InitStation, InitStationAfter, CreateOther
  <1>6. CASE CreateUdp \/ NoNetwork
    BY <1>6 DEF CreateUdp, NoNetwork, Light!MainStep, Light!Next
  <1>7. CASE Station \/ MonitorWakes
    BY <1>0, <1>7 DEF Station, MonitorWakes
  <1>8. ASSUME NEW t, WifiStop(t) PROVE [Light!Next]_(Light!vars)
    <2>1. CASE StopUdp(t)
      BY <1>0, <2>1 DEF StopUdp, StopUdpUnless, Light!Next
    <2>2. CASE StopOther(t)
      BY <1>0, <2>2 DEF StopOther
    <2> QED
      BY <1>8, <2>1, <2>2 DEF WifiStop
  <1>9. CASE Restart
    BY <1>9 DEF Restart, Light!Next
  <1>10. CASE UNCHANGED vars
    BY <1>0, <1>10 DEF vars
  <1> QED
    BY <1>1, <1>2, <1>3, <1>4, <1>5, <1>6, <1>7, <1>8, <1>9, <1>10
       DEF Next, Main

LEMMA NetStep == [Next]_vars => [Net!Next]_(Net!vars)
  <1> SUFFICES ASSUME [Next]_vars PROVE [Net!Next]_(Net!vars)
    OBVIOUS
  <1>0. UNCHANGED netVars => UNCHANGED Net!vars
    BY DEF netVars, Net!vars, Net!bitVars, Net!stationVars, Net!taskVars
  <1>1. CASE \E t \in Light!Tasks : Send(t)
    BY <1>0, <1>1 DEF Send
  <1>2. CASE HoldOver \/ Stimulus \/ UdpGoesOn \/ BootStep
    BY <1>0, <1>2 DEF HoldOver, Stimulus, UdpGoesOn, BootStep
  <1>3. CASE UdpEnds
    BY <1>3 DEF UdpEnds, Net!Next
  <1>4. CASE InitStation
    BY <1>4 DEF InitStation, InitStationAfter, Net!Main, Net!Next
  <1>5. CASE CreateOther \/ CreateUdp
    BY <1>5 DEF CreateOther, CreateUdp, Net!CreateTask, Net!Main, Net!Next
  <1>6. CASE NoNetwork
    BY <1>6 DEF NoNetwork, Net!RestOfStop, Net!WifiStop, Net!Main, Net!Next
  <1>7. CASE Station \/ MonitorWakes
    BY <1>7 DEF Station, MonitorWakes, Net!Monitor, Net!Next
  <1>8. ASSUME NEW t \in {"main", "monitor"}, WifiStop(t)
        PROVE  Net!Next
    <2>1. Net!WifiStop(t)
      BY <1>8 DEF WifiStop, StopUdp, StopUdpUnless, StopOther, Net!RestOfStop,
                  Net!WifiStop
    <2> QED
      BY <2>1 DEF Net!Main, Net!Monitor, Net!Next
  <1>9. CASE Restart
    BY <1>9 DEF Restart, Net!Next
  <1>10. CASE UNCHANGED vars
    BY <1>0, <1>10 DEF vars
  <1> QED
    BY <1>1, <1>2, <1>3, <1>4, <1>5, <1>6, <1>7, <1>8, <1>9, <1>10
       DEF Next, Main

\* The device implements the tail light: what app_main, the monitor and the
\* restarts do to the lamp, the mutex and the flash are steps that TailLight
\* allows, wherever they cut in.
THEOREM ImplementsLight == Spec => Light!Spec
  <1>1. Init => Light!Init
    BY DEF Init
  <1> QED
    BY <1>1, LightStep, PTL DEF Spec, Light!Spec

\* The device implements the network: the udp task, which works for the light,
\* begins, ends and is deleted only as Network allows it.
THEOREM ImplementsNetwork == Spec => Net!Spec
  <1>1. Init => Net!Init
    BY DEF Init
  <1> QED
    BY <1>1, NetStep, PTL DEF Spec, Net!Spec

LEMMA LightSpec == Spec => LightP!Spec
  <1>1. [Light!Next]_(Light!vars) => [LightP!Next]_(LightP!vars)
    BY SameLightNext, SameLightVars
  <1>2. Light!Spec => LightP!Spec
    BY <1>1, SameLightInit, PTL DEF Light!Spec, LightP!Spec
  <1> QED
    BY <1>2, ImplementsLight

\* What is proved of the tail light holds of the device.
LEMMA LightInvariance == Spec => []Light!IndInv
  <1>1. LightP!Spec => []LightP!IndInv
    BY DeviceAssumption, LightP!Invariance
  <1> QED
    BY <1>1, LightSpec, SameLightInv, PTL

\* What is proved of the network holds of the device.
LEMMA NetInvariance == Spec => []Net!NetworkInv
  <1>1. [Net!Next]_(Net!vars) => [NetP!Next]_(NetP!vars)
    BY SameNetNext, SameNetVars
  <1>2. Net!Spec => NetP!Spec
    BY <1>1, SameNetInit, PTL DEF Net!Spec, NetP!Spec
  <1>3. NetP!Spec => []NetP!NetworkInv
    BY DeviceAssumption, NetP!NetworkInvariance
  <1> QED
    BY <1>2, <1>3, ImplementsNetwork, SameNetInv, PTL

-----------------------------------------------------------------------------
(* DeviceInv.                                                              *)

\* Where the monitor stands when it has passed the udp task.
Passed == {"stop_upload", "done"} \cup Net!AfterTasks

\* What a living udp task is, in the location of TailLight.
LEMMA Locations ==
  ASSUME Light!IndInv
  PROVE  /\ \A t \in Light!Tasks : lightAt[t] \in Light!Locations[t]
         /\ call["udp"] # "out" => lightAt["udp"] = "command"
         /\ DOMAIN lightAt = Light!Tasks /\ DOMAIN call = Light!Tasks
         /\ lightAt["udp"] # "off" => lightAt["main"] = "up"
         /\ call["main"] # "out" => lightAt["main"] \in
                {"boot_left", "boot_right", "boot_brake", "boot_last"}
  BY DEF Light!IndInv, Light!TypeOK, Light!InsideSend, Light!BootOrder,
         Light!CallSites, Light!Tasks

\* A step of the light alone that neither begins nor ends the udp task.
LEMMA LightAlone ==
  ASSUME DeviceInv, UNCHANGED netVars, resets' = resets,
         UdpLives' <=> UdpLives,
         lightAt["main"] \in {"start_network", "up"} /\ netAt["main"] # "start"
            => lightAt'["main"] \in {"start_network", "up"},
         mutex' = "udp" => mutex = "udp" \/ UdpLives,
         OwnerInside'
  PROVE  DeviceInv'
  BY DEF DeviceInv, OneDevice, UdpCreatedLast, LostOnlyByStop, Orphaned, netVars

\* A step of the network alone that neither begins nor ends the udp task.
LEMMA NetAlone ==
  ASSUME DeviceInv, UNCHANGED lightVars, boots' = boots,
         task'["udp"] = task["udp"],
         netAt["main"] = "start" => netAt'["main"] = "start",
         netAt'["main"] \notin {"create_upload", "done"}
            => netAt["main"] \notin {"create_upload", "done"},
         netAt["monitor"] \in Passed => netAt'["monitor"] \in Passed
  PROVE  DeviceInv'
  BY DEF DeviceInv, OneDevice, OwnerInside, UdpCreatedLast, LostOnlyByStop,
         Orphaned, UdpLives, lightVars, Passed

LEMMA SendKeepsDevice ==
  ASSUME Light!IndInv, DeviceInv, NEW t \in Light!Tasks, Send(t)
  PROVE  DeviceInv'
  <1> USE Locations DEF Light!Tasks
  <1>1. UNCHANGED netVars /\ resets' = resets /\ Light!SendStep(t)
    BY DEF Send, Light!SendStep, Light!Take, Light!Lock, Light!Assign,
           Light!AssignUnder, Light!Transmit, Light!Give, Light!GiveTo
  <1>2. CASE Light!Take(t) \/ Light!Assign(t) \/ Light!Transmit(t)
    <2>1. lightAt' = lightAt
      BY <1>2 DEF Light!Take, Light!Lock, Light!Assign, Light!AssignUnder,
                  Light!Transmit
    <2>2. UdpLives' <=> UdpLives
      BY <2>1 DEF UdpLives
    <2>3. mutex' = "udp" => mutex = "udp" \/ UdpLives
      BY <1>2 DEF Light!Take, Light!Lock, Light!Assign, Light!AssignUnder,
                  Light!Transmit, UdpLives
    <2>4. OwnerInside'
      BY <1>2, <2>2 DEF Light!Take, Light!Lock, Light!Assign,
                  Light!AssignUnder, Light!Transmit, DeviceInv, OwnerInside,
                  Light!Critical
    <2> QED
      BY <1>1, <2>1, <2>2, <2>3, <2>4, LightAlone
  <1>3. CASE Light!Give(t)
    <2>1. mutex' = Light!NoTask /\ call[t] # "out"
      BY <1>3 DEF Light!Give, Light!GiveTo
    <2>2. lightAt' = [lightAt EXCEPT ![t] = Light!After(t)]
      BY <1>3 DEF Light!Give, Light!GiveTo, Light!Goto
    <2>3. t = "udp" => lightAt'["udp"] \in {"open", "echo"}
      BY <2>1, <2>2 DEF Light!After, Light!AfterStoring
    <2>4. UdpLives' <=> UdpLives
      BY <2>1, <2>2, <2>3 DEF UdpLives
    <2>5. t # "main" \/ lightAt["main"] \notin {"start_network", "up"}
      BY <2>1
    <2>6. mutex' # "udp"
      BY <2>1 DEF Light!NoTask
    <2> QED
      BY <1>1, <2>2, <2>4, <2>5, <2>6, LightAlone DEF OwnerInside
  <1> QED
    BY <1>1, <1>2, <1>3 DEF Light!SendStep

LEMMA BootKeepsDevice ==
  ASSUME Light!IndInv, DeviceInv, BootStep PROVE DeviceInv'
  <1> USE Locations DEF Light!Tasks
  <1>1. UNCHANGED <<mutex, resets>> /\ UNCHANGED netVars /\ netAt["main"] = "start"
    BY DEF BootStep, Light!LampTest, Light!LastState, Light!Restore,
           Light!StartBle, Light!StartDetector, Light!channel
  <1>2. lightAt'["udp"] = lightAt["udp"] /\ call'["udp"] = call["udp"]
    BY DEF BootStep, Light!LampTest, Light!LastState, Light!Restore,
           Light!StartBle, Light!StartDetector, Light!Enter
  <1> QED
    BY <1>1, <1>2, LightAlone DEF UdpLives, OwnerInside, DeviceInv

LEMMA OutsideKeepsDevice ==
  ASSUME Light!IndInv, DeviceInv, HoldOver \/ UdpGoesOn \/ Stimulus
  PROVE  DeviceInv'
  <1> USE Locations DEF Light!Tasks, Light!Goto, Light!Enter, Light!channel
  <1>1. UNCHANGED <<mutex, resets>> /\ UNCHANGED netVars
    BY DEF HoldOver, UdpGoesOn, Stimulus, Light!HoldOver, Light!HoldOverIf,
           Light!UdpStep, Light!Socket, Light!StorageOpen, Light!StorageSet,
           Light!SetThen, Light!StorageCommit, Light!StorageClose, Light!Echo,
           Light!Stimulus, Light!DetectBrake, Light!BleNotify,
           Light!UdpReceive, Light!OtherDatagram
  <1>2. lightAt'["main"] = lightAt["main"]
    BY DEF HoldOver, UdpGoesOn, Stimulus, Light!HoldOver, Light!HoldOverIf,
           Light!UdpStep, Light!Socket, Light!StorageOpen, Light!StorageSet,
           Light!SetThen, Light!StorageCommit, Light!StorageClose, Light!Echo,
           Light!Stimulus, Light!DetectBrake, Light!BleNotify,
           Light!UdpReceive, Light!OtherDatagram
  <1>3. /\ UdpLives' <=> UdpLives
        /\ call["udp"] \in Light!Critical => call'["udp"] = call["udp"]
        /\ lightAt["udp"] = "dead" => lightAt'["udp"] = "dead"
    <2>1. CASE HoldOver
      BY <2>1 DEF HoldOver, Light!HoldOver, Light!HoldOverIf, UdpLives
    <2>2. CASE UdpGoesOn
      BY <2>2 DEF UdpGoesOn, Light!UdpStep, Light!Socket, Light!StorageOpen,
           Light!StorageSet, Light!SetThen, Light!StorageCommit,
           Light!StorageClose, Light!Echo, UdpLives
    <2>3. CASE Stimulus
      BY <2>3 DEF Stimulus, Light!Stimulus, Light!DetectBrake, Light!BleNotify,
           Light!UdpReceive, Light!OtherDatagram, UdpLives, Light!Critical
    <2> QED
      BY <2>1, <2>2, <2>3
  <1> QED
    BY <1>1, <1>2, <1>3, LightAlone DEF OwnerInside, DeviceInv

LEMMA StationKeepsDevice ==
  ASSUME DeviceInv, Station \/ MonitorWakes PROVE DeviceInv'
  <1>1. UNCHANGED lightVars /\ UNCHANGED <<task, boots>>
    BY DEF Station, MonitorWakes, Net!MonitorWakes, Net!Driver, Net!Associate,
           Net!Address, Net!Lost, Net!LinkStep, Net!Handler, Net!HandleStart,
           Net!HandleDisconnected, Net!DisconnectedUpTo, Net!HandleGotIp,
           Net!GotIpFrom, Net!HandleEvent, Net!taskVars
  <1>2. CASE Station
    <2>1. netAt' = netAt
      BY <1>2 DEF Station, Net!Driver, Net!Associate,
           Net!Address, Net!Lost, Net!LinkStep, Net!Handler, Net!HandleStart,
           Net!HandleDisconnected, Net!DisconnectedUpTo, Net!HandleGotIp,
           Net!GotIpFrom, Net!HandleEvent
    <2> QED
      BY <1>1, <2>1, NetAlone
  <1>3. CASE MonitorWakes
    <2>1. netAt["monitor"] = "wait" /\ netAt'["main"] = netAt["main"]
      BY <1>3 DEF MonitorWakes, Net!MonitorWakes, Net!Goto
    <2>2. netAt["monitor"] \notin Passed
      BY <2>1 DEF Passed, Net!AfterTasks
    <2> QED
      BY <1>1, <2>1, <2>2, NetAlone
  <1> QED
    BY <1>2, <1>3

\* main and the monitor, as NetworkInv knows them.
LEMMA Places ==
  ASSUME Net!NetworkInv
  PROVE  /\ DOMAIN netAt = {"main", "monitor"}
         /\ task \in [{"ota", "udp", "upload"} -> {"none", "running", "ended", "deleted"}]
         /\ netAt["main"] \in {"start", "wait", "create_monitor"} \cup Net!StopSteps
                => netAt["monitor"] = "none"
         /\ task["udp"] = "running" => handle["udp"]
         /\ PromptMain /\ netAt["monitor"] = "done" => task["udp"] # "running"
  BY DEF Net!NetworkInv, Net!TypeOK, Net!MainInv, Net!StopInv, Net!StopSteps,
         Net!NetworkTasks

LEMMA MainKeepsDevice ==
  ASSUME Light!IndInv, Net!NetworkInv, DeviceInv, InitStation \/ CreateOther
  PROVE  DeviceInv'
  <1> USE Places
  <1>1. CASE InitStation
    <2>1. /\ UNCHANGED lightVars /\ UNCHANGED <<task, boots>>
          /\ lightAt["main"] = "start_network"
          /\ netAt["main"] = "start" /\ netAt'["main"] = "wait"
          /\ netAt'["monitor"] = netAt["monitor"]
      BY <1>1 DEF InitStation, InitStationAfter, Net!WifiInitSta, Net!Start,
                  Net!taskVars
    <2>2. lightAt' = lightAt /\ mutex' = mutex /\ call' = call /\ resets' = resets
      BY <2>1 DEF lightVars
    <2> QED
      BY <2>1, <2>2 DEF DeviceInv, OneDevice, OwnerInside, UdpCreatedLast,
           LostOnlyByStop, Orphaned, UdpLives
  <1>2. CASE CreateOther
    <2>1. UNCHANGED lightVars /\ boots' = boots /\ task'["udp"] = task["udp"]
      BY <1>2 DEF CreateOther, Net!WaitBits, Net!CreateMonitor, Net!Create,
           Net!taskVars
    <2>2. /\ netAt["main"] \in {"wait", "create_monitor", "create_ota", "create_upload"}
          /\ netAt'["main"] = "done" => netAt["main"] = "create_upload"
          /\ netAt["main"] = "create_upload" => netAt'["main"] = "done"
          /\ netAt'["main"] # "create_upload"
      BY <1>2 DEF CreateOther, Net!WaitBits, Net!CreateMonitor, Net!Create,
           Net!Goto
    <2>3. netAt["monitor"] \in Passed => netAt'["monitor"] \in Passed
      BY <1>2 DEF CreateOther, Net!WaitBits, Net!CreateMonitor, Net!Create,
           Net!Goto, Passed, Net!AfterTasks
    <2> QED
      BY <2>1, <2>2, <2>3, NetAlone
  <1> QED
    BY <1>1, <1>2

\* app_main has the network, or goes on without one: the udp task begins with
\* its creation, on both sides, or on neither.
LEMMA NetworkKeepsDevice ==
  ASSUME Light!IndInv, Net!NetworkInv, DeviceInv, CreateUdp \/ NoNetwork
  PROVE  DeviceInv'
  <1> USE Places, Locations DEF Light!Tasks
  <1>1. /\ lightAt["main"] = "start_network" /\ lightAt["udp"] = "off"
        /\ lightAt'["main"] = "up"
        /\ UNCHANGED <<mutex, call, resets, boots>>
    BY DEF CreateUdp, NoNetwork, Light!StartNetwork, Net!Create,
           Net!Deinit, Light!channel
  <1>2. task["udp"] # "running" /\ mutex' = mutex
    BY <1>1 DEF DeviceInv, OneDevice, UdpLives
  <1>3. netAt'["monitor"] = netAt["monitor"] /\ netAt["main"] # "start"
    BY DEF CreateUdp, NoNetwork, Net!Create, Net!Deinit, Net!Goto
  <1>4. call["udp"] = "out"
    BY <1>1
  <1>5. CASE CreateUdp
    <2>1. lightAt'["udp"] = "socket" /\ task'["udp"] = "running"
      BY <1>5 DEF CreateUdp, Net!Create
    <2>2. netAt'["main"] = "create_upload"
      BY <1>5 DEF CreateUdp, Net!Create, Net!Goto
    <2>3. mutex # "udp"
      BY <1>1, <1>4 DEF DeviceInv, OwnerInside, Light!Critical
    <2> QED
      BY <1>1, <1>3, <1>4, <2>1, <2>2, <2>3 DEF DeviceInv, OneDevice, OwnerInside, UdpCreatedLast,
           LostOnlyByStop, Orphaned, UdpLives
  <1>6. CASE NoNetwork
    <2>1. lightAt'["udp"] = "off" /\ task' = task /\ netAt'["main"] = "done"
      BY <1>6 DEF NoNetwork, Net!Deinit, Net!Goto, Net!taskVars
    <2> QED
      BY <1>1, <1>2, <1>3, <2>1 DEF DeviceInv, OneDevice, OwnerInside,
           UdpCreatedLast, LostOnlyByStop, Orphaned, UdpLives
  <1> QED
    BY <1>5, <1>6

\* Without a socket the udp task ends outside of send_*_signal.
LEMMA EndKeepsDevice ==
  ASSUME Light!IndInv, Net!NetworkInv, DeviceInv, UdpEnds PROVE DeviceInv'
  <1> USE Places, Locations DEF Light!Tasks
  <1>1. lightAt["udp"] = "socket" /\ UNCHANGED <<mutex, call, resets, netAt, boots>>
    BY DEF UdpEnds, Light!Socket, Net!UdpGivesUp, Light!channel
  <1>2. lightAt'["udp"] = "dead" /\ lightAt'["main"] = lightAt["main"]
    BY DEF UdpEnds, Light!Socket, Light!Goto
  <1>3. task'["udp"] = "ended" /\ task["udp"] = "running"
    BY DEF UdpEnds, Net!UdpGivesUp
  <1>4. call["udp"] = "out" /\ UdpLives
    BY <1>1 DEF UdpLives
  <1>5. mutex # "udp"
    BY <1>1, <1>4 DEF DeviceInv, OwnerInside, Light!Critical
  <1> QED
    BY <1>1, <1>2, <1>3, <1>5 DEF DeviceInv, OneDevice, OwnerInside,
       UdpCreatedLast, LostOnlyByStop, Orphaned, UdpLives

\* stop_udp_server_task in main finds no task; in the monitor it deletes the
\* one there is, with the mutex if it comes to that.
LEMMA StopUdpKeepsDevice ==
  ASSUME Light!IndInv, Net!NetworkInv, DeviceInv,
         NEW t \in {"main", "monitor"}, StopUdp(t)
  PROVE  DeviceInv'
  <1> USE Places, Locations DEF Light!Tasks
  <1>1. /\ netAt[t] = "stop_udp"
        /\ netAt' = [netAt EXCEPT ![t] = "stop_upload"]
        /\ task' = [task EXCEPT !["udp"] = IF handle["udp"] /\ task["udp"] = "running"
                                           THEN "deleted" ELSE task["udp"]]
        /\ boots' = boots
    BY DEF StopUdp, StopUdpUnless, Net!StopUdp, Net!Stop, Net!StopIf, Net!Goto
  <1>2. task'["udp"] # "running"
    BY <1>1
  <1>3. CASE task["udp"] = "running"
    <2>1. /\ lightAt' = [lightAt EXCEPT !["udp"] = "dead"]
          /\ UNCHANGED <<mutex, resets>>
      BY <1>3 DEF StopUdp, StopUdpUnless, Light!NetworkStop, Light!Goto, Light!channel
    <2>2. t = "monitor"
      BY <1>1, <1>3 DEF DeviceInv, UdpCreatedLast
    <2>3. netAt'["monitor"] = "stop_upload" /\ netAt'["main"] = netAt["main"]
      BY <1>1, <2>2
    <2>4. task["udp"] # "none" /\ lightAt'["main"] = lightAt["main"]
      BY <1>3, <2>1
    <2> QED
      BY <1>1, <1>2, <2>1, <2>3, <2>4 DEF DeviceInv, OneDevice, OwnerInside, UdpCreatedLast,
           LostOnlyByStop, Orphaned, UdpLives
  <1>4. CASE task["udp"] # "running"
    <2>1. UNCHANGED lightVars /\ task' = task
      BY <1>1, <1>4 DEF StopUdp, StopUdpUnless
    <2>2. /\ netAt["main"] = "start" => netAt'["main"] = "start"
          /\ netAt'["main"] \notin {"create_upload", "done"}
                => netAt["main"] \notin {"create_upload", "done"}
          /\ netAt["monitor"] \in Passed => netAt'["monitor"] \in Passed
      BY <1>1 DEF Passed
    <2> QED
      BY <1>1, <2>1, <2>2, NetAlone
  <1> QED
    BY <1>3, <1>4

LEMMA StopOtherKeepsDevice ==
  ASSUME Light!IndInv, Net!NetworkInv, DeviceInv,
         NEW t \in {"main", "monitor"}, StopOther(t)
  PROVE  DeviceInv'
  <1> USE Places
  <1>1. UNCHANGED lightVars /\ boots' = boots /\ task'["udp"] = task["udp"]
    BY DEF StopOther, Net!StopOther, Net!Stop, Net!StopIf, Net!Unregister,
           Net!RadioOff, Net!Deinit, Net!taskVars
  <1>2. \E next \in {"stop_udp", "unregister", "radio_off", "deinit", "done"} :
            /\ netAt' = [netAt EXCEPT ![t] = next]
            /\ next = "done" => t = "monitor"
            /\ next = "stop_udp" => netAt[t] = "stop_ota"
            /\ netAt[t] \in {"stop_ota", "stop_upload", "unregister", "radio_off", "deinit"}
    BY DEF StopOther, Net!StopOther, Net!Stop, Net!StopIf, Net!Unregister,
           Net!RadioOff, Net!Deinit, Net!Goto
  <1>3. /\ netAt["main"] = "start" => netAt'["main"] = "start"
        /\ netAt'["main"] \notin {"create_upload", "done"}
              => netAt["main"] \notin {"create_upload", "done"}
        /\ netAt["monitor"] \in Passed => netAt'["monitor"] \in Passed
    BY <1>2 DEF Passed, Net!AfterTasks
  <1> QED
    BY <1>1, <1>3, NetAlone

LEMMA RestartKeepsDevice ==
  ASSUME DeviceInv, Restart PROVE DeviceInv'
  <1>1. lightAt'["udp"] = "off" /\ mutex' # "udp" /\ task'["udp"] = "none"
        /\ netAt'["main"] = "start"
    BY DEF Restart, Light!Restart, Light!PowerUpAt, Light!Tasks, Light!NoTask,
           Net!PowerUp, Net!AtBoot, Net!NetworkTasks
  <1>2. resets' = resets + 1 /\ boots' = boots + 1
    BY DEF Restart, Light!Restart, Net!PowerUp
  <1> QED
    BY <1>1, <1>2 DEF DeviceInv, OneDevice, OwnerInside, UdpCreatedLast,
       LostOnlyByStop, Orphaned, UdpLives

LEMMA InitDevice == Init => DeviceInv
  BY DEF Init, Light!Init, Light!PowerUpAt, Light!Tasks, Light!NoTask, Net!Init,
         Net!AtBoot, Net!NetworkTasks, DeviceInv, OneDevice, OwnerInside,
         UdpCreatedLast, LostOnlyByStop, Orphaned, UdpLives

LEMMA NextDevice ==
  Light!IndInv /\ Net!NetworkInv /\ DeviceInv /\ [Next]_vars => DeviceInv'
  <1> SUFFICES ASSUME Light!IndInv, Net!NetworkInv, DeviceInv, [Next]_vars
               PROVE  DeviceInv'
    OBVIOUS
  <1>1. CASE \E t \in Light!Tasks : Send(t)
    BY <1>1, SendKeepsDevice
  <1>2. CASE HoldOver \/ UdpGoesOn \/ Stimulus
    BY <1>2, OutsideKeepsDevice
  <1>3. CASE UdpEnds
    BY <1>3, EndKeepsDevice
  <1>4. CASE BootStep
    BY <1>4, BootKeepsDevice
  <1>5. CASE InitStation \/ CreateOther
    BY <1>5, MainKeepsDevice
  <1>6. CASE CreateUdp \/ NoNetwork
    BY <1>6, NetworkKeepsDevice
  <1>7. CASE Station \/ MonitorWakes
    BY <1>7, StationKeepsDevice
  <1>8. CASE WifiStop("main") \/ WifiStop("monitor")
    BY <1>8, StopUdpKeepsDevice, StopOtherKeepsDevice DEF WifiStop
  <1>9. CASE Restart
    BY <1>9, RestartKeepsDevice
  <1>10. CASE UNCHANGED vars
    BY <1>10 DEF vars, lightVars, netVars, DeviceInv, OneDevice, OwnerInside,
       UdpCreatedLast, LostOnlyByStop, Orphaned, UdpLives
  <1> QED
    BY <1>1, <1>2, <1>3, <1>4, <1>5, <1>6, <1>7, <1>8, <1>9, <1>10
       DEF Next, Main

-----------------------------------------------------------------------------
\* The udp task of the light is the one that app_main creates and wifi_stop
\* deletes, in every state of the device; it owns cmd_mutex only inside
\* send_*_signal.
THEOREM DeviceInvariance == Spec => []DeviceInv
  <1> QED
    BY InitDevice, NextDevice, LightInvariance, NetInvariance, PTL DEF Spec

\* cmd_mutex is orphaned only by the monitor, after the station was given up:
\* a udp server that ends for want of a socket, or a boot without a network,
\* never takes it along (udp_server.c:88-93, app_main.c:91-101).
THEOREM MutexLostOnlyByStop == Spec => []LostOnlyByStop
  <1>1. DeviceInv => LostOnlyByStop
    BY DEF DeviceInv
  <1> QED
    BY <1>1, DeviceInvariance, PTL

\* If app_main creates its tasks before the retries are used up, no datagram
\* is carried out any more when the monitor is through (app_main.c:103-117).
THEOREM NoCommandAfterStop ==
  ASSUME PromptMain
  PROVE  Spec => []QuietAfterStop
  <1>1. Light!IndInv /\ Net!NetworkInv /\ DeviceInv => QuietAfterStop
    BY Places, Locations DEF QuietAfterStop, DeviceInv, OneDevice, UdpLives
  <1> QED
    BY <1>1, DeviceInvariance, LightInvariance, NetInvariance, PTL

\* What an echo promises, TailLight's AcknowledgedIsDurable, holds with the
\* network coming and going: with a working flash an echoed O or S stays
\* stored until the next one is asked for.
THEOREM DeviceKeepsPromise ==
  Spec => []Light!AcknowledgedIsDurable
  <1>1. Light!IndInv => Light!AcknowledgedIsDurable
    BY DEF Light!IndInv, Light!FlashInv
  <1> QED
    BY <1>1, LightInvariance, PTL

\* The lamp of the device is the atomic register LampRegister, with the udp
\* task deleted in the middle of a command and restarts at any step
\* (send_*_signal, i2c.c).
THEOREM DeviceLampIsRegister == Spec => LightP!ImplementsRegister
  BY DeviceAssumption, LightSpec, LightP!ChannelRefinesRegister, PTL

=============================================================================
