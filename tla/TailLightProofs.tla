--------------------------- MODULE TailLightProofs ---------------------------
(***************************************************************************)
(* Proofs about TailLight, for every set of letters, every combination of  *)
(* faults and any number of restarts.                                      *)
(*                                                                         *)
(* The argument is IndInv: cmd_mutex makes Take..Give exclusive            *)
(* (InsideSend), so no other task can assign lastCommand or move the lamp  *)
(* between a task's own assignment and its transfer.                       *)
(***************************************************************************)
EXTENDS TailLight, TLAPS

\* The groups of variables that a step leaves unchanged together.
USE DEF channel, flash

\* Reset state satisfies the invariant.
LEMMA InitIndInv == Init => IndInv
  <1> SUFFICES ASSUME Init PROVE IndInv
    OBVIOUS
  <1> USE DEF Init, PowerUpAt, Tasks, NoTask, Bytes, NoByte, Requests, Preferences
  <1>1. TypeOK
    BY DEF TypeOK, Locations, CallStates
  <1>2. InsideSend /\ TransmitsOwnCommand /\ LampFollowsLastCommand
    BY DEF InsideSend, TransmitsOwnCommand, LampFollowsLastCommand, Critical
  <1>3. FlashInv /\ BootOrder
    BY DEF FlashInv, StorageInOrder, ChoiceInProgress,
           AcknowledgedIsDurable, BootOrder
  <1>4. BootRestores
    BY DEF BootRestores
  <1> QED
    BY <1>1, <1>2, <1>3, <1>4 DEF IndInv

-----------------------------------------------------------------------------
(* send_*_signal.                                                          *)

LEMMA TakeKeepsIndInv ==
  ASSUME IndInv, NEW t \in Tasks, Take(t) PROVE IndInv'
  <1> USE DEF IndInv, Take, Lock
  <1>1. TypeOK'
    BY DEF TypeOK, CallStates
  <1>2. InsideSend'
    BY DEF TypeOK, InsideSend, Critical, NoTask, Tasks
  <1>3. TransmitsOwnCommand' /\ LampFollowsLastCommand'
    BY DEF TypeOK, TransmitsOwnCommand, LampFollowsLastCommand, NoTask, Tasks
  <1>4. FlashInv' /\ BootOrder'
    BY DEF TypeOK, FlashInv, StorageInOrder, ChoiceInProgress,
           AcknowledgedIsDurable, BootOrder
  <1>5. BootRestores'
    BY DEF TypeOK, BootRestores, Tasks
  <1> QED
    BY <1>1, <1>2, <1>3, <1>4, <1>5

LEMMA AssignKeepsIndInv ==
  ASSUME IndInv, NEW t \in Tasks, Assign(t) PROVE IndInv'
  <1> USE DEF IndInv, Assign, AssignUnder
  <1>0. mutex = t /\ cmd[t] \in Bytes
    BY DEF InsideSend, Critical
  <1>1. TypeOK'
    BY <1>0 DEF TypeOK, CallStates
  <1>2. InsideSend'
    BY <1>0 DEF TypeOK, InsideSend, Critical
  <1>3. TransmitsOwnCommand'
    BY <1>0 DEF TypeOK, TransmitsOwnCommand, InsideSend, Critical
  <1>4. LampFollowsLastCommand'
    BY <1>0 DEF LampFollowsLastCommand, NoTask, Tasks
  <1>5. FlashInv' /\ BootOrder'
    BY DEF TypeOK, FlashInv, StorageInOrder, ChoiceInProgress,
           AcknowledgedIsDurable, BootOrder
  <1>6. BootRestores'
    BY DEF TypeOK, BootRestores, Tasks
  <1> QED
    BY <1>1, <1>2, <1>3, <1>4, <1>5, <1>6

LEMMA TransmitKeepsIndInv ==
  ASSUME IndInv, NEW t \in Tasks, Transmit(t) PROVE IndInv'
  <1> USE DEF IndInv, Transmit
  <1>0. mutex = t /\ cmd[t] \in Bytes /\ lastCommand = cmd[t]
    BY DEF InsideSend, Critical, TransmitsOwnCommand
  <1>a. /\ delivered' \in BOOLEAN
        /\ lamp' \in {lamp, lastCommand}
        /\ delivered' => lamp' = lastCommand
    BY ConstantsAssumption DEF ConstantsAssumption
  <1>1. TypeOK'
    BY <1>0, <1>a DEF TypeOK, CallStates
  <1>2. InsideSend'
    BY <1>0, <1>a DEF TypeOK, InsideSend, Critical
  <1>3. TransmitsOwnCommand'
    BY <1>0 DEF TypeOK, TransmitsOwnCommand, InsideSend, Critical
  <1>4. LampFollowsLastCommand'
    BY <1>0 DEF LampFollowsLastCommand, NoTask, Tasks
  <1>5. FlashInv' /\ BootOrder'
    BY DEF TypeOK, FlashInv, StorageInOrder, ChoiceInProgress,
           AcknowledgedIsDurable, BootOrder
  <1>6. BootRestores'
    BY DEF TypeOK, BootRestores, Tasks
  <1> QED
    BY <1>1, <1>2, <1>3, <1>4, <1>5, <1>6

\* Where a task goes on depends on its call site only.
LEMMA AfterCallSite ==
  ASSUME TypeOK, NEW t \in Tasks, at[t] \in CallSites[t]
  PROVE  /\ After(t) \in Locations[t]
         /\ t = "udp" => After(t) = IF request \in Preferences THEN "open" ELSE "echo"
         /\ t = "main" => After(t) \notin {"start_network", "up"}
         /\ t \in {"ble", "udp", "detector"} => After(t) # "off"
  BY DEF TypeOK, Tasks, CallSites, After, AfterStoring, Locations

LEMMA GiveKeepsIndInv ==
  ASSUME IndInv, NEW t \in Tasks, Give(t) PROVE IndInv'
  <1> USE DEF IndInv, Give, GiveTo, Goto
  <1>0. /\ mutex = t
        /\ at[t] \in CallSites[t]
        /\ delivered => lamp = lastCommand
    BY DEF InsideSend, Critical
  <1>a. /\ After(t) \in Locations[t]
        /\ t = "udp" => After(t) = IF request \in Preferences THEN "open" ELSE "echo"
    BY <1>0, AfterCallSite
  <1>1. TypeOK'
    BY <1>a DEF TypeOK, CallStates
  <1>2. InsideSend'
    BY <1>0 DEF TypeOK, InsideSend, Critical
  <1>3. TransmitsOwnCommand' /\ LampFollowsLastCommand'
    BY <1>0 DEF TypeOK, TransmitsOwnCommand, LampFollowsLastCommand
  <1>4. FlashInv'
    BY <1>0, <1>a
    DEF TypeOK, FlashInv, StorageInOrder, ChoiceInProgress,
        AcknowledgedIsDurable, Tasks, CallSites
  <1>5. BootOrder'
    <2>1. t = "main" => at["ble"] = "off" /\ at["detector"] = "off" /\ at["udp"] = "off"
      BY <1>0 DEF BootOrder, CallSites
    <2>2. t # "main" => at[t] # "off"
      BY <1>0 DEF CallSites, Tasks
    <2> QED
      BY <2>1, <2>2 DEF TypeOK, BootOrder, Tasks
  <1>6. BootRestores'
    BY <1>0 DEF TypeOK, BootRestores, Tasks
  <1> QED
    BY <1>1, <1>2, <1>3, <1>4, <1>5, <1>6

-----------------------------------------------------------------------------
(* The steps outside of send_*_signal, by what they do to the channel: a   *)
(* step enters a send_*_signal at one of the task's call sites, or leaves  *)
(* the channel and every task inside it alone.                             *)

ChannelInv == InsideSend /\ TransmitsOwnCommand /\ LampFollowsLastCommand

LEMMA EnterKeepsChannel ==
  ASSUME IndInv, NEW t \in Tasks, NEW b \in Bytes, Enter(t, b),
         NEW loc \in CallSites[t], at' = [at EXCEPT ![t] = loc],
         UNCHANGED <<mutex, lastCommand, delivered, lamp>>
  PROVE  ChannelInv'
  <1> USE DEF IndInv, Enter
  <1>1. InsideSend'
    BY DEF TypeOK, InsideSend, Critical
  <1>2. TransmitsOwnCommand' /\ LampFollowsLastCommand'
    BY DEF TypeOK, TransmitsOwnCommand, LampFollowsLastCommand
  <1> QED
    BY <1>1, <1>2 DEF ChannelInv

LEMMA OutsideKeepsChannel ==
  ASSUME IndInv, \A t \in Tasks : call[t] # "out" => at'[t] = at[t],
         UNCHANGED <<call, cmd, mutex, lastCommand, delivered, lamp>>
  PROVE  ChannelInv'
  BY DEF IndInv, ChannelInv, InsideSend, TransmitsOwnCommand, LampFollowsLastCommand

\* A task is outside of send_*_signal wherever it is not at a call site.
LEMMA OutsideCallSites ==
  ASSUME IndInv, NEW t \in Tasks, at[t] \notin CallSites[t]
  PROVE  call[t] = "out"
  BY DEF IndInv, InsideSend

LEMMA LampTestKeepsIndInv ==
  ASSUME IndInv, LampTest PROVE IndInv'
  <1> USE DEF IndInv, LampTest
  <1>1. TestByte[at["main"]] \in Bytes /\ at["main"] \in CallSites["main"]
    BY DEF TestByte, Bytes, CallSites
  <1>2. at' = [at EXCEPT !["main"] = at["main"]]
    BY DEF TypeOK
  <1>3. ChannelInv'
    BY <1>1, <1>2, EnterKeepsChannel DEF Tasks
  <1>4. TypeOK'
    BY <1>1 DEF TypeOK, Enter, CallStates
  <1>5. FlashInv' /\ BootOrder'
    BY DEF TypeOK, FlashInv, StorageInOrder, ChoiceInProgress,
           AcknowledgedIsDurable, BootOrder
  <1>6. BootRestores'
    BY DEF TestByte, BootRestores
  <1> QED
    BY <1>3, <1>4, <1>5, <1>6 DEF ChannelInv

LEMMA LastStateKeepsIndInv ==
  ASSUME IndInv, LastState PROVE IndInv'
  <1> USE DEF IndInv, LastState, Restore
  <1>1. PICK b \in {"N", "O"} : Enter("main", b)
    OBVIOUS
  <1>2. at["main"] \in CallSites["main"] /\ b \in Bytes /\ enable' \in BOOLEAN
    BY DEF Bytes, CallSites, TypeOK
  <1>3. at' = [at EXCEPT !["main"] = at["main"]]
    BY DEF TypeOK
  <1>4. ChannelInv'
    BY <1>1, <1>2, <1>3, EnterKeepsChannel DEF Tasks
  <1>5. TypeOK'
    BY <1>1, <1>2 DEF TypeOK, Enter, CallStates
  <1>6. FlashInv' /\ BootOrder'
    BY DEF FlashInv, StorageInOrder, ChoiceInProgress,
           AcknowledgedIsDurable, BootOrder
  <1>7. BootRestores'
    BY ConstantsAssumption DEF ConstantsAssumption, TypeOK, FlashInv,
           AcknowledgedIsDurable, BootRestores, Enter, Tasks, NoByte
  <1> QED
    BY <1>4, <1>5, <1>6, <1>7 DEF ChannelInv

LEMMA StartKeepsIndInv ==
  ASSUME IndInv, StartBle \/ StartDetector \/ StartNetwork PROVE IndInv'
  <1> USE DEF IndInv, StartBle, StartDetector, StartNetwork
  <1>1. \A t \in Tasks : call[t] # "out" => at'[t] = at[t]
    <2>1. call["main"] = "out"
      BY OutsideCallSites DEF CallSites, Tasks
    <2>2. \A t \in {"ble", "detector", "udp"} : at'[t] # at[t] => at[t] = "off"
      BY DEF BootOrder, TypeOK, Tasks
    <2>3. \A t \in {"ble", "detector", "udp"} : at[t] = "off" => call[t] = "out"
      BY OutsideCallSites DEF CallSites, Tasks
    <2> QED
      BY <2>1, <2>2, <2>3 DEF Tasks
  <1>2. ChannelInv'
    BY <1>1, OutsideKeepsChannel
  <1>3. TypeOK'
    BY DEF TypeOK, Locations, Tasks
  <1>4. FlashInv' /\ BootOrder'
    BY DEF TypeOK, FlashInv, StorageInOrder, ChoiceInProgress,
           AcknowledgedIsDurable, BootOrder, Tasks
  <1>5. BootRestores'
    BY DEF TypeOK, BootRestores, Tasks
  <1> QED
    BY <1>2, <1>3, <1>4, <1>5 DEF ChannelInv

\* A task other than main that is running comes to a call site and enters.
LEMMA CallKeepsIndInv ==
  ASSUME IndInv, NEW t \in Tasks \ {"main"}, at[t] # "off",
         NEW b \in Bytes, NEW loc \in CallSites[t],
         Goto(t, loc), Enter(t, b),
         UNCHANGED <<channel, enable, stored, staged, resets>>,
         \/ t # "udp" /\ UNCHANGED <<request, acked>>
         \/ /\ t = "udp" /\ at[t] = "receive" /\ request' \in Requests
            /\ acked' = IF request' \in Preferences THEN NoByte ELSE acked
  PROVE  IndInv'
  <1> USE DEF IndInv, Goto
  <1>1. ChannelInv'
    BY EnterKeepsChannel
  <1>2. loc \in Locations[t] /\ loc # "off"
    BY DEF CallSites, Locations, Tasks
  <1>3. TypeOK'
    BY <1>2 DEF TypeOK, Enter, CallStates
  <1>4. t = "udp" => loc = "command"
    BY DEF CallSites
  <1>5. FlashInv'
    BY <1>4 DEF TypeOK, FlashInv, StorageInOrder, ChoiceInProgress,
           AcknowledgedIsDurable, Tasks
  <1>6. BootOrder'
    BY <1>2 DEF TypeOK, BootOrder, Tasks
  <1>7. BootRestores'
    BY DEF TypeOK, BootOrder, BootRestores, Enter, Tasks
  <1> QED
    BY <1>1, <1>3, <1>5, <1>6, <1>7 DEF ChannelInv

LEMMA HoldOverKeepsIndInv ==
  ASSUME IndInv, HoldOver PROVE IndInv'
  <1>1. PICK b \in {"N", "O"} : Enter("detector", b)
    BY DEF HoldOver, HoldOverIf
  <1> QED
    BY <1>1, CallKeepsIndInv DEF HoldOver, HoldOverIf, Tasks, CallSites, Bytes

\* The udp task at work outside of send_*_signal.
LEMMA UdpKeepsIndInv ==
  ASSUME IndInv, UdpStep \/ OtherDatagram PROVE IndInv'
  <1> USE DEF IndInv, UdpStep, OtherDatagram, Socket, StorageOpen, StorageSet, SetThen,
              StorageCommit, StorageClose, Echo, Goto
  <1>1. /\ at["udp"] \notin CallSites["udp"] /\ at["udp"] # "off"
        /\ \E loc \in {"set", "echo", "commit", "close", "receive",
                              "socket", "dead"} :
              at' = [at EXCEPT !["udp"] = loc]
    BY DEF CallSites
  <1>2. ChannelInv'
    <2>1. \A t \in Tasks : call[t] # "out" => at'[t] = at[t]
      BY <1>1, OutsideCallSites DEF TypeOK, Tasks
    <2> QED
      BY <2>1, OutsideKeepsChannel
  <1>3. at["udp"] = "set" => request \in Preferences
    BY DEF FlashInv, StorageInOrder
  <1>4. TypeOK'
    BY <1>1, <1>3 DEF TypeOK, Locations, Tasks
  <1>5. StorageInOrder'
    <2> USE ConstantsAssumption
        DEF ConstantsAssumption, TypeOK, FlashInv, StorageInOrder, Tasks
    <2>1. CASE UdpStep
      BY <2>1
    <2>2. CASE OtherDatagram
      BY <2>2 DEF Preferences, NoByte
    <2> QED
      BY <2>1, <2>2
  <1>a. StorageMayFail \in BOOLEAN /\ NoByte \notin Preferences
    BY ConstantsAssumption DEF ConstantsAssumption, NoByte, Preferences
  <1>6. ChoiceInProgress' /\ AcknowledgedIsDurable'
    <2> USE <1>a DEF TypeOK, FlashInv, StorageInOrder, ChoiceInProgress,
                  AcknowledgedIsDurable, Tasks
    <2>1. CASE Socket
      BY <2>1
    <2>2. CASE StorageOpen
      BY <2>2
    <2>3. CASE StorageSet
      BY <2>3
    <2>4. CASE StorageCommit
      BY <2>4
    <2>5. CASE StorageClose
      BY <2>5
    <2>6. CASE Echo
      BY <2>6
    <2>7. CASE OtherDatagram
      BY <2>7
    <2> QED
      BY <2>1, <2>2, <2>3, <2>4, <2>5, <2>6, <2>7
  <1>7. BootOrder'
    BY <1>1 DEF TypeOK, BootOrder, Tasks
  <1>8. BootRestores'
    BY <1>1 DEF TypeOK, BootOrder, BootRestores, Tasks
  <1> QED
    BY <1>2, <1>4, <1>5, <1>6, <1>7, <1>8 DEF ChannelInv, FlashInv

LEMMA StimulusKeepsIndInv ==
  ASSUME IndInv, Stimulus PROVE IndInv'
  <1>1. CASE DetectBrake
    BY <1>1, CallKeepsIndInv DEF DetectBrake, Tasks, CallSites, Bytes
  <1>2. ASSUME NEW b \in BleLetters, BleNotify(b) PROVE IndInv'
    <2>1. b \in Bytes
      BY ConstantsAssumption DEF ConstantsAssumption, Bytes
    <2> QED
      BY <1>2, <2>1, CallKeepsIndInv DEF BleNotify, Tasks, CallSites
  <1>3. ASSUME NEW letter \in UdpLetters, UdpReceive(letter) PROVE IndInv'
    <2>1. letter \in Requests /\ (letter # "S" => letter \in Bytes)
      BY ConstantsAssumption DEF ConstantsAssumption, Requests, Bytes
    <2>2. PICK b \in Bytes : Enter("udp", b)
      BY <1>3, <2>1 DEF UdpReceive, Bytes
    <2> QED
      BY <1>3, <2>1, <2>2, CallKeepsIndInv DEF UdpReceive, Tasks, CallSites
  <1>4. CASE OtherDatagram
    BY <1>4, UdpKeepsIndInv
  <1> QED
    BY <1>1, <1>2, <1>3, <1>4 DEF Stimulus

LEMMA NetworkStopKeepsIndInv ==
  ASSUME IndInv, NetworkStop PROVE IndInv'
  <1> USE DEF IndInv, NetworkStop, Goto
  <1>1. TypeOK'
    BY DEF TypeOK, Locations, CallStates, Tasks
  <1>2. InsideSend'
    BY DEF TypeOK, InsideSend, Critical
  <1>3. TransmitsOwnCommand' /\ LampFollowsLastCommand'
    BY DEF TypeOK, TransmitsOwnCommand, LampFollowsLastCommand
  <1>4. FlashInv'
    BY DEF TypeOK, FlashInv, StorageInOrder, ChoiceInProgress,
           AcknowledgedIsDurable, Tasks, NoByte, Preferences
  <1>5. BootOrder'
    BY DEF TypeOK, BootOrder, Tasks
  <1>6. BootRestores'
    BY DEF TypeOK, BootRestores, Tasks
  <1> QED
    BY <1>1, <1>2, <1>3, <1>4, <1>5, <1>6

LEMMA RestartKeepsIndInv ==
  ASSUME IndInv, Restart PROVE IndInv'
  <1> USE DEF IndInv, Restart, PowerUpAt
  <1>1. TypeOK'
    BY ConstantsAssumption
    DEF ConstantsAssumption, TypeOK, Locations, CallStates, Tasks, NoTask
  <1>2. /\ InsideSend' /\ TransmitsOwnCommand' /\ LampFollowsLastCommand'
        /\ BootOrder'
    BY DEF InsideSend, TransmitsOwnCommand, LampFollowsLastCommand, Critical,
           BootOrder, Tasks
  <1>3. BootRestores'
    BY DEF BootRestores, Tasks
  <1>4. ~StorageMayFail /\ acked # NoByte => stored' = stored
    BY DEF FlashInv, ChoiceInProgress
  <1>5. FlashInv'
    BY <1>4 DEF FlashInv, StorageInOrder, ChoiceInProgress,
           AcknowledgedIsDurable, Tasks, NoByte, Preferences
  <1> QED
    BY <1>1, <1>2, <1>3, <1>5

-----------------------------------------------------------------------------
(* The theorems.                                                           *)

\* Every step of every task, and every fault, preserves the invariant.
LEMMA NextIndInv == IndInv /\ [Next]_vars => IndInv'
  <1> SUFFICES ASSUME IndInv, [Next]_vars PROVE IndInv'
    OBVIOUS
  <1>1. ASSUME NEW t \in Tasks, SendStep(t) PROVE IndInv'
    BY <1>1, TakeKeepsIndInv, AssignKeepsIndInv, TransmitKeepsIndInv,
       GiveKeepsIndInv DEF SendStep
  <1>2. CASE MainStep
    BY <1>2, LampTestKeepsIndInv, LastStateKeepsIndInv, StartKeepsIndInv
    DEF MainStep
  <1>3. CASE HoldOver
    BY <1>3, HoldOverKeepsIndInv
  <1>4. CASE UdpStep
    BY <1>4, UdpKeepsIndInv
  <1>5. CASE Stimulus
    BY <1>5, StimulusKeepsIndInv
  <1>6. CASE NetworkStop
    BY <1>6, NetworkStopKeepsIndInv
  <1>7. CASE Restart
    BY <1>7, RestartKeepsIndInv
  <1>8. CASE UNCHANGED vars
    BY <1>8
    DEF vars, IndInv, TypeOK, InsideSend, TransmitsOwnCommand,
        LampFollowsLastCommand, BootRestores, FlashInv, StorageInOrder, ChoiceInProgress,
           AcknowledgedIsDurable, BootOrder
  <1> QED
    BY <1>1, <1>2, <1>3, <1>4, <1>5, <1>6, <1>7, <1>8 DEF Next

\* The invariant of the channel: TypeOK and the discipline of cmd_mutex hold
\* in every reachable state, whatever fails and however often it restarts.
THEOREM Invariance == Spec => []IndInv
  <1> QED
    BY InitIndInv, NextIndInv, PTL DEF Spec

\* Every variable keeps its type (i2c.c, storage.c, the tasks' locations).
THEOREM TypeCorrect == Spec => []TypeOK
  <1>1. IndInv => TypeOK
    BY DEF IndInv
  <1> QED
    BY <1>1, Invariance, PTL

\* led_write_byte sends the byte of the function that was called, although it
\* reads the global lastCommand back (i2c.c, send_*_signal).
THEOREM OwnCommandIsSent == Spec => []TransmitsOwnCommand
  <1>1. IndInv => TransmitsOwnCommand
    BY DEF IndInv
  <1> QED
    BY <1>1, Invariance, PTL

\* lastCommand tells what the lamp shows whenever cmd_mutex is free and the
\* last transfer did not fail.
THEOREM LampIsLastCommand == Spec => []LampFollowsLastCommand
  <1>1. IndInv => LampFollowsLastCommand
    BY DEF IndInv
  <1> QED
    BY <1>1, Invariance, PTL

\* With a working flash an echoed O or S is stored until the next one is asked
\* for, whatever restarts or deletions come between (command_handler stores
\* before sendto in udp_server_task).
THEOREM EchoMeansStored == Spec => []AcknowledgedIsDurable
  <1>1. IndInv => AcknowledgedIsDurable
    BY DEF IndInv, FlashInv
  <1> QED
    BY <1>1, Invariance, PTL

\* The boot sequence ends with the light of the last acknowledged preference:
\* the byte it is sending (BootRestores) is the one that is transmitted.
THEOREM BootKeepsPromise == Spec => []BootShowsChoice
  <1>1. IndInv => BootShowsChoice
    BY DEF IndInv, BootRestores, TransmitsOwnCommand, BootShowsChoice,
           Tasks
  <1> QED
    BY <1>1, Invariance, PTL

-----------------------------------------------------------------------------
(* What a step does to the lamp.                                           *)

\* Only a transfer changes the lamp, and only to the byte of its own task.
LEMMA LampChange ==
  ASSUME IndInv, Next, lamp' # lamp
  PROVE  \E t \in Tasks : Transmit(t) /\ lamp' = cmd[t]
  <1>1. PICK t \in Tasks : Transmit(t)
    BY DEF Next, SendStep, Take, Lock, Assign, AssignUnder, Give, GiveTo, MainStep, LampTest, LastState, Restore,
           StartBle, StartDetector, StartNetwork, HoldOver, HoldOverIf, UdpStep, Socket,
           StorageOpen, StorageSet, SetThen, StorageCommit, StorageClose, Echo, Stimulus,
           DetectBrake, BleNotify, UdpReceive, OtherDatagram,
           NetworkStop, Restart
  <1>2. lamp' = lastCommand /\ call[t] = "transmit"
    BY <1>1 DEF Transmit
  <1> QED
    BY <1>1, <1>2 DEF IndInv, TransmitsOwnCommand

\* During the hold only a datagram or a notification turns the brake light
\* off: main has left i2c_init and the detector itself is in its delay.
THEOREM HoldIsKept == Spec => HoldEndsOnlyByCommand
  <1> DEFINE Kept == at["detector"] = "hold" /\ lamp = "B" /\ lamp' # "B" =>
                        \E t \in {"udp", "ble"} :
                            call[t] = "transmit" /\ cmd[t] = lamp'
  <1>1. IndInv /\ [Next]_vars => [Kept]_vars
    <2> SUFFICES ASSUME IndInv, Next, at["detector"] = "hold", lamp = "B",
                        lamp' # "B"
                 PROVE  \E t \in {"udp", "ble"} :
                            call[t] = "transmit" /\ cmd[t] = lamp'
      OBVIOUS
    <2>1. PICK t \in Tasks : call[t] = "transmit" /\ cmd[t] = lamp'
      BY LampChange DEF Transmit
    <2>2. at["detector"] \notin CallSites["detector"]
      BY DEF CallSites
    <2>3. at["main"] \notin CallSites["main"]
      BY DEF IndInv, BootOrder, CallSites
    <2>4. t # "detector" /\ t # "main"
      BY <2>1, <2>2, <2>3, OutsideCallSites DEF Tasks
    <2> QED
      BY <2>1, <2>4 DEF Tasks
  <1> QED
    BY <1>1, Invariance, PTL DEF Spec, HoldEndsOnlyByCommand

-----------------------------------------------------------------------------
(* TailLight implements LampRegister.                                      *)

LEMMA InitRefines == Init => Register!Init
  BY DEF Init, Register!Init, pending

\* A task that enters send_*_signal makes a request.
LEMMA EnterRefines ==
  ASSUME IndInv, NEW t \in Tasks, NEW b \in Bytes, Enter(t, b), UNCHANGED lamp
  PROVE  Register!Request(t, b)
  BY DEF IndInv, TypeOK, Enter, Register!Request, pending

\* Outside of the channel nothing happens to the register.
LEMMA OutsideRefines ==
  ASSUME UNCHANGED <<call, cmd, lamp>> PROVE UNCHANGED Register!vars
  BY DEF Register!vars, pending

\* In the channel only the transfer shows.
LEMMA SendRefines ==
  ASSUME IndInv, NEW t \in Tasks, SendStep(t) PROVE [Register!Next]_Register!vars
  <1>1. CASE Take(t)
    BY <1>1 DEF IndInv, TypeOK, Take, Lock, Register!vars, pending
  <1>2. CASE Assign(t)
    BY <1>2 DEF IndInv, TypeOK, Assign, AssignUnder, Register!vars, pending
  <1>3. CASE Give(t)
    BY <1>3 DEF IndInv, TypeOK, Give, GiveTo, Register!vars, pending
  <1>4. CASE Transmit(t)
    <2>1. /\ pending[t] = cmd[t] /\ cmd[t] \in Bytes /\ lastCommand = cmd[t]
          /\ pending' = [pending EXCEPT ![t] = NoByte]
      BY <1>4
      DEF IndInv, TypeOK, InsideSend, TransmitsOwnCommand, Transmit, pending
    <2>2. cmd[t] # NoByte
      BY <2>1 DEF Bytes, NoByte
    <2>3. CASE lamp' = lastCommand
      BY <2>1, <2>2, <2>3 DEF Register!Next, Register!Serve
    <2>4. CASE lamp' = lamp
      BY <2>1, <2>2, <2>4 DEF Register!Next, Register!Lose
    <2> QED
      BY <1>4, <2>3, <2>4 DEF Transmit
  <1> QED
    BY <1>1, <1>2, <1>3, <1>4 DEF SendStep

LEMMA StopRefines ==
  ASSUME IndInv, NetworkStop PROVE [Register!Next]_Register!vars
  <1>1. pending' = [pending EXCEPT !["udp"] = NoByte] /\ UNCHANGED lamp
    BY DEF IndInv, TypeOK, NetworkStop, pending
  <1>2. CASE pending["udp"] = NoByte
    BY <1>1, <1>2 DEF Register!vars, pending
  <1>3. CASE pending["udp"] # NoByte
    BY <1>1, <1>3 DEF Register!Next, Register!Lose, Tasks
  <1> QED
    BY <1>2, <1>3

LEMMA NextRefines == IndInv /\ [Next]_vars => [Register!Next]_Register!vars
  <1> SUFFICES ASSUME IndInv, [Next]_vars PROVE [Register!Next]_Register!vars
    OBVIOUS
  <1>1. ASSUME NEW t \in Tasks, SendStep(t) PROVE [Register!Next]_Register!vars
    BY <1>1, SendRefines
  <1>2. ASSUME NEW t \in Tasks, NEW b \in Bytes, Enter(t, b), UNCHANGED lamp
        PROVE  Register!Next
    BY <1>2, EnterRefines DEF Register!Next
  <1>3. CASE LampTest
    BY <1>2, <1>3 DEF LampTest, TestByte, Tasks, Bytes
  <1>4. CASE LastState
    BY <1>2, <1>4 DEF LastState, Restore, Tasks, Bytes
  <1>5. CASE HoldOver
    BY <1>2, <1>5 DEF HoldOver, HoldOverIf, Tasks, Bytes
  <1>6. CASE Stimulus /\ ~OtherDatagram
    BY <1>2, <1>6, ConstantsAssumption
    DEF Stimulus, DetectBrake, BleNotify, UdpReceive, ConstantsAssumption,
        Tasks, Bytes
  <1>7. CASE StartBle \/ StartDetector \/ StartNetwork \/ UdpStep \/ OtherDatagram
    BY <1>7, OutsideRefines
    DEF StartBle, StartDetector, StartNetwork, UdpStep, OtherDatagram, Socket, StorageOpen,
        StorageSet, SetThen, StorageCommit, StorageClose, Echo
  <1>8. CASE NetworkStop
    BY <1>8, StopRefines
  <1>9. CASE Restart
    BY <1>9 DEF Restart, Register!Next, Register!Restart, pending
  <1>10. CASE UNCHANGED vars
    BY <1>10, OutsideRefines DEF vars
  <1> QED
    BY <1>1, <1>3, <1>4, <1>5, <1>6, <1>7, <1>8, <1>9, <1>10 DEF Next, MainStep

\* The lamp shows only bytes a task asked for and was waiting to have shown,
\* each in one step: the five steps of send_*_signal act as one.
THEOREM ChannelRefinesRegister == Spec => ImplementsRegister
  <1> QED
    BY InitRefines, NextRefines, Invariance, PTL
    DEF Spec, ImplementsRegister, Register!Spec
=============================================================================
