------------------------------- MODULE BikeMcu -------------------------------
(***************************************************************************)
(* The whole device as app_main puts it together: the tail light           *)
(* (TailLight) and the network (Network), which meet at four places:       *)
(*   - app_main starts the light, Bluetooth and the detector before it     *)
(*     waits for the network;                                              *)
(*   - it creates the udp task, or comes up without it;                    *)
(*   - the udp task may end by itself, or is deleted by wifi_stop wherever *)
(*     it stands;                                                          *)
(*   - a restart takes both.                                               *)
(* What each component left open about the other is decided here.          *)
(***************************************************************************)
EXTENDS Naturals, Sequences

CONSTANTS
    UdpLetters, BleLetters, BusMayFail, StorageMayFail,    \* of TailLight
    MaximumRetry, PromptMain,                              \* of Network
    MaxResets                                              \* of both

VARIABLES
    lightAt, call, cmd, mutex, lastCommand, enable, request, lamp, delivered,
    stored, staged, acked, resets,
    netAt, bits, seen, retryNum, registered, events, link, task, handle,
    losses, misdeleted, boots

Light == INSTANCE TailLight WITH
    NetworkMayStop <- TRUE, at <- lightAt

Net == INSTANCE Network WITH
    SocketMayFail <- TRUE, MaxBoots <- MaxResets, at <- netAt

ASSUME DeviceAssumption == Light!ConstantsAssumption /\ Net!NetworkAssumption

lightVars == <<lightAt, call, cmd, mutex, lastCommand, enable, request, lamp,
               delivered, stored, staged, acked, resets>>
netVars == <<netAt, bits, seen, retryNum, registered, events, link, task,
             handle, losses, misdeleted, boots>>
vars == <<lightVars, netVars>>

Init == Light!Init /\ Net!Init

-----------------------------------------------------------------------------
(* app_main.                                                               *)

\* i2c_init, ble_init and the creation of the detector; app_main does one
\* thing after the other, and waits in wifi_init_sta.
BootStep ==
    /\ netAt["main"] = "start"
    /\ Light!LampTest \/ Light!LastState \/ Light!StartBle \/ Light!StartDetector
    /\ UNCHANGED netVars

InitStationAfter(here) ==
    /\ lightAt["main"] \in here
    /\ Net!WifiInitSta
    /\ UNCHANGED lightVars

\* Mutant of InitStation: the network is brought up before the detector.
InitStationFirst == InitStationAfter({"start_detector"})

\* wifi_init_sta comes last: "wifi is slow will pickup later".
InitStation == InitStationAfter({"start_network"})

CreateOther ==
    /\ \/ Net!WaitBits \/ Net!CreateMonitor
       \/ Net!Create("ota", "create_ota", "create_udp")
       \/ Net!Create("upload", "create_upload", "done")
    /\ UNCHANGED lightVars

CreateUdp ==
    /\ Net!Create("udp", "create_udp", "create_upload")
    /\ Light!StartNetwork
    /\ lightAt'["udp"] = "socket"

\* wifi_init_sta stopped the network itself and returns ESP_FAIL.
NoNetwork ==
    /\ Net!Deinit("main")
    /\ Light!StartNetwork
    /\ lightAt'["udp"] = "off"

-----------------------------------------------------------------------------
(* The udp task and wifi_stop.                                             *)

\* Mutant of UdpEnds: it ends in the middle of a command, too.
UdpEndsAnywhere == Net!UdpGivesUp /\ Light!NetworkStop

\* The udp task gets no socket: it leaves its loop, owning nothing.
UdpEnds ==
    /\ Net!UdpGivesUp
    /\ Light!Socket
    /\ lightAt'["udp"] = "dead"

UdpGoesOn ==
    /\ Light!UdpStep
    /\ lightAt'["udp"] # "dead"
    /\ UNCHANGED netVars

StopUdpUnless(t, spared) ==
    /\ Net!StopUdp(t)
    /\ IF task["udp"] = "running" /\ ~spared
       THEN Light!NetworkStop
       ELSE UNCHANGED lightVars

\* Mutant of StopUdp: a task that owns cmd_mutex is not deleted.
StopUdpSparing(t) == StopUdpUnless(t, mutex = "udp")

\* stop_udp_server_task deletes the task if there is one.
StopUdp(t) == StopUdpUnless(t, FALSE)

StopOther(t) ==
    /\ \/ Net!StopOther(t) \/ Net!Unregister(t) \/ Net!RadioOff(t)
       \/ t = "monitor" /\ Net!Deinit(t)
    /\ UNCHANGED lightVars

\* A power dip, a panic, esp_restart after an update.
Restart == Light!Restart /\ Net!PowerUp

-----------------------------------------------------------------------------
Send(t) == Light!SendStep(t) /\ UNCHANGED netVars
DetectorTakes == Light!Take("detector") /\ UNCHANGED netVars
HoldOver == Light!HoldOver /\ UNCHANGED netVars
Stimulus == Light!Stimulus /\ UNCHANGED netVars

Station == (Net!Driver \/ Net!Handler) /\ UNCHANGED lightVars
Main == BootStep \/ InitStation \/ CreateOther \/ CreateUdp \/ NoNetwork
MonitorWakes == Net!MonitorWakes /\ UNCHANGED lightVars
WifiStop(t) == StopUdp(t) \/ StopOther(t)

Next ==
    \/ \E t \in Light!Tasks : Send(t)
    \/ HoldOver \/ UdpGoesOn \/ UdpEnds \/ Stimulus
    \/ Main \/ Station \/ MonitorWakes
    \/ WifiStop("main") \/ WifiStop("monitor")
    \/ Restart

Spec == Init /\ [][Next]_vars

\* The tasks are scheduled, as in TailLight and Network; of the access point,
\* the driver and the network nothing is assumed.  The monitor outranks the
\* udp task, so a chance to delete it that comes again and again is taken.
Fairness ==
    /\ \A t \in Light!Tasks : WF_vars(Send(t))
    /\ SF_vars(DetectorTakes)
    /\ WF_vars(HoldOver)
    /\ WF_vars(BootStep)
    /\ SF_vars(StopUdp("monitor"))

FairSpec == Spec /\ Fairness

-----------------------------------------------------------------------------
(* Properties.                                                             *)

UdpLives == lightAt["udp"] \notin {"off", "dead"}

\* cmd_mutex is owned by a task that is gone.
Orphaned == mutex = "udp" /\ ~UdpLives

\* The udp task of the light is the one whose life the network manages, and
\* both components see app_main at the same place.
OneDevice ==
    /\ UdpLives <=> task["udp"] = "running"
    /\ netAt["main"] # "start" => lightAt["main"] \in {"start_network", "up"}
    /\ resets = boots

\* The mutex is lost only to a network that was really lost: the udp task
\* that ends by itself, for want of a socket, never takes it along.
LostOnlyByStop ==
    Orphaned => netAt["monitor"] \in {"stop_upload", "done"} \cup Net!AfterTasks

\* The udp task owns cmd_mutex only inside send_*_signal, or was deleted there.
OwnerInside ==
    mutex = "udp" => call["udp"] \in Light!Critical \/ lightAt["udp"] = "dead"

\* Until app_main creates it, and in a boot that goes on without the network,
\* there is no udp task: main never finds one to delete.
UdpCreatedLast ==
    netAt["main"] \notin {"create_upload", "done"} => task["udp"] = "none"

\* What the whole keeps, beyond the invariants of the two components.
DeviceInv == OneDevice /\ OwnerInside /\ UdpCreatedLast /\ LostOnlyByStop

\* When the monitor is through, no datagram is carried out any more.
QuietAfterStop ==
    netAt["monitor"] = "done" => ~UdpLives /\ call["udp"] = "out"

\* The device detects braking whether or not there is a network: the detector
\* is started in every boot, with an access point that never answers, too.
DetectorStarts == []<>(lightAt["detector"] # "off")

\* A detected braking reaches the lamp whatever the network does, unless the
\* chip restarts or cmd_mutex has been lost with the udp task.
BrakeLights ==
    lightAt["detector"] = "brake" ~>
        \/ call["detector"] = "give" /\ lamp = "B"
        \/ lightAt["detector"] = "off"
        \/ Orphaned

\* A station given up is stopped even while the udp task holds the lamp: the
\* monitor gets to delete it.
LossStopsUdp ==
    netAt["monitor"] = "stop_udp" ~> ~UdpLives
=============================================================================
