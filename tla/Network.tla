------------------------------- MODULE Network -------------------------------
(***************************************************************************)
(* The network side of app_main.c and wifi_connect.c: the station comes up *)
(* or is given up, the network tasks (ota, udp server, upload) are created *)
(* and, when the access point is lost for good, deleted again.             *)
(*                                                                         *)
(*   main      wifi_init_sta and what app_main creates after it;           *)
(*   sys_evt   the event loop task, which runs event_handler on the events *)
(*             the Wi-Fi driver and the IP stack have posted, in order;    *)
(*   monitor   stop_network_task;                                          *)
(*   ota, udp, upload: when they begin, end and are deleted.               *)
(* The driver, the IP stack and the access point are the environment.      *)
(***************************************************************************)
EXTENDS Naturals, Sequences

CONSTANTS
    MaximumRetry,    \* ESP_MAXIMUM_RETRY
    PromptMain,      \* app_main creates its tasks before the connection that
                     \* let it go on has been lost for the MaximumRetry-th
                     \* time with no address in between
    SocketMayFail,   \* socket() may fail in the udp server
    MaxBoots         \* bound on the restarts

ASSUME NetworkAssumption ==
    /\ MaximumRetry \in Nat
    /\ PromptMain \in BOOLEAN
    /\ SocketMayFail \in BOOLEAN
    /\ MaxBoots \in Nat

NetworkTasks == {"ota", "udp", "upload"}
Bits == {"CONNECTED", "FAIL"}
Events == {"START", "DISCONNECTED", "GOT_IP"}

\* The steps of wifi_stop, in order; main and the monitor both call it.
StopSteps == {"stop_ota", "stop_udp", "stop_upload", "unregister",
              "radio_off", "deinit"}
AfterTasks == {"unregister", "radio_off", "deinit"}
CreateSteps == {"create_monitor", "create_ota", "create_udp", "create_upload"}

VARIABLES
    at,          \* at[t]: where main and the monitor stand
    bits,        \* s_wifi_event_group
    seen,        \* the bits main's xEventGroupWaitBits returns, or {}
    retryNum,    \* s_retry_num
    registered,  \* event_handler is registered
    events,      \* the queue of the event loop
    link,        \* the state of the driver
    task,        \* task[n]: none, running, ended (by itself) or deleted
    handle,      \* handle[n]: the task handle of app_main.c is not NULL
    losses,      \* observed: disconnections handled since the last address,
                 \* counted up to MaximumRetry + 1
    misdeleted,  \* observed: vTaskDelete was called on a task that had ended
    boots

bitVars == <<bits, seen>>
stationVars == <<retryNum, registered, losses>>
taskVars == <<task, handle, misdeleted>>
vars == <<at, bitVars, stationVars, events, link, taskVars, boots>>

-----------------------------------------------------------------------------
AtBoot == [t \in {"main", "monitor"} |-> IF t = "main" THEN "start" ELSE "none"]

Init ==
    /\ at = AtBoot
    /\ bits = {} /\ seen = {}
    /\ retryNum = 0 /\ losses = 0 /\ registered = FALSE
    /\ events = <<>> /\ link = "off"
    /\ task = [n \in NetworkTasks |-> "none"]
    /\ handle = [n \in NetworkTasks |-> FALSE]
    /\ misdeleted = FALSE
    /\ boots = 0

Goto(t, loc) == at' = [at EXCEPT ![t] = loc]

-----------------------------------------------------------------------------
(* The Wi-Fi driver and the IP stack.                                      *)

\* The link changes from one of some states, and that is posted.
LinkStep(from, to, posted) ==
    /\ link \in from
    /\ link' = to
    /\ events' = events \o posted
    /\ UNCHANGED <<at, bitVars, stationVars, taskVars, boots>>

Associate == LinkStep({"connecting"}, "associated", <<>>)

Address == LinkStep({"associated"}, "online", <<"GOT_IP">>)

\* An attempt fails or the connection is lost.
Lost == LinkStep({"connecting", "associated", "online"}, "idle",
                 <<"DISCONNECTED">>)

-----------------------------------------------------------------------------
(* event_handler.                                                          *)

\* xEventGroupSetBits: a task that waits for one of the bits is given the
\* value they have now.
SetBit(b) ==
    /\ bits' = bits \cup {b}
    /\ seen' = IF at["main"] = "wait" /\ seen = {} THEN bits' ELSE seen

\* esp_wifi_connect: the driver begins an attempt unless it is stopped.
Connect == link' = IF link = "idle" THEN "connecting" ELSE link

HandleEvent(e) ==
    /\ events # <<>> /\ Head(events) = e
    /\ events' = Tail(events)
    /\ UNCHANGED <<at, registered, taskVars, boots>>

HandleStart ==
    /\ HandleEvent("START")
    /\ IF registered THEN Connect ELSE UNCHANGED link
    /\ UNCHANGED <<bitVars, stationVars>>

\* app_main has the connection and not yet created all the tasks.
Creating ==
    \/ at["main"] \in CreateSteps
    \/ at["main"] = "wait" /\ seen # {}

CountLoss == losses' = IF losses > MaximumRetry THEN losses ELSE losses + 1

\* A disconnection: retry up to n times, counting by step, then say so and,
\* if told to, try all the same.
DisconnectedUpTo(n, step, again) ==
    /\ HandleEvent("DISCONNECTED")
    /\ PromptMain /\ Creating => losses < MaximumRetry
    /\ \/ /\ registered /\ retryNum < n
          /\ Connect /\ CountLoss
          /\ retryNum' = retryNum + step
          /\ UNCHANGED bitVars
       \/ /\ registered /\ retryNum >= n
          /\ SetBit("FAIL") /\ CountLoss
          /\ IF again THEN Connect ELSE UNCHANGED link
          /\ UNCHANGED retryNum
       \/ ~registered /\ UNCHANGED <<bitVars, link, retryNum, losses>>

\* Mutants of HandleDisconnected: one retry too many; the retries are not
\* counted; it tries again after giving up.
HandleOneMore == DisconnectedUpTo(MaximumRetry + 1, 1, FALSE)
HandleUncounted == DisconnectedUpTo(MaximumRetry, 0, FALSE)
HandleTriesOn == DisconnectedUpTo(MaximumRetry, 1, TRUE)

HandleDisconnected == DisconnectedUpTo(MaximumRetry, 1, FALSE)

\* An address: the retries go on from n.
GotIpFrom(n) ==
    /\ HandleEvent("GOT_IP")
    /\ IF registered
       THEN retryNum' = n /\ losses' = 0 /\ SetBit("CONNECTED")
       ELSE UNCHANGED <<bitVars, retryNum, losses>>
    /\ UNCHANGED link

\* Mutant of HandleGotIp: s_retry_num is not reset.
HandleGotIpKeepsCount == GotIpFrom(retryNum)

HandleGotIp == GotIpFrom(0)

-----------------------------------------------------------------------------
(* The main task.                                                          *)

\* main waits for the station, the monitor is where it is said to be.
Start(monitor) ==
    /\ at["main"] = "start"
    /\ at' = [at EXCEPT !["main"] = "wait", !["monitor"] = monitor]
    /\ registered' = TRUE
    /\ link' = "idle"
    /\ events' = Append(events, "START")
    /\ seen' = bits
    /\ UNCHANGED <<bits, retryNum, losses, taskVars, boots>>

\* Mutant of WifiInitSta: the monitor is created first.
WifiInitStaMonitored == Start("wait")

\* wifi_init_sta up to esp_wifi_start, which posts STA_START.
WifiInitSta == Start(at["monitor"])

\* xEventGroupWaitBits returns; the bits are not cleared.
WaitBits ==
    /\ at["main"] = "wait"
    /\ seen # {}
    /\ Goto("main", IF "CONNECTED" \in seen THEN "create_monitor" ELSE "stop_ota")
    /\ UNCHANGED <<bitVars, stationVars, events, link, taskVars, boots>>

CreateMonitor ==
    /\ at["main"] = "create_monitor"
    /\ at' = [at EXCEPT !["main"] = "create_ota", !["monitor"] = "wait"]
    /\ UNCHANGED <<bitVars, stationVars, events, link, taskVars, boots>>

\* xTaskCreate writes the handle before the new task can run.
Create(n, here, next) ==
    /\ at["main"] = here
    /\ Goto("main", next)
    /\ task' = [task EXCEPT ![n] = "running"]
    /\ handle' = [handle EXCEPT ![n] = TRUE]
    /\ UNCHANGED <<bitVars, stationVars, events, link, misdeleted, boots>>

CreateTask ==
    \/ Create("ota", "create_ota", "create_udp")
    \/ Create("udp", "create_udp", "create_upload")
    \/ Create("upload", "create_upload", "done")

-----------------------------------------------------------------------------
(* The monitor and wifi_stop.                                              *)

\* xEventGroupWaitBits on FAIL, cleared on return.
MonitorWakes ==
    /\ at["monitor"] = "wait"
    /\ "FAIL" \in bits
    /\ bits' = bits \ {"FAIL"}
    /\ Goto("monitor", "stop_ota")
    /\ UNCHANGED <<seen, stationVars, events, link, taskVars, boots>>

StopIf(t, n, here, next, ready) ==
    /\ at[t] = here
    /\ ready
    /\ Goto(t, next)
    /\ task' = [task EXCEPT ![n] =
                    IF handle[n] /\ task[n] = "running" THEN "deleted" ELSE task[n]]
    /\ misdeleted' = (misdeleted \/ (handle[n] /\ task[n] # "running"))
    /\ handle' = [handle EXCEPT ![n] = FALSE]
    /\ UNCHANGED <<bitVars, stationVars, events, link, boots>>

\* Mutant of Stop: a handle that is NULL is waited for.
StopNamed(t, n, here, next) == StopIf(t, n, here, next, handle[n])

\* stop_simple_ota_example_task, stop_udp_server_task and
\* stop_bmi_send_sensor_data: delete the task the handle names, if any.
Stop(t, n, here, next) == StopIf(t, n, here, next, TRUE)

StopUdp(t) == Stop(t, "udp", "stop_udp", "stop_upload")

StopOther(t) ==
    \/ Stop(t, "ota", "stop_ota", "stop_udp")
    \/ Stop(t, "upload", "stop_upload", "unregister")

\* The handler instances are passed by address, and not the instances that
\* were registered: whether the event loop finds them is left open.
Unregister(t) ==
    /\ at[t] = "unregister"
    /\ Goto(t, "radio_off")
    /\ registered' \in {FALSE, registered}
    /\ UNCHANGED <<bitVars, retryNum, losses, events, link, taskVars, boots>>

\* esp_wifi_stop drops the connection.
RadioOff(t) ==
    /\ at[t] = "radio_off"
    /\ Goto(t, "deinit")
    /\ link' = "off"
    /\ events' = IF link \in {"associated", "online"}
                 THEN Append(events, "DISCONNECTED") ELSE events
    /\ UNCHANGED <<bitVars, stationVars, taskVars, boots>>

\* After 100 ms: the event loop goes, with whatever it still held.
Deinit(t) ==
    /\ at[t] = "deinit"
    /\ Goto(t, "done")
    /\ events' = <<>>
    /\ registered' = FALSE
    /\ UNCHANGED <<bitVars, retryNum, losses, link, taskVars, boots>>

RestOfStop(t) == StopOther(t) \/ Unregister(t) \/ RadioOff(t) \/ Deinit(t)

-----------------------------------------------------------------------------
(* The network tasks, and restarts.                                        *)

\* udp_server_task leaves its loop, at the start or after a failed sendto,
\* when it gets no socket; its handle is not reset.
UdpGivesUp ==
    /\ SocketMayFail
    /\ task["udp"] = "running"
    /\ task' = [task EXCEPT !["udp"] = "ended"]
    /\ UNCHANGED <<at, bitVars, stationVars, events, link, handle, misdeleted,
                   boots>>

\* The chip comes up again, with everything in RAM as at the start.
PowerUp ==
    /\ boots < MaxBoots
    /\ boots' = boots + 1
    /\ at' = AtBoot
    /\ bits' = {} /\ seen' = {}
    /\ retryNum' = 0 /\ losses' = 0 /\ registered' = FALSE
    /\ events' = <<>> /\ link' = "off"
    /\ task' = [n \in NetworkTasks |-> "none"]
    /\ handle' = [n \in NetworkTasks |-> FALSE]
    /\ misdeleted' = FALSE

\* esp_https_ota succeeds, whatever the version served: esp_restart.
OtaRestarts == task["ota"] = "running" /\ PowerUp

-----------------------------------------------------------------------------
Driver == Associate \/ Address \/ Lost
Handler == HandleStart \/ HandleDisconnected \/ HandleGotIp
WifiStop(t) == StopUdp(t) \/ RestOfStop(t)
Main == WifiInitSta \/ WaitBits \/ CreateMonitor \/ CreateTask \/ WifiStop("main")
Monitor == MonitorWakes \/ WifiStop("monitor")

\* A restart needs no reason: a power dip, a panic.
Next ==
    Driver \/ Handler \/ Main \/ Monitor \/ UdpGivesUp \/ OtaRestarts \/ PowerUp

Spec == Init /\ [][Next]_vars

\* What the driver does not leave open for ever.
Attempt == Associate \/ (Lost /\ link = "connecting")

\* The tasks are scheduled, and an attempt to connect ends one way or the
\* other.  An access point that let the station in owes it nothing: neither an
\* address nor an end.
FairSpec ==
    /\ Spec
    /\ WF_vars(Handler)
    /\ WF_vars(Main)
    /\ WF_vars(Monitor)
    /\ WF_vars(Attempt)

-----------------------------------------------------------------------------
(* Safety.                                                                 *)

TypeOK ==
    /\ at \in [{"main", "monitor"} ->
                  {"none", "start", "wait", "done"} \cup CreateSteps \cup StopSteps]
    /\ bits \subseteq Bits
    /\ seen \subseteq Bits
    /\ retryNum \in 0 .. MaximumRetry
    /\ registered \in BOOLEAN
    /\ events \in Seq(Events)
    /\ link \in {"off", "idle", "connecting", "associated", "online"}
    /\ task \in [NetworkTasks -> {"none", "running", "ended", "deleted"}]
    /\ handle \in [NetworkTasks -> BOOLEAN]
    /\ losses \in 0 .. MaximumRetry + 1
    /\ misdeleted \in BOOLEAN
    /\ boots \in 0 .. MaxBoots

\* "we failed to connect after the maximum amount of retries": the station is
\* given up only after that many retries in a row, counted from the last time
\* it had an address.
GivesUpAfterRetries == "FAIL" \in bits => losses > MaximumRetry

\* Once given up, the station is not brought up again by an event that was
\* still queued: nothing calls esp_wifi_connect any more.
GivenUpStaysDown ==
    "FAIL" \in bits \/ at["monitor"] \in StopSteps \cup {"done"}
        => link \in {"idle", "off"}

\* wifi_stop runs in one task only, once: main has created no monitor when it
\* stops the network itself.
OneStopper == ~(at["main"] \in StopSteps /\ at["monitor"] # "none")

\* A stopped network has no tasks left: none was created after wifi_stop had
\* looked at its handle.
NoOrphans == at["monitor"] = "done" => \A n \in NetworkTasks : task[n] # "running"

\* The station was given up.
GivenUp ==
    \/ "FAIL" \in bits
    \/ at["main"] \in StopSteps
    \/ at["monitor"] \in StopSteps \cup {"done"}

\* What the event loop can hold in each state of the driver; the last event
\* before the station is given up is the last there is.
QueueInv ==
    /\ link \in {"off", "connecting", "associated"} => events = <<>>
    /\ link = "online" => events \in {<<>>, <<"GOT_IP">>}
    /\ link = "idle" => events \in {<<>>, <<"START">>, <<"DISCONNECTED">>,
                                   <<"GOT_IP", "DISCONNECTED">>}
    /\ GivenUp => link \in {"idle", "off"} /\ events = <<>>

\* main's own way through wifi_init_sta and the creation of the tasks.
MainInv ==
    /\ at["monitor"] # "none" =>
        at["main"] \in {"create_ota", "create_udp", "create_upload", "done"}
    /\ at["main"] # "none"
    /\ at["monitor"] \in {"none", "wait", "done"} \cup StopSteps
    /\ at["main"] = "start" => bits = {} /\ link = "off"
    /\ at["main"] = "wait" => seen \subseteq bits /\ (seen = {} => bits = {})
    /\ PromptMain /\ "FAIL" \in bits =>
        \/ at["main"] \in StopSteps \cup {"done"}
        \/ at["main"] = "wait" /\ "CONNECTED" \notin seen
    /\ PromptMain /\ at["monitor"] \in StopSteps \cup {"done"} =>
        at["main"] = "done"

\* A running task can be stopped, and one that wifi_stop has passed is not
\* running.
StopInv ==
    /\ \A n \in NetworkTasks : task[n] = "running" => handle[n]
    /\ at["monitor"] \in {"stop_udp", "stop_upload", "done"} \cup AfterTasks /\ PromptMain
        => task["ota"] # "running"
    /\ at["monitor"] \in {"stop_upload", "done"} \cup AfterTasks /\ PromptMain
        => task["udp"] # "running"
    /\ at["monitor"] \in {"done"} \cup AfterTasks /\ PromptMain
        => task["upload"] # "running"

\* The inductive invariant of the safety properties.
NetworkInv ==
    /\ TypeOK
    /\ retryNum <= losses
    /\ GivesUpAfterRetries
    /\ QueueInv
    /\ MainInv
    /\ StopInv

-----------------------------------------------------------------------------
(* Liveness.                                                               *)

\* wifi_init_sta returns and app_main either has its network or gives it up:
\* its wait without a timeout lasts for ever in one case only, an access point
\* that lets the station in and never gives it an address nor drops it.
BootDecides ==
    at["main"] = "wait" ~>
        \/ at["main"] \in {"start", "done"}
        \/ [](at["main"] = "wait" /\ link = "associated")

\* A network that was given up ends with its tasks deleted and the radio off.
LossStopsNetwork ==
    "FAIL" \in bits ~>
        \/ at["main"] = "start"
        \/ link = "off" /\ \A n \in NetworkTasks : task[n] # "running"

-----------------------------------------------------------------------------
(* What the code says of itself and does not do.                           *)

\* app_main.c:96-100: a handle that is not NULL names a task, which is then
\* deleted and logged as "stopped udp server".
StopsRunningTasks == ~misdeleted
=============================================================================
